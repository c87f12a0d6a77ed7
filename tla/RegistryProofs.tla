--------------------------- MODULE RegistryProofs ---------------------------
(***************************************************************************)
(* Proofs about Registry, for every set of workers, pieces and rows and     *)
(* every span of years.                                                     *)
(***************************************************************************)
EXTENDS Registry, FiniteSetTheorems, TLAPS

(* Who is at a number: a draw that holds the counter's row, and one that    *)
(* committed and whose report is still to be written.                       *)
Draws(w, y) == req[w].op = "number" /\ req[w].open /\ req[w].year = y
Owes(w, y, n) ==
  /\ req[w].op = "number" /\ ~req[w].open
  /\ req[w].year = y /\ req[w].number = n
OnPaper(y, n) == \E x \in paper : x.drawn = y /\ x.number = n

\* CounterAccounts number by number, with what makes it inductive: a number is
\* in one place only, and an open draw is alone with its counter.
Ledger ==
  /\ \A y \in Year, n \in Nat :
       n \in 1..counter[y] <=>
         OnPaper(y, n) \/ n \in lost[y] \/ \E w \in Worker : Owes(w, y, n)
  /\ \A x, z \in paper : x.drawn = z.drawn /\ x.number = z.number => x = z
  /\ \A x \in paper : x.number \notin lost[x.drawn]
  /\ \A w \in Worker, y \in Year, n \in Nat :
       Owes(w, y, n) => ~OnPaper(y, n) /\ n \notin lost[y]
  /\ \A v, w \in Worker, y \in Year, n \in Nat :
       Owes(v, y, n) /\ Owes(w, y, n) => v = w
  /\ \A v, w \in Worker, y \in Year : Draws(v, y) /\ Draws(w, y) => v = w
  /\ \A w \in Worker, y \in Year :
       Draws(w, y) => req[w].number = counter[y] + 1

\* What a request has read stays true until it writes; pieces are registered
\* with their number, and nothing else is.
RequestSound(w) ==
  /\ req[w].op = "draw" => req[w].piece # None
  /\ req[w].op = "number" => (req[w].kind = "piece" <=> req[w].piece # None)
  /\ req[w].op = "qr" =>
       \A q \in req[w].seen : qr[q] # Absent /\ qr[q].piece = req[w].piece
  /\ req[w].op = "revoke" => cert[req[w].cert] # Absent

Requests == \A w \in Worker : RequestSound(w)

\* Only reports are printed with a year that is not their counter's.
Printing == \A x \in paper : x.kind # "report" => x.year = x.drawn

\* Who may have left each active code of p behind: nobody two of them, and no
\* one about to regenerate p a code it did not see.
Owners(p) ==
  {f \in [ActiveCodes(p) -> Worker] :
     /\ \A q, r \in ActiveCodes(p) : f[q] = f[r] => q = r
     /\ \A w \in Worker, q \in ActiveCodes(p) :
          req[w].op = "qr" /\ req[w].piece = p /\ f[q] = w
            => q \in req[w].seen}

\* What bounds the codes of a piece: only registered pieces have any or have
\* them regenerated, and every active code has a worker to itself.
CodeOwners ==
  /\ \A p \in Piece : ActiveCodes(p) # {} => Registered(p)
  /\ \A w \in Worker : req[w].op = "qr" => Registered(req[w].piece)
  /\ \A p \in Piece : Owners(p) # {}

RegistryInv ==
  TypeOK /\ Requests /\ Ledger /\ Printing /\ AlwaysACode

-----------------------------------------------------------------------------
(* Types *)

\* The fields of a request, by what it is for.
LEMMA Fields ==
  ASSUME TypeOK, NEW w \in Worker
  PROVE /\ req[w].op = "draw" =>
             /\ req[w].kind \in Kind /\ req[w].piece \in Piece \cup {None}
             /\ req[w].year \in Year
        /\ req[w].op = "number" =>
             /\ req[w].kind \in Kind /\ req[w].piece \in Piece \cup {None}
             /\ req[w].year \in Year /\ req[w].number \in Number
             /\ req[w].open \in BOOLEAN
        /\ req[w].op = "qr" =>
             req[w].piece \in Piece /\ req[w].seen \subseteq QrCode
        /\ req[w].op = "issue" => req[w].piece \in Piece
        /\ req[w].op = "revoke" => req[w].cert \in Certificate
<1>1. req[w] \in Request
  BY DEF TypeOK
<1> QED  BY <1>1 DEF Request, Idle

\* Years and numbers are natural numbers.
LEMMA Numbers ==
  /\ Year \subseteq Nat /\ FirstYear \in Year
  /\ Number \subseteq Nat /\ MaxNumber \in Nat
  BY OfficeAssumption DEF Year, Number

\* What a worker serves now; the others go on with what they had.
LEMMA Served ==
  ASSUME TypeOK, NEW w \in Worker, NEW r \in Request, Serve(w, r)
  PROVE /\ req' \in [Worker -> Request]
        /\ req'[w] = r
        /\ \A v \in Worker \ {w} : req'[v] = req[v]
  BY DEF TypeOK, Serve

LEMMA Finished ==
  ASSUME TypeOK, NEW w \in Worker, Finish(w)
  PROVE /\ req' \in [Worker -> Request]
        /\ req'[w] = Idle
        /\ \A v \in Worker \ {w} : req'[v] = req[v]
<1>1. Idle \in Request
  BY DEF Request
<1> QED  BY <1>1, Served DEF Finish

\* An absent row has another status than a row.
LEMMA Rows ==
  /\ Absent \notin QrRow /\ Absent \notin CertRow
  /\ \A x \in QrRow \cup CertRow : x.piece \in Piece
  /\ \A x \in CertRow : [x EXCEPT !.status = "REVOKED"] \in CertRow
  /\ \A x \in QrRow :
       /\ [x EXCEPT !.status = "REVOKED"] \in QrRow
       /\ [x EXCEPT !.status = "REVOKED"].piece = x.piece
  /\ \A p \in Piece :
       /\ [piece |-> p, status |-> "ACTIVE"] \in QrRow
       /\ [piece |-> p, status |-> "ACTIVE"] \in CertRow
  BY DEF QrRow, CertRow, Absent

\* The paper that a commit adds.
LEMMA PrintedPaper ==
  ASSUME TypeOK, NEW w \in Worker, req[w].op = "number"
  PROVE /\ Printed(w) \in Paper
        /\ Printed(w).kind = req[w].kind /\ Printed(w).piece = req[w].piece
        /\ Printed(w).drawn = req[w].year /\ Printed(w).number = req[w].number
        /\ Printed(w).kind # "report" => Printed(w).year = Printed(w).drawn
<1>1. /\ req[w].kind \in Kind /\ req[w].piece \in Piece \cup {None}
      /\ req[w].year \in Year /\ req[w].number \in Number
  BY Fields
<1>2. clock \in Year
  BY DEF TypeOK
<1> QED  BY <1>1, <1>2 DEF Printed, Paper

\* A draw, by either way.
LEMMA DrawRequest ==
  ASSUME TypeOK, NEW k \in Kind, NEW p \in Piece \cup {None}, NEW y \in Year,
         NEW o \in BOOLEAN, counter[y] < MaxNumber
  PROVE /\ [op |-> "number", kind |-> k, piece |-> p, year |-> y,
            number |-> counter[y] + 1, open |-> o] \in Request
        /\ counter[y] \in Nat /\ counter[y] + 1 \in 0..MaxNumber
<1>1. counter[y] \in 0..MaxNumber
  BY DEF TypeOK
<1>2. counter[y] \in Nat /\ counter[y] + 1 \in Number
      /\ counter[y] + 1 \in 0..MaxNumber
  BY <1>1, OfficeAssumption DEF Number
<1>3. \A n \in Number : [op |-> "number", kind |-> k, piece |-> p, year |-> y,
                         number |-> n, open |-> o] \in Request
  BY DEF Request
<1> QED  BY <1>2, <1>3

\* Gaps are numbers of their year.
LEMMA ForfeitType ==
  ASSUME TypeOK, NEW w \in Worker, req[w].op = "number", Forfeit(w)
  PROVE lost' \in [Year -> SUBSET Number]
<1>1. req[w].year \in Year /\ req[w].number \in Number
  BY Fields
<1>2. lost \in [Year -> SUBSET Number]
  BY DEF TypeOK
<1>3. [lost EXCEPT ![req[w].year] = @ \cup {req[w].number}]
        \in [Year -> SUBSET Number]
  BY <1>1, <1>2
<1> QED  BY <1>2, <1>3 DEF Forfeit

LEMMA TypeStep ==
  ASSUME RegistryInv, [Next]_vars
  PROVE TypeOK'
<1>0. TypeOK /\ Requests
  BY DEF RegistryInv
<1>t. /\ clock \in Year /\ counter \in [Year -> 0..MaxNumber]
      /\ paper \subseteq Paper /\ lost \in [Year -> SUBSET Number]
      /\ qr \in [QrCode -> QrRow \cup {Absent}]
      /\ cert \in [Certificate -> CertRow \cup {Absent}]
      /\ req \in [Worker -> Request]
  BY <1>0 DEF TypeOK
<1>1. ASSUME NEW w \in Worker, NEW p \in Piece, RegisterYear(w, p)
      PROVE TypeOK'
  <2>1. [op |-> "draw", kind |-> "piece", piece |-> p, year |-> clock]
          \in Request
    BY <1>t DEF Request, Kind
  <2> QED  BY <1>0, <1>t, <1>1, <2>1, Served DEF RegisterYear, TypeOK
<1>2. ASSUME NEW w \in Worker, NEW k \in Kind, NEW p \in Piece \cup {None},
             NEW y \in Year, DrawOpen(w, k, p, y)
      PROVE TypeOK'
  <2>1. [op |-> "number", kind |-> k, piece |-> p, year |-> y,
         number |-> counter[y] + 1, open |-> TRUE] \in Request
    BY <1>0, <1>2, DrawRequest DEF DrawOpen
  <2> QED  BY <1>0, <1>t, <1>2, <2>1, Served DEF DrawOpen, TypeOK
<1>3. ASSUME NEW w \in Worker, AddReportDraw(w)
      PROVE TypeOK'
  <2>1. "report" \in Kind /\ None \in Piece \cup {None}
    BY DEF Kind
  <2>2. /\ [op |-> "number", kind |-> "report", piece |-> None,
            year |-> clock, number |-> counter[clock] + 1, open |-> FALSE]
             \in Request
        /\ counter[clock] + 1 \in 0..MaxNumber
    BY <1>0, <1>t, <1>3, <2>1, DrawRequest DEF AddReportDraw
  <2>3. counter' \in [Year -> 0..MaxNumber]
    BY <1>t, <1>3, <2>2 DEF AddReportDraw
  <2> QED  BY <1>0, <1>t, <1>3, <2>2, <2>3, Served DEF AddReportDraw, TypeOK
<1>4. ASSUME NEW w \in Worker, NumberCommit(w)
      PROVE TypeOK'
  <2>1. req[w].op = "number" /\ Finish(w)
    BY <1>4 DEF NumberCommit
  <2>2. /\ req[w].kind \in Kind /\ req[w].piece \in Piece \cup {None}
        /\ req[w].year \in Year /\ req[w].number \in Number
    BY <1>0, <2>1, Fields
  <2>3. paper' \subseteq Paper
    BY <1>0, <1>t, <1>4, <2>1, PrintedPaper DEF NumberCommit
  <2>4. counter' \in [Year -> 0..MaxNumber]
    <3>1. req[w].number \in 0..MaxNumber
      BY <2>2, OfficeAssumption DEF Number
    <3>2. \/ counter' = counter
          \/ counter' = [counter EXCEPT ![req[w].year] = req[w].number]
      BY <1>4 DEF NumberCommit
    <3> QED  BY <1>t, <2>2, <3>1, <3>2
  <2>5. qr' \in [QrCode -> QrRow \cup {Absent}]
    <3>1. CASE req[w].kind = "piece"
      <4>1. PICK q \in QrCode :
              qr' = [qr EXCEPT ![q] = [piece |-> req[w].piece,
                                       status |-> "ACTIVE"]]
        BY <1>4, <3>1 DEF NumberCommit
      <4>2. req[w].piece \in Piece
        BY <1>0, <2>1, <2>2, <3>1 DEF Requests, RequestSound
      <4> QED  BY <1>t, <4>1, <4>2, Rows
    <3>2. CASE req[w].kind # "piece"
      BY <1>t, <1>4, <3>2 DEF NumberCommit
    <3> QED  BY <3>1, <3>2
  <2>6. req' \in [Worker -> Request]
    BY <1>0, <2>1, Finished
  <2> QED  BY <1>t, <1>4, <2>3, <2>4, <2>5, <2>6 DEF NumberCommit, TypeOK
<1>5. ASSUME NEW w \in Worker, NumberConflict(w)
      PROVE TypeOK'
  BY <1>0, <1>t, <1>5, Finished, ForfeitType DEF NumberConflict, TypeOK
<1>6. CASE NewYear
  <2>1. clock' \in Year
    BY <1>t, <1>6, OfficeAssumption DEF NewYear, Year
  <2> QED  BY <1>t, <1>6, <2>1 DEF NewYear, TypeOK
<1>7. ASSUME NEW w \in Worker, NEW p \in Piece, RegenerateLoad(w, p)
      PROVE TypeOK'
  <2>1. [op |-> "qr", piece |-> p, seen |-> ActiveCodes(p)] \in Request
    BY DEF Request, ActiveCodes
  <2> QED  BY <1>0, <1>t, <1>7, <2>1, Served DEF RegenerateLoad, TypeOK
<1>8. ASSUME NEW w \in Worker, RegenerateCommit(w)
      PROVE TypeOK'
  <2>1. req[w].op = "qr" /\ req[w].piece \in Piece
    BY <1>0, <1>8, Fields DEF RegenerateCommit
  <2>2. Revoking(req[w].seen) \in [QrCode -> QrRow \cup {Absent}]
    <3>1. \A q \in req[w].seen : q \in QrCode /\ qr[q] \in QrRow
      BY <1>0, <1>t, <2>1, Fields DEF Requests, RequestSound
    <3> QED  BY <1>t, <3>1, Rows DEF Revoking
  <2>3. qr' \in [QrCode -> QrRow \cup {Absent}]
    BY <1>8, <2>1, <2>2, Rows DEF RegenerateCommit
  <2> QED  BY <1>0, <1>t, <1>8, <2>3, Finished DEF RegenerateCommit, TypeOK
<1>9. ASSUME NEW w \in Worker, NEW p \in Piece, IssueLoad(w, p)
      PROVE TypeOK'
  <2>1. [op |-> "issue", piece |-> p] \in Request
    BY DEF Request
  <2> QED  BY <1>0, <1>t, <1>9, <2>1, Served DEF IssueLoad, TypeOK
<1>10. ASSUME NEW w \in Worker, NEW c \in Certificate, IssueCommit(w, c)
       PROVE TypeOK'
  <2>1. req[w].piece \in Piece
    BY <1>0, <1>10, Fields DEF IssueCommit
  <2>2. cert' \in [Certificate -> CertRow \cup {Absent}]
    BY <1>t, <1>10, <2>1, Rows DEF IssueCommit
  <2> QED  BY <1>0, <1>t, <1>10, <2>2, Finished DEF IssueCommit, TypeOK
<1>11. ASSUME NEW w \in Worker, NEW c \in Certificate, RevokeLoad(w, c)
       PROVE TypeOK'
  <2>1. [op |-> "revoke", cert |-> c] \in Request
    BY DEF Request
  <2> QED  BY <1>0, <1>t, <1>11, <2>1, Served DEF RevokeLoad, TypeOK
<1>12. ASSUME NEW w \in Worker, RevokeWrite(w)
       PROVE TypeOK'
  <2>1. req[w].cert \in Certificate /\ cert[req[w].cert] \in CertRow
    BY <1>0, <1>t, <1>12, Fields DEF RevokeWrite, Requests, RequestSound
  <2>2. cert' \in [Certificate -> CertRow \cup {Absent}]
    <3>1. [cert[req[w].cert] EXCEPT !.status = "REVOKED"] \in CertRow
      BY <2>1, Rows
    <3>2. cert' = [cert EXCEPT ![req[w].cert] =
                     [cert[req[w].cert] EXCEPT !.status = "REVOKED"]]
      BY <1>12 DEF RevokeWrite
    <3> QED  BY <1>t, <3>1, <3>2
  <2> QED  BY <1>0, <1>t, <1>12, <2>2, Finished DEF RevokeWrite, TypeOK
<1>13. ASSUME NEW w \in Worker, Abort(w)
       PROVE TypeOK'
  <2>1. lost' \in [Year -> SUBSET Number]
    BY <1>0, <1>t, <1>13, ForfeitType DEF Abort
  <2> QED  BY <1>0, <1>t, <1>13, <2>1, Finished DEF Abort, TypeOK
<1>14. CASE UNCHANGED vars
  BY <1>t, <1>14 DEF vars, TypeOK
<1> QED
  <2>1. CASE SerialNext
    <3>1. ASSUME NEW w \in Worker, RegisterDraw(w) \/ SaleDraw(w) \/ ReportDraw(w)
          PROVE TypeOK'
      <4>1. Kind = {"piece", "invoice", "report"}
        BY DEF Kind
      <4> QED  BY <1>0, <1>t, <1>2, <3>1, <4>1, Fields
               DEF RegisterDraw, SaleDraw, ReportDraw
    <3> QED  BY <1>1, <1>3, <1>4, <1>5, <1>6, <2>1, <3>1 DEF SerialNext
  <2>2. CASE IdentityNext
    BY <1>7, <1>8, <1>9, <1>10, <1>11, <1>12, <2>2 DEF IdentityNext
  <2> QED  BY <1>13, <1>14, <2>1, <2>2 DEF Next

-----------------------------------------------------------------------------
(* Requests *)

\* Rows do not vanish and keep their piece, so the others' requests stay sound.
LEMMA RequestsKept ==
  ASSUME TypeOK, Requests, NEW w \in Worker,
         \A v \in Worker \ {w} : req'[v] = req[v],
         \A q \in QrCode :
           qr[q] # Absent => qr'[q] # Absent /\ qr'[q].piece = qr[q].piece,
         \A c \in Certificate : cert[c] # Absent => cert'[c] # Absent,
         RequestSound(w)'
  PROVE Requests'
<1>1. ASSUME NEW v \in Worker, v # w
      PROVE RequestSound(v)'
  <2>1. req'[v] = req[v] /\ RequestSound(v)
    BY <1>1 DEF Requests
  <2> QED  BY <2>1, Fields DEF RequestSound
<1> QED  BY <1>1 DEF Requests

\* An idle worker claims nothing.
LEMMA IdleSound ==
  ASSUME NEW w \in Worker, req'[w] = Idle
  PROVE RequestSound(w)'
  BY DEF RequestSound, Idle

LEMMA RequestsStep ==
  ASSUME RegistryInv, [Next]_vars
  PROVE Requests'
<1>0. TypeOK /\ Requests
  BY DEF RegistryInv
<1>t. /\ qr \in [QrCode -> QrRow \cup {Absent}]
      /\ cert \in [Certificate -> CertRow \cup {Absent}]
  BY <1>0 DEF TypeOK
<1>1. ASSUME NEW w \in Worker, NEW p \in Piece, RegisterYear(w, p)
      PROVE Requests'
  <2>1. [op |-> "draw", kind |-> "piece", piece |-> p, year |-> clock]
          \in Request
    BY <1>0 DEF Request, Kind, TypeOK
  <2>2. RequestSound(w)' /\ \A v \in Worker \ {w} : req'[v] = req[v]
    BY <1>0, <1>1, <2>1, Served, OfficeAssumption
       DEF RegisterYear, RequestSound
  <2> QED  BY <1>0, <1>1, <2>2, RequestsKept DEF RegisterYear
<1>2. ASSUME NEW w \in Worker, NEW k \in Kind, NEW p \in Piece \cup {None},
             NEW y \in Year, DrawOpen(w, k, p, y), k = "piece" <=> p # None
      PROVE Requests'
  <2>1. [op |-> "number", kind |-> k, piece |-> p, year |-> y,
         number |-> counter[y] + 1, open |-> TRUE] \in Request
    BY <1>0, <1>2, DrawRequest DEF DrawOpen
  <2>2. RequestSound(w)' /\ \A v \in Worker \ {w} : req'[v] = req[v]
    BY <1>0, <1>2, <2>1, Served DEF DrawOpen, RequestSound
  <2> QED  BY <1>0, <1>2, <2>2, RequestsKept DEF DrawOpen
<1>3. ASSUME NEW w \in Worker, AddReportDraw(w)
      PROVE Requests'
  <2>1. [op |-> "number", kind |-> "report", piece |-> None,
         year |-> clock, number |-> counter[clock] + 1, open |-> FALSE]
           \in Request
    BY <1>0, <1>3, DrawRequest DEF AddReportDraw, Kind, TypeOK
  <2>2. RequestSound(w)' /\ \A v \in Worker \ {w} : req'[v] = req[v]
    BY <1>0, <1>3, <2>1, Served DEF AddReportDraw, RequestSound
  <2> QED  BY <1>0, <1>3, <2>2, RequestsKept DEF AddReportDraw
<1>4. ASSUME NEW w \in Worker, NumberCommit(w)
      PROVE Requests'
  <2>1. RequestSound(w)' /\ \A v \in Worker \ {w} : req'[v] = req[v]
    BY <1>0, <1>4, Finished, IdleSound DEF NumberCommit
  <2>2. \A q \in QrCode : qr[q] # Absent => qr'[q] = qr[q]
    <3>1. CASE req[w].kind = "piece"
      <4>1. PICK q \in QrCode :
              /\ qr[q] = Absent
              /\ qr' = [qr EXCEPT ![q] = [piece |-> req[w].piece,
                                          status |-> "ACTIVE"]]
        BY <1>4, <3>1 DEF NumberCommit
      <4> QED  BY <1>t, <4>1
    <3>2. CASE req[w].kind # "piece"
      BY <1>4, <3>2 DEF NumberCommit
    <3> QED  BY <3>1, <3>2
  <2> QED  BY <1>0, <1>4, <2>1, <2>2, RequestsKept DEF NumberCommit
<1>5. ASSUME NEW w \in Worker, NumberConflict(w)
      PROVE Requests'
  BY <1>0, <1>5, Finished, IdleSound, RequestsKept DEF NumberConflict
<1>6. CASE NewYear
  BY <1>0, <1>6 DEF NewYear, Requests, RequestSound
<1>7. ASSUME NEW w \in Worker, NEW p \in Piece, RegenerateLoad(w, p)
      PROVE Requests'
  <2>1. [op |-> "qr", piece |-> p, seen |-> ActiveCodes(p)] \in Request
    BY DEF Request, ActiveCodes
  <2>2. \A q \in ActiveCodes(p) : qr[q] # Absent /\ qr[q].piece = p
    BY DEF ActiveCodes, Absent
  <2>3. req'[w] = [op |-> "qr", piece |-> p, seen |-> ActiveCodes(p)]
        /\ \A v \in Worker \ {w} : req'[v] = req[v]
    BY <1>0, <1>7, <2>1, Served DEF RegenerateLoad
  <2>4. RequestSound(w)'
    BY <1>7, <2>2, <2>3 DEF RegenerateLoad, RequestSound
  <2> QED  BY <1>0, <1>7, <2>3, <2>4, RequestsKept DEF RegenerateLoad
<1>8. ASSUME NEW w \in Worker, RegenerateCommit(w)
      PROVE Requests'
  <2>1. RequestSound(w)' /\ \A v \in Worker \ {w} : req'[v] = req[v]
    BY <1>0, <1>8, Finished, IdleSound DEF RegenerateCommit
  <2>2. \A q \in QrCode :
          qr[q] # Absent => qr'[q] # Absent /\ qr'[q].piece = qr[q].piece
    <3>1. PICK n \in QrCode :
            /\ qr[n] = Absent
            /\ qr' = [Revoking(req[w].seen) EXCEPT ![n] =
                        [piece |-> req[w].piece, status |-> "ACTIVE"]]
      BY <1>8 DEF RegenerateCommit
    <3>2. ASSUME NEW q \in QrCode, qr[q] # Absent
          PROVE qr'[q] # Absent /\ qr'[q].piece = qr[q].piece
      <4>1. qr[q] \in QrRow /\ q # n
        BY <1>t, <3>1, <3>2
      <4>2. qr'[q] = Revoking(req[w].seen)[q]
        BY <3>1, <4>1 DEF Revoking
      <4>3. \/ qr'[q] = qr[q]
            \/ qr'[q] = [qr[q] EXCEPT !.status = "REVOKED"]
        BY <4>2 DEF Revoking
      <4> QED  BY <4>1, <4>3, Rows
    <3> QED  BY <3>2
  <2> QED  BY <1>0, <1>8, <2>1, <2>2, RequestsKept DEF RegenerateCommit
<1>9. ASSUME NEW w \in Worker, NEW p \in Piece, IssueLoad(w, p)
      PROVE Requests'
  <2>1. [op |-> "issue", piece |-> p] \in Request
    BY DEF Request
  <2>2. RequestSound(w)' /\ \A v \in Worker \ {w} : req'[v] = req[v]
    BY <1>0, <1>9, <2>1, Served DEF IssueLoad, RequestSound
  <2> QED  BY <1>0, <1>9, <2>2, RequestsKept DEF IssueLoad
<1>10. ASSUME NEW w \in Worker, NEW c \in Certificate, IssueCommit(w, c)
       PROVE Requests'
  <2>1. RequestSound(w)' /\ \A v \in Worker \ {w} : req'[v] = req[v]
    BY <1>0, <1>10, Finished, IdleSound DEF IssueCommit
  <2>2. \A d \in Certificate : cert[d] # Absent => cert'[d] = cert[d]
    BY <1>t, <1>10 DEF IssueCommit
  <2> QED  BY <1>0, <1>10, <2>1, <2>2, RequestsKept DEF IssueCommit
<1>11. ASSUME NEW w \in Worker, NEW c \in Certificate, RevokeLoad(w, c)
       PROVE Requests'
  <2>1. [op |-> "revoke", cert |-> c] \in Request
    BY DEF Request
  <2>2. cert[c] # Absent
    BY <1>11 DEF RevokeLoad, Absent
  <2>3. req'[w] = [op |-> "revoke", cert |-> c]
        /\ \A v \in Worker \ {w} : req'[v] = req[v]
    BY <1>0, <1>11, <2>1, Served DEF RevokeLoad
  <2>4. RequestSound(w)'
    BY <1>11, <2>2, <2>3 DEF RevokeLoad, RequestSound
  <2> QED  BY <1>0, <1>11, <2>3, <2>4, RequestsKept DEF RevokeLoad
<1>12. ASSUME NEW w \in Worker, RevokeWrite(w)
       PROVE Requests'
  <2>1. RequestSound(w)' /\ \A v \in Worker \ {w} : req'[v] = req[v]
    BY <1>0, <1>12, Finished, IdleSound DEF RevokeWrite
  <2>2. req[w].cert \in Certificate /\ cert[req[w].cert] \in CertRow
    BY <1>0, <1>t, <1>12, Fields DEF RevokeWrite, Requests, RequestSound
  <2>3. /\ [cert[req[w].cert] EXCEPT !.status = "REVOKED"] \in CertRow
        /\ cert' = [cert EXCEPT ![req[w].cert] =
                      [cert[req[w].cert] EXCEPT !.status = "REVOKED"]]
    BY <1>12, <2>2, Rows DEF RevokeWrite
  <2>4. \A d \in Certificate : cert[d] # Absent => cert'[d] # Absent
    BY <1>t, <2>2, <2>3, Rows
  <2> QED  BY <1>0, <1>12, <2>1, <2>4, RequestsKept DEF RevokeWrite
<1>13. ASSUME NEW w \in Worker, Abort(w)
       PROVE Requests'
  BY <1>0, <1>13, Finished, IdleSound, RequestsKept DEF Abort
<1>14. CASE UNCHANGED vars
  BY <1>0, <1>14 DEF vars, Requests, RequestSound
<1> QED
  <2>1. CASE SerialNext
    <3>1. Kind = {"piece", "invoice", "report"} /\ clock \in Year
      BY <1>0 DEF Kind, TypeOK
    <3>2. ASSUME NEW w \in Worker, RegisterDraw(w)
          PROVE Requests'
      <4>1. /\ req[w].op = "draw" /\ req[w].year \in Year
            /\ req[w].piece \in Piece \cup {None}
            /\ req[w].piece # None
            /\ DrawOpen(w, "piece", req[w].piece, req[w].year)
        BY <1>0, <3>2, Fields DEF RegisterDraw, Requests, RequestSound
      <4> QED  BY <1>2, <3>1, <4>1
    <3>3. ASSUME NEW w \in Worker, SaleDraw(w) \/ ReportDraw(w)
          PROVE Requests'
      BY <1>2, <3>1, <3>3 DEF SaleDraw, ReportDraw
    <3> QED  BY <1>1, <1>3, <1>4, <1>5, <1>6, <2>1, <3>2, <3>3
             DEF SerialNext
  <2>2. CASE IdentityNext
    BY <1>7, <1>8, <1>9, <1>10, <1>11, <1>12, <2>2 DEF IdentityNext
  <2> QED  BY <1>13, <1>14, <2>1, <2>2 DEF Next

-----------------------------------------------------------------------------
(* The ledger.  Each lemma is about one way in which a request touches it:  *)
(* what it holds of numbers before and after, the others unchanged.         *)

\* The step changes no other request.
Others(w) ==
  \A v \in Worker \ {w}, y \in Year, n \in Nat :
    /\ Owes(v, y, n)' <=> Owes(v, y, n)
    /\ Draws(v, y)' <=> Draws(v, y)
    /\ req'[v].number = req[v].number

LEMMA OthersKept ==
  ASSUME NEW w \in Worker, \A v \in Worker \ {w} : req'[v] = req[v]
  PROVE Others(w)
  BY DEF Others, Owes, Draws

\* The tables stay: a request starts to draw, alone, or rolls its draw back, or
\* was never at a number.
LEMMA QuietLedger ==
  ASSUME TypeOK, Ledger, NEW w \in Worker, Others(w),
         UNCHANGED <<counter, paper, lost>>,
         \A y \in Year, n \in Nat : ~Owes(w, y, n) /\ ~Owes(w, y, n)',
         \A y \in Year : Draws(w, y)' =>
           /\ req'[w].number = counter[y] + 1
           /\ \A v \in Worker \ {w} : ~Draws(v, y)
  PROVE Ledger'
<1>1. \A y \in Year, n \in Nat : OnPaper(y, n)' <=> OnPaper(y, n)
  BY DEF OnPaper
<1> QED  BY <1>1 DEF Ledger, Others

\* addReport: the counter is raised and the number owed in one step.
LEMMA RaisedLedger ==
  ASSUME TypeOK, Ledger, NEW w \in Worker, Others(w), NEW y0 \in Year,
         UNCHANGED <<paper, lost>>,
         counter' = [counter EXCEPT ![y0] = @ + 1],
         \A v \in Worker : ~Draws(v, y0),
         \A y \in Year, n \in Nat :
           ~Owes(w, y, n) /\ (Owes(w, y, n)' <=> y = y0 /\ n = counter[y0] + 1),
         \A y \in Year : ~Draws(w, y)'
  PROVE Ledger'
<1>1. \A y \in Year, n \in Nat : OnPaper(y, n)' <=> OnPaper(y, n)
  BY DEF OnPaper
<1>2. /\ \A y \in Year : counter[y] \in Nat
      /\ counter'[y0] = counter[y0] + 1
      /\ \A y \in Year \ {y0} : counter'[y] = counter[y]
  BY Numbers DEF TypeOK
<1>3. \A x \in paper : x.drawn \in Year /\ x.number \in Nat
  BY Numbers DEF TypeOK, Paper
<1>4. ~OnPaper(y0, counter[y0] + 1) /\ counter[y0] + 1 \notin lost[y0]
      /\ \A v \in Worker : ~Owes(v, y0, counter[y0] + 1)
  BY <1>2 DEF Ledger
<1>5. \A y \in Year, n \in Nat :
        n \in 1..counter'[y] <=>
          \/ OnPaper(y, n)' \/ n \in lost'[y]
          \/ \E v \in Worker : Owes(v, y, n)'
  <2> SUFFICES ASSUME NEW y \in Year, NEW n \in Nat
               PROVE n \in 1..counter'[y] <=>
                       \/ OnPaper(y, n)' \/ n \in lost'[y]
                       \/ \E v \in Worker : Owes(v, y, n)'
    OBVIOUS
  <2>1. n \in 1..counter'[y] <=>
          n \in 1..counter[y] \/ (y = y0 /\ n = counter[y0] + 1)
    BY <1>2
  <2>2. (\E v \in Worker : Owes(v, y, n)') <=>
          (\E v \in Worker : Owes(v, y, n)) \/ (y = y0 /\ n = counter[y0] + 1)
    BY DEF Others
  <2> QED  BY <1>1, <2>1, <2>2 DEF Ledger
<1>6. \A v \in Worker, y \in Year, n \in Nat :
        Owes(v, y, n)' => ~OnPaper(y, n)' /\ n \notin lost'[y]
  BY <1>1, <1>4 DEF Ledger, Others
<1>7. \A u, v \in Worker, y \in Year, n \in Nat :
        Owes(u, y, n)' /\ Owes(v, y, n)' => u = v
  BY <1>4 DEF Ledger, Others
<1>8. \A v \in Worker, y \in Year :
        Draws(v, y)' => req'[v].number = counter'[y] + 1
  BY <1>2 DEF Ledger, Others
<1>9. \A u, v \in Worker, y \in Year : Draws(u, y)' /\ Draws(v, y)' => u = v
  BY DEF Ledger, Others
<1>10. \A x, z \in paper : x.drawn = z.drawn /\ x.number = z.number => x = z
  BY DEF Ledger
<1>11. \A x \in paper : x.number \notin lost[x.drawn]
  BY DEF Ledger
<1> QED  BY <1>5, <1>6, <1>7, <1>8, <1>9, <1>10, <1>11 DEF Ledger

\* A number gets on paper: drawn by an open transaction that raises the counter
\* with it, or owed since addReport raised it.
LEMMA PrintedLedger ==
  ASSUME TypeOK, Ledger, NEW w \in Worker, Others(w), NEW y0 \in Year,
         NEW n0 \in Nat, NEW x0, x0.drawn = y0, x0.number = n0,
         paper' = paper \cup {x0}, UNCHANGED lost,
         \A y \in Year, n \in Nat : ~Owes(w, y, n)' /\ ~Draws(w, y)',
         \/ /\ Draws(w, y0) /\ req[w].number = n0
            /\ \A y \in Year, n \in Nat : ~Owes(w, y, n)
            /\ counter' = [counter EXCEPT ![y0] = n0]
         \/ /\ \A y \in Year, n \in Nat : Owes(w, y, n) <=> y = y0 /\ n = n0
            /\ counter' = counter
  PROVE Ledger'
<1>1. \A y \in Year, n \in Nat :
        OnPaper(y, n)' <=> OnPaper(y, n) \/ (y = y0 /\ n = n0)
  BY DEF OnPaper
<1>2. /\ \A y \in Year : counter[y] \in Nat
      /\ \A y \in Year \ {y0} : counter'[y] = counter[y]
  BY Numbers DEF TypeOK
<1>3. \A x \in paper : x.drawn \in Year /\ x.number \in Nat
  BY Numbers DEF TypeOK, Paper
<1>4. ~OnPaper(y0, n0) /\ n0 \notin lost[y0]
      /\ \A v \in Worker \ {w} : ~Owes(v, y0, n0)
  <2>1. CASE Draws(w, y0) /\ req[w].number = n0
             /\ \A y \in Year, n \in Nat : ~Owes(w, y, n)
    <3>1. n0 = counter[y0] + 1
      BY <2>1 DEF Ledger
    <3>2. n0 \notin 1..counter[y0]
      BY <1>2, <3>1
    <3> QED  BY <3>2 DEF Ledger
  <2>2. CASE \A y \in Year, n \in Nat : Owes(w, y, n) <=> y = y0 /\ n = n0
    BY <2>2 DEF Ledger
  <2> QED  BY <2>1, <2>2
<1>5. \A y \in Year, n \in Nat :
        n \in 1..counter'[y] <=>
          \/ OnPaper(y, n)' \/ n \in lost'[y]
          \/ \E v \in Worker : Owes(v, y, n)'
  <2> SUFFICES ASSUME NEW y \in Year, NEW n \in Nat
               PROVE n \in 1..counter'[y] <=>
                       \/ OnPaper(y, n)' \/ n \in lost'[y]
                       \/ \E v \in Worker : Owes(v, y, n)'
    OBVIOUS
  <2>1. n \in 1..counter[y] <=>
          OnPaper(y, n) \/ n \in lost[y] \/ \E v \in Worker : Owes(v, y, n)
    BY DEF Ledger
  <2>2. CASE Draws(w, y0) /\ req[w].number = n0
             /\ (\A z \in Year, m \in Nat : ~Owes(w, z, m))
             /\ counter' = [counter EXCEPT ![y0] = n0]
    <3>1. n0 = counter[y0] + 1
      BY <2>2 DEF Ledger
    <3>2. counter'[y] = IF y = y0 THEN n0 ELSE counter[y]
      BY <2>2 DEF TypeOK
    <3>3. n \in 1..counter'[y] <=> n \in 1..counter[y] \/ (y = y0 /\ n = n0)
      BY <1>2, <3>1, <3>2
    <3>4. (\E v \in Worker : Owes(v, y, n)') <=> (\E v \in Worker : Owes(v, y, n))
      BY <2>2 DEF Others
    <3> QED  BY <1>1, <2>1, <3>3, <3>4
  <2>3. CASE /\ \A z \in Year, m \in Nat : Owes(w, z, m) <=> z = y0 /\ m = n0
             /\ counter' = counter
    <3>1. (\E v \in Worker : Owes(v, y, n)) <=>
            (\E v \in Worker : Owes(v, y, n)') \/ (y = y0 /\ n = n0)
      BY <2>3 DEF Others
    <3> QED  BY <1>1, <2>1, <2>3, <3>1
  <2> QED  BY <2>2, <2>3
<1>6. \A v \in Worker, y \in Year, n \in Nat :
        Owes(v, y, n)' => ~OnPaper(y, n)' /\ n \notin lost'[y]
  BY <1>1, <1>4 DEF Ledger, Others
<1>7. \A u, v \in Worker, y \in Year, n \in Nat :
        Owes(u, y, n)' /\ Owes(v, y, n)' => u = v
  BY DEF Ledger, Others
<1>8. \A v \in Worker, y \in Year :
        Draws(v, y)' => req'[v].number = counter'[y] + 1
  <2> SUFFICES ASSUME NEW v \in Worker, NEW y \in Year, Draws(v, y)'
               PROVE req'[v].number = counter'[y] + 1
    OBVIOUS
  <2>1. v # w /\ Draws(v, y) /\ req'[v].number = req[v].number
    BY DEF Others
  <2>2. req[v].number = counter[y] + 1
    BY <2>1 DEF Ledger
  <2>3. counter'[y] = counter[y]
    BY <1>2, <2>1 DEF Ledger
  <2> QED  BY <2>1, <2>2, <2>3
<1>9. \A u, v \in Worker, y \in Year : Draws(u, y)' /\ Draws(v, y)' => u = v
  BY DEF Ledger, Others
<1>10. \A x, z \in paper' : x.drawn = z.drawn /\ x.number = z.number => x = z
  BY <1>3, <1>4 DEF Ledger, OnPaper
<1>11. \A x \in paper' : x.number \notin lost'[x.drawn]
  BY <1>4 DEF Ledger
<1> QED  BY <1>5, <1>6, <1>7, <1>8, <1>9, <1>10, <1>11 DEF Ledger

\* A committed draw whose report is never written leaves its gap.
LEMMA LostLedger ==
  ASSUME TypeOK, Ledger, NEW w \in Worker, Others(w), NEW y0 \in Year,
         NEW n0 \in Nat, UNCHANGED <<counter, paper>>,
         lost' = [lost EXCEPT ![y0] = @ \cup {n0}],
         \A y \in Year, n \in Nat :
           /\ Owes(w, y, n) <=> y = y0 /\ n = n0
           /\ ~Owes(w, y, n)' /\ ~Draws(w, y)'
  PROVE Ledger'
<1>1. \A y \in Year, n \in Nat : OnPaper(y, n)' <=> OnPaper(y, n)
  BY DEF OnPaper
<1>2. \A y \in Year, n \in Nat :
        n \in lost'[y] <=> n \in lost[y] \/ (y = y0 /\ n = n0)
  BY DEF TypeOK
<1>3. \A x \in paper : x.drawn \in Year /\ x.number \in Nat
  BY Numbers DEF TypeOK, Paper
<1>4. \A y \in Year, n \in Nat :
        n \in 1..counter'[y] <=>
          \/ OnPaper(y, n)' \/ n \in lost'[y]
          \/ \E v \in Worker : Owes(v, y, n)'
  <2>1. \A y \in Year, n \in Nat :
          (\E v \in Worker : Owes(v, y, n)) <=>
            (\E v \in Worker : Owes(v, y, n)') \/ (y = y0 /\ n = n0)
    BY DEF Others
  <2> QED  BY <1>1, <1>2, <2>1 DEF Ledger
<1>5. \A v \in Worker, y \in Year, n \in Nat :
        Owes(v, y, n)' => ~OnPaper(y, n)' /\ n \notin lost'[y]
  BY <1>1, <1>2 DEF Ledger, Others
<1>6. \A x \in paper' : x.number \notin lost'[x.drawn]
  BY <1>2, <1>3 DEF Ledger, OnPaper
<1> QED  BY <1>4, <1>5, <1>6 DEF Ledger, Others

\* A request that ends, by conflict or by dying, while it is at a number.
LEMMA ForfeitLedger ==
  ASSUME TypeOK, Ledger, NEW w \in Worker, req[w].op = "number",
         Forfeit(w), Finish(w), UNCHANGED <<counter, paper>>
  PROVE Ledger'
<1>1. /\ Others(w)
      /\ \A y \in Year, n \in Nat : ~Owes(w, y, n)' /\ ~Draws(w, y)'
  BY Finished, OthersKept DEF Owes, Draws, Idle
<1>2. req[w].year \in Year /\ req[w].number \in Nat
  BY Fields, Numbers
<1>3. CASE req[w].open
  <2>1. lost' = lost /\ \A y \in Year, n \in Nat : ~Owes(w, y, n)
    BY <1>3 DEF Forfeit, Owes
  <2> QED  BY <1>1, <2>1, QuietLedger
<1>4. CASE ~req[w].open
  <2>1. /\ lost' = [lost EXCEPT ![req[w].year] = @ \cup {req[w].number}]
        /\ \A y \in Year, n \in Nat :
             Owes(w, y, n) <=> y = req[w].year /\ n = req[w].number
    BY <1>4 DEF Forfeit, Owes
  <2> QED  BY <1>1, <1>2, <2>1, LostLedger
<1> QED  BY <1>3, <1>4

\* What starts or ends away from the numbers.
LEMMA ElsewhereLedger ==
  ASSUME TypeOK, Ledger, NEW w \in Worker, UNCHANGED <<counter, paper, lost>>,
         \A v \in Worker \ {w} : req'[v] = req[v],
         req[w].op # "number", req'[w].op # "number"
  PROVE Ledger'
<1>1. /\ \A y \in Year, n \in Nat : ~Owes(w, y, n) /\ ~Owes(w, y, n)'
      /\ \A y \in Year : ~Draws(w, y)'
  BY DEF Owes, Draws
<1> QED  BY <1>1, OthersKept, QuietLedger

LEMMA LedgerStep ==
  ASSUME RegistryInv, [Next]_vars
  PROVE Ledger'
<1>0. TypeOK /\ Requests /\ Ledger /\ Idle.op = "idle" /\ clock \in Year
  BY DEF RegistryInv, TypeOK, Idle
<1>1. ASSUME NEW w \in Worker, NEW p \in Piece, RegisterYear(w, p)
      PROVE Ledger'
  <2>1. [op |-> "draw", kind |-> "piece", piece |-> p, year |-> clock]
          \in Request
    BY <1>0 DEF Request, Kind
  <2>2. req[w].op # "number" /\ req'[w].op # "number"
        /\ \A v \in Worker \ {w} : req'[v] = req[v]
    BY <1>0, <1>1, <2>1, Served DEF RegisterYear, IsIdle
  <2> QED  BY <1>0, <1>1, <2>2, ElsewhereLedger DEF RegisterYear
<1>2. ASSUME NEW w \in Worker, NEW k \in Kind, NEW p \in Piece \cup {None},
             NEW y0 \in Year, DrawOpen(w, k, p, y0), req[w].op # "number"
      PROVE Ledger'
  <2>1. [op |-> "number", kind |-> k, piece |-> p, year |-> y0,
         number |-> counter[y0] + 1, open |-> TRUE] \in Request
    BY <1>0, <1>2, DrawRequest DEF DrawOpen
  <2>2. /\ req'[w] = [op |-> "number", kind |-> k, piece |-> p, year |-> y0,
                      number |-> counter[y0] + 1, open |-> TRUE]
        /\ \A v \in Worker \ {w} : req'[v] = req[v]
    BY <1>0, <1>2, <2>1, Served DEF DrawOpen
  <2>3. /\ \A y \in Year, n \in Nat : ~Owes(w, y, n) /\ ~Owes(w, y, n)'
        /\ \A y \in Year :
             Draws(w, y)' => y = y0 /\ req'[w].number = counter[y0] + 1
    BY <1>2, <2>2 DEF Owes, Draws
  <2>4. \A v \in Worker : ~Draws(v, y0)
    BY <1>2 DEF DrawOpen, CounterIsFree, Drawing, Draws
  <2>5. UNCHANGED <<counter, paper, lost>>
    BY <1>2 DEF DrawOpen
  <2> QED  BY <1>0, <2>2, <2>3, <2>4, <2>5, OthersKept, QuietLedger
<1>3. ASSUME NEW w \in Worker, AddReportDraw(w)
      PROVE Ledger'
  <2>1. [op |-> "number", kind |-> "report", piece |-> None,
         year |-> clock, number |-> counter[clock] + 1, open |-> FALSE]
           \in Request
    BY <1>0, <1>3, DrawRequest DEF AddReportDraw, Kind
  <2>2. /\ req'[w] = [op |-> "number", kind |-> "report", piece |-> None,
                      year |-> clock, number |-> counter[clock] + 1,
                      open |-> FALSE]
        /\ \A v \in Worker \ {w} : req'[v] = req[v]
    BY <1>0, <1>3, <2>1, Served DEF AddReportDraw
  <2>3. req[w].op # "number"
    BY <1>0, <1>3 DEF AddReportDraw, IsIdle
  <2>4. /\ \A y \in Year, n \in Nat :
             /\ ~Owes(w, y, n)
             /\ Owes(w, y, n)' <=> y = clock /\ n = counter[clock] + 1
        /\ \A y \in Year : ~Draws(w, y)'
    BY <2>2, <2>3 DEF Owes, Draws
  <2>5. \A v \in Worker : ~Draws(v, clock)
    BY <1>3 DEF AddReportDraw, CounterIsFree, Drawing, Draws
  <2>6. /\ UNCHANGED <<paper, lost>>
        /\ counter' = [counter EXCEPT ![clock] = @ + 1]
    BY <1>3 DEF AddReportDraw
  <2> QED  BY <1>0, <2>2, <2>4, <2>5, <2>6, OthersKept, RaisedLedger
<1>4. ASSUME NEW w \in Worker, NumberCommit(w)
      PROVE Ledger'
  <2>1. /\ req[w].op = "number" /\ Finish(w) /\ UNCHANGED lost
        /\ paper' = paper \cup {Printed(w)}
        /\ counter' = IF req[w].open
                        THEN [counter EXCEPT ![req[w].year] = req[w].number]
                        ELSE counter
    BY <1>4 DEF NumberCommit
  <2>2. /\ Others(w)
        /\ \A y \in Year, n \in Nat : ~Owes(w, y, n)' /\ ~Draws(w, y)'
    BY <1>0, <2>1, Finished, OthersKept DEF Owes, Draws
  <2>3. /\ req[w].year \in Year /\ req[w].number \in Nat
        /\ Printed(w).drawn = req[w].year /\ Printed(w).number = req[w].number
    BY <1>0, <2>1, Fields, Numbers, PrintedPaper
  <2>4. CASE req[w].open
    <3>1. /\ Draws(w, req[w].year)
          /\ \A y \in Year, n \in Nat : ~Owes(w, y, n)
          /\ counter' = [counter EXCEPT ![req[w].year] = req[w].number]
      BY <2>1, <2>4 DEF Owes, Draws
    <3> QED  BY <1>0, <2>1, <2>2, <2>3, <3>1, PrintedLedger
  <2>5. CASE ~req[w].open
    <3>1. /\ \A y \in Year, n \in Nat :
               Owes(w, y, n) <=> y = req[w].year /\ n = req[w].number
          /\ counter' = counter
      BY <2>1, <2>5 DEF Owes
    <3> QED  BY <1>0, <2>1, <2>2, <2>3, <3>1, PrintedLedger
  <2> QED  BY <2>4, <2>5
<1>5. ASSUME NEW w \in Worker, NumberConflict(w)
      PROVE Ledger'
  BY <1>0, <1>5, ForfeitLedger DEF NumberConflict
<1>6. CASE NewYear \/ UNCHANGED vars
  <2>1. UNCHANGED <<counter, paper, lost, req>>
    BY <1>6 DEF NewYear, vars
  <2> QED  BY <1>0, <2>1 DEF Ledger, Owes, Draws, OnPaper
<1>7. ASSUME NEW w \in Worker, Abort(w)
      PROVE Ledger'
  <2>1. CASE req[w].op = "number"
    BY <1>0, <1>7, <2>1, ForfeitLedger DEF Abort
  <2>2. CASE req[w].op # "number"
    BY <1>0, <1>7, <2>2, Finished, ElsewhereLedger DEF Abort
  <2> QED  BY <2>1, <2>2
<1>8. ASSUME NEW w \in Worker, NEW r \in Request, r.op # "number",
             IsIdle(w), Serve(w, r), UNCHANGED <<counter, paper, lost>>
      PROVE Ledger'
  BY <1>0, <1>8, Served, ElsewhereLedger DEF IsIdle
<1>9. ASSUME NEW w \in Worker, req[w].op # "number", Finish(w),
             UNCHANGED <<counter, paper, lost>>
      PROVE Ledger'
  BY <1>0, <1>9, Finished, ElsewhereLedger
<1>10. CASE IdentityNext
  <2>1. ASSUME NEW w \in Worker, NEW p \in Piece,
               RegenerateLoad(w, p) \/ IssueLoad(w, p)
        PROVE Ledger'
    <3>1. /\ [op |-> "qr", piece |-> p, seen |-> ActiveCodes(p)] \in Request
          /\ [op |-> "issue", piece |-> p] \in Request
      BY DEF Request, ActiveCodes
    <3> QED  BY <1>8, <2>1, <3>1 DEF RegenerateLoad, IssueLoad
  <2>2. ASSUME NEW w \in Worker, NEW c \in Certificate, RevokeLoad(w, c)
        PROVE Ledger'
    <3>1. [op |-> "revoke", cert |-> c] \in Request
      BY DEF Request
    <3> QED  BY <1>8, <2>2, <3>1 DEF RevokeLoad
  <2>3. ASSUME NEW w \in Worker, RegenerateCommit(w) \/ RevokeWrite(w)
        PROVE Ledger'
    BY <1>9, <2>3 DEF RegenerateCommit, RevokeWrite
  <2>4. ASSUME NEW w \in Worker, NEW c \in Certificate, IssueCommit(w, c)
        PROVE Ledger'
    BY <1>9, <2>4 DEF IssueCommit
  <2> QED  BY <1>10, <2>1, <2>2, <2>3, <2>4 DEF IdentityNext
<1>11. CASE SerialNext
  <2>1. Kind = {"piece", "invoice", "report"}
    BY DEF Kind
  <2>2. ASSUME NEW w \in Worker, RegisterDraw(w)
        PROVE Ledger'
    <3>1. /\ req[w].op = "draw" /\ req[w].year \in Year
          /\ req[w].piece \in Piece \cup {None}
          /\ DrawOpen(w, "piece", req[w].piece, req[w].year)
      BY <1>0, <2>2, Fields DEF RegisterDraw
    <3> QED  BY <1>2, <2>1, <3>1
  <2>3. ASSUME NEW w \in Worker, SaleDraw(w) \/ ReportDraw(w)
        PROVE Ledger'
    BY <1>0, <1>2, <2>1, <2>3 DEF SaleDraw, ReportDraw, IsIdle
  <2> QED  BY <1>1, <1>3, <1>4, <1>5, <1>6, <1>11, <2>2, <2>3 DEF SerialNext
<1> QED  BY <1>6, <1>7, <1>10, <1>11 DEF Next

-----------------------------------------------------------------------------
(* Papers and codes *)

LEMMA PrintingStep ==
  ASSUME RegistryInv, [Next]_vars
  PROVE Printing'
<1>0. TypeOK /\ Printing
  BY DEF RegistryInv
<1>1. ASSUME NEW w \in Worker, NumberCommit(w)
      PROVE Printing'
  BY <1>0, <1>1, PrintedPaper DEF NumberCommit, Printing
<1>2. ASSUME paper' = paper
      PROVE Printing'
  BY <1>0, <1>2 DEF Printing
<1> QED
  BY <1>1, <1>2
     DEF Next, SerialNext, IdentityNext, vars, RegisterYear, RegisterDraw,
         SaleDraw, ReportDraw, DrawOpen, AddReportDraw, NumberConflict,
         NewYear, RegenerateLoad, RegenerateCommit, IssueLoad, IssueCommit,
         RevokeLoad, RevokeWrite, Abort

\* Registration brings a code, and a code gives way only to its successor.
LEMMA CodeStep ==
  ASSUME RegistryInv, [Next]_vars
  PROVE AlwaysACode'
<1>0. TypeOK /\ Requests /\ AlwaysACode
  BY DEF RegistryInv
<1>t. qr \in [QrCode -> QrRow \cup {Absent}]
  BY <1>0 DEF TypeOK
<1>1. ASSUME NEW w \in Worker, NumberCommit(w)
      PROVE AlwaysACode'
  <2>1. /\ req[w].op = "number" /\ paper' = paper \cup {Printed(w)}
        /\ Printed(w).piece = req[w].piece
        /\ req[w].kind = "piece" <=> req[w].piece # None
    BY <1>0, <1>1, PrintedPaper DEF NumberCommit, Requests, RequestSound
  <2>2. CASE req[w].kind = "piece"
    <3>1. PICK q \in QrCode :
            /\ qr[q] = Absent
            /\ qr' = [qr EXCEPT ![q] = [piece |-> req[w].piece,
                                        status |-> "ACTIVE"]]
      BY <1>1, <2>2 DEF NumberCommit
    <3>2. \A p \in Piece : p = req[w].piece => q \in ActiveCodes(p)'
      BY <1>t, <3>1 DEF ActiveCodes
    <3>3. \A p \in Piece : ActiveCodes(p) \subseteq ActiveCodes(p)'
      BY <1>t, <3>1 DEF ActiveCodes, Absent
    <3>4. \A p \in Piece : Registered(p)' => Registered(p) \/ p = req[w].piece
      BY <2>1 DEF Registered
    <3> QED  BY <1>0, <3>2, <3>3, <3>4 DEF AlwaysACode
  <2>3. CASE req[w].kind # "piece"
    <3>1. qr' = qr /\ Printed(w).piece = None
      BY <1>1, <2>1, <2>3 DEF NumberCommit
    <3>2. \A p \in Piece : Registered(p)' => Registered(p)
      BY <2>1, <3>1, OfficeAssumption DEF Registered
    <3> QED  BY <1>0, <3>1, <3>2 DEF AlwaysACode, ActiveCodes
  <2> QED  BY <2>2, <2>3
<1>2. ASSUME NEW w \in Worker, RegenerateCommit(w)
      PROVE AlwaysACode'
  <2>1. PICK n \in QrCode :
          /\ qr[n] = Absent
          /\ qr' = [Revoking(req[w].seen) EXCEPT ![n] =
                      [piece |-> req[w].piece, status |-> "ACTIVE"]]
    BY <1>2 DEF RegenerateCommit
  <2>2. \A p \in Piece : p = req[w].piece => n \in ActiveCodes(p)'
    BY <2>1 DEF ActiveCodes, Revoking
  <2>3. ASSUME NEW p \in Piece, p # req[w].piece
        PROVE ActiveCodes(p) \subseteq ActiveCodes(p)'
    <3>1. ASSUME NEW q \in QrCode, qr[q] = [piece |-> p, status |-> "ACTIVE"]
          PROVE qr'[q] = qr[q]
      <4>1. q # n
        BY <2>1, <3>1 DEF Absent
      <4>2. q \notin req[w].seen
        BY <1>0, <1>2, <2>3, <3>1
           DEF RegenerateCommit, Requests, RequestSound
      <4> QED  BY <2>1, <4>1, <4>2 DEF Revoking
    <3> QED  BY <3>1 DEF ActiveCodes
  <2>4. \A p \in Piece : Registered(p)' <=> Registered(p)
    BY <1>2 DEF RegenerateCommit, Registered
  <2> QED  BY <1>0, <2>2, <2>3, <2>4 DEF AlwaysACode
<1>3. ASSUME paper' = paper, qr' = qr
      PROVE AlwaysACode'
  BY <1>0, <1>3 DEF AlwaysACode, Registered, ActiveCodes
<1> QED
  BY <1>1, <1>2, <1>3
     DEF Next, SerialNext, IdentityNext, vars, RegisterYear, RegisterDraw,
         SaleDraw, ReportDraw, DrawOpen, AddReportDraw, NumberConflict,
         NewYear, RegenerateLoad, IssueLoad, IssueCommit,
         RevokeLoad, RevokeWrite, Abort

-----------------------------------------------------------------------------
(* Every active code has a worker to itself *)

\* Codes that stay as they are keep their owners, when no request turned up
\* that saw less.
LEMMA OwnersKept ==
  ASSUME NEW p \in Piece, NEW f \in Owners(p),
         ActiveCodes(p)' = ActiveCodes(p),
         \A w \in Worker :
           \/ req'[w] = req[w]
           \/ req'[w].op # "qr"
           \/ req'[w].piece = p => req'[w].seen = ActiveCodes(p)
  PROVE f \in Owners(p)'
<1>1. /\ f \in [ActiveCodes(p) -> Worker]
      /\ \A q, r \in ActiveCodes(p) : f[q] = f[r] => q = r
      /\ \A w \in Worker, q \in ActiveCodes(p) :
           req[w].op = "qr" /\ req[w].piece = p /\ f[q] = w
             => q \in req[w].seen
  BY DEF Owners
<1>2. \A w \in Worker, q \in ActiveCodes(p) :
        req'[w].op = "qr" /\ req'[w].piece = p /\ f[q] = w
          => q \in req'[w].seen
  BY <1>1
<1> QED  BY <1>1, <1>2 DEF Owners

\* A code that w commits for p is w's: those w had before, it has seen, and
\* revokes.
LEMMA OwnersReplaced ==
  ASSUME NEW p \in Piece, NEW w \in Worker, NEW n, n \notin ActiveCodes(p),
         NEW f \in Owners(p), NEW seen,
         \A q \in ActiveCodes(p) : f[q] = w => q \in seen,
         ActiveCodes(p)' = (ActiveCodes(p) \ seen) \cup {n},
         req'[w] = Idle,
         \A v \in Worker \ {w} : req'[v] = req[v]
  PROVE Owners(p)' # {}
<1> DEFINE C == (ActiveCodes(p) \ seen) \cup {n}
<1>1. /\ f \in [ActiveCodes(p) -> Worker]
      /\ \A q, r \in ActiveCodes(p) : f[q] = f[r] => q = r
      /\ \A v \in Worker, q \in ActiveCodes(p) :
           req[v].op = "qr" /\ req[v].piece = p /\ f[q] = v
             => q \in req[v].seen
  BY DEF Owners
<1>2. PICK g \in [C -> Worker] : g = [q \in C |-> IF q = n THEN w ELSE f[q]]
  BY <1>1
<1>3. g[n] = w /\ \A q \in C \ {n} : q \in ActiveCodes(p) /\ g[q] = f[q]
                                     /\ f[q] # w
  BY <1>2
<1>4. \A q, r \in C : g[q] = g[r] => q = r
  BY <1>1, <1>3
<1>5. ASSUME NEW v \in Worker, NEW q \in C,
             req'[v].op = "qr", req'[v].piece = p, g[q] = v
      PROVE q \in req'[v].seen
  <2>1. v # w
    BY <1>5 DEF Idle
  <2>2. q # n /\ req'[v] = req[v]
    BY <1>3, <1>5, <2>1
  <2> QED  BY <1>1, <1>3, <1>5, <2>2
<1>6. ActiveCodes(p)' = C
  OBVIOUS
<1> HIDE DEF C
<1>7. g \in Owners(p)'
  BY <1>4, <1>5, <1>6 DEF Owners
<1> QED  BY <1>7

LEMMA Revoked ==
  \A x \in QrRow : [x EXCEPT !.status = "REVOKED"].status = "REVOKED"
  BY DEF QrRow

\* Only the two commits change codes or papers (Serials, Identity).
LEMMA OwnersStep ==
  ASSUME RegistryInv, CodeOwners, [Next]_vars
  PROVE CodeOwners'
<1>0. TypeOK /\ Requests
  BY DEF RegistryInv
<1>t. /\ qr \in [QrCode -> QrRow \cup {Absent}]
      /\ req \in [Worker -> Request]
  BY <1>0 DEF TypeOK
<1>o. /\ \A p \in Piece : ActiveCodes(p) # {} => Registered(p)
      /\ \A w \in Worker : req[w].op = "qr" => Registered(req[w].piece)
      /\ \A p \in Piece : Owners(p) # {}
  BY DEF CodeOwners
<1>k. ASSUME qr' = qr, paper' = paper,
             \A w \in Worker :
               \/ req'[w] = req[w]
               \/ req'[w].op # "qr"
               \/ /\ req'[w].piece \in Piece /\ Registered(req'[w].piece)
                  /\ req'[w].seen = ActiveCodes(req'[w].piece)
      PROVE CodeOwners'
  <2>1. \A p : ActiveCodes(p)' = ActiveCodes(p)
               /\ (Registered(p)' <=> Registered(p))
    BY <1>k DEF ActiveCodes, Registered
  <2>2. \A p \in Piece : Owners(p)' # {}
    <3>1. ASSUME NEW p \in Piece
          PROVE Owners(p)' # {}
      <4>1. PICK f \in Owners(p) : TRUE
        BY <1>o
      <4>2. f \in Owners(p)'
        BY <1>k, <2>1, OwnersKept
      <4> QED  BY <4>2
    <3> QED  BY <3>1
  <2>3. \A p \in Piece : ActiveCodes(p)' # {} => Registered(p)'
    BY <1>o, <2>1
  <2>4. \A w \in Worker : req'[w].op = "qr" => Registered(req[w].piece)'
    <3>1. \A w \in Worker : req'[w].op = "qr" => Registered(req'[w].piece)
      BY <1>k, <1>o
    <3> QED  BY <1>k, <3>1 DEF Registered
  <2> QED  BY <2>2, <2>3, <2>4 DEF CodeOwners
<1>1. ASSUME NEW w \in Worker, NumberCommit(w)
      PROVE CodeOwners'
  <2>1. /\ req[w].op = "number" /\ paper' = paper \cup {Printed(w)}
        /\ Printed(w).piece = req[w].piece
        /\ req[w].kind = "piece" => req[w].piece \in Piece
        /\ ~Taken(Printed(w))
    BY <1>0, <1>1, PrintedPaper, Fields DEF NumberCommit, Requests, RequestSound
  <2>2. req'[w] = Idle /\ \A v \in Worker \ {w} : req'[v] = req[v]
    BY <1>0, <1>1, Finished DEF NumberCommit
  <2>3. \A p : Registered(p) => Registered(p)'
    BY <2>1 DEF Registered
  <2>4. \A v \in Worker : req'[v].op = "qr" => Registered(req[v].piece)'
    <3>1. ASSUME NEW v \in Worker, req'[v].op = "qr"
          PROVE Registered(req[v].piece)'
      <4>1. v # w
        BY <2>2, <3>1 DEF Idle
      <4>2. req'[v] = req[v]
        BY <2>2, <4>1
      <4>3. \E x \in paper : x.piece = req[v].piece
        BY <1>o, <3>1, <4>2 DEF Registered
      <4>4. \E x \in paper' : x.piece = req'[v].piece
        BY <2>1, <4>2, <4>3
      <4> QED  BY <4>4 DEF Registered
    <3> QED  BY <3>1
  <2>5. ASSUME NEW p \in Piece, ActiveCodes(p)' = ActiveCodes(p)
        PROVE /\ Owners(p)' # {}
              /\ ActiveCodes(p)' # {} => Registered(p)'
    <3>1. PICK f \in Owners(p) : TRUE
      BY <1>o
    <3>2. \A v \in Worker : req'[v] = req[v] \/ req'[v].op # "qr"
      BY <2>2 DEF Idle
    <3>3. f \in Owners(p)'
      BY <2>5, <3>2, OwnersKept
    <3> QED  BY <1>o, <2>3, <2>5, <3>3
  <2>6. CASE req[w].kind = "piece"
    <3>0. PICK r \in Piece : r = req[w].piece
      BY <2>1, <2>6
    <3>1. PICK n \in QrCode :
            /\ qr[n] = Absent
            /\ qr' = [qr EXCEPT ![n] = [piece |-> r, status |-> "ACTIVE"]]
      BY <1>1, <2>6, <3>0 DEF NumberCommit
    <3>2. Registered(r)'
      BY <2>1, <3>0 DEF Registered
    <3>3. ActiveCodes(r) = {}
      <4>1. r # None
        BY OfficeAssumption
      <4>2. ~Registered(r)
        BY <2>1, <3>0, <4>1 DEF Taken, Registered
      <4> QED  BY <1>o, <4>2
    <3>4. ActiveCodes(r)'
            = (ActiveCodes(r) \ {}) \cup {n}
      BY <1>t, <3>1, <3>3 DEF ActiveCodes, Absent
    <3>5. PICK f \in Owners(r) : TRUE
      BY <1>o
    <3>6. Owners(r)' # {}
      BY <2>2, <3>3, <3>4, <3>5, OwnersReplaced
    <3>7. \A p \in Piece :
            p # r => ActiveCodes(p)' = ActiveCodes(p)
      BY <1>t, <3>1 DEF ActiveCodes, Absent
    <3> QED  BY <2>4, <2>5, <3>2, <3>6, <3>7 DEF CodeOwners
  <2>7. CASE req[w].kind # "piece"
    <3>1. qr' = qr
      BY <1>1, <2>7 DEF NumberCommit
    <3>2. \A p \in Piece : ActiveCodes(p)' = ActiveCodes(p)
      BY <3>1 DEF ActiveCodes
    <3> QED  BY <2>4, <2>5, <3>2 DEF CodeOwners
  <2> QED  BY <2>6, <2>7
<1>2. ASSUME NEW w \in Worker, RegenerateCommit(w)
      PROVE CodeOwners'
  <2>0. PICK r \in Piece, seen \in SUBSET QrCode :
          r = req[w].piece /\ seen = req[w].seen
    BY <1>0, <1>2, Fields DEF RegenerateCommit
  <2>1. PICK n \in QrCode :
          /\ qr[n] = Absent
          /\ qr' = [Revoking(seen) EXCEPT ![n] =
                      [piece |-> r, status |-> "ACTIVE"]]
    BY <1>2, <2>0 DEF RegenerateCommit
  <2>2. /\ req[w].op = "qr" /\ paper' = paper
        /\ \A q \in seen :
             qr[q] \in QrRow /\ qr[q].piece = r
        /\ Registered(r)
    BY <1>0, <1>t, <1>2, <1>o, <2>0
       DEF RegenerateCommit, Requests, RequestSound
  <2>3. req'[w] = Idle /\ \A v \in Worker \ {w} : req'[v] = req[v]
    BY <1>0, <1>2, Finished DEF RegenerateCommit
  <2>4. \A p : Registered(p) <=> Registered(p)'
    BY <2>2 DEF Registered
  <2>5. \A v \in Worker : req'[v].op = "qr" => Registered(req[v].piece)'
    <3>1. \A v \in Worker : req'[v].op = "qr" => Registered(req'[v].piece)
      BY <1>o, <2>3 DEF Idle
    <3> QED  BY <2>2, <3>1 DEF Registered
  <2>6. ActiveCodes(r)'
          = (ActiveCodes(r) \ seen) \cup {n}
    <3>1. qr'[n] = [piece |-> r, status |-> "ACTIVE"]
      BY <1>t, <2>1 DEF Revoking
    <3>2. \A q \in QrCode : q # n /\ q \in seen
            => qr'[q].status = "REVOKED"
      BY <1>t, <2>1, <2>2, Revoked DEF Revoking
    <3>3. \A q \in QrCode : q # n /\ q \notin seen => qr'[q] = qr[q]
      BY <1>t, <2>1 DEF Revoking
    <3>4. n \notin ActiveCodes(r)
      BY <2>1 DEF ActiveCodes, Absent
    <3> QED  BY <3>1, <3>2, <3>3, <3>4 DEF ActiveCodes
  <2>7. Owners(r)' # {}
    <3>1. PICK f \in Owners(r) : TRUE
      BY <1>o
    <3>2. \A q \in ActiveCodes(r) : f[q] = w => q \in seen
      BY <2>0, <2>2, <3>1 DEF Owners
    <3>3. n \notin ActiveCodes(r)
      BY <2>1 DEF ActiveCodes, Absent
    <3> QED  BY <2>2, <2>3, <2>6, <3>2, <3>3, OwnersReplaced
  <2>8. ASSUME NEW p \in Piece, p # r
        PROVE /\ Owners(p)' # {}
              /\ ActiveCodes(p)' # {} => Registered(p)'
    <3>1. ActiveCodes(p)' = ActiveCodes(p)
      <4>1. ASSUME NEW q \in QrCode, q # n, q \notin seen
            PROVE qr'[q] = qr[q]
        BY <1>t, <2>1, <4>1 DEF Revoking
      <4>2. ASSUME NEW q \in QrCode, q = n \/ q \in seen
            PROVE q \notin ActiveCodes(p) /\ q \notin ActiveCodes(p)'
        <5>1. CASE q = n
          BY <1>t, <2>1, <2>8, <5>1 DEF ActiveCodes, Absent, Revoking
        <5>2. CASE q # n
          BY <1>t, <2>1, <2>2, <2>8, <4>2, <5>2, Revoked
             DEF ActiveCodes, Revoking
        <5> QED  BY <5>1, <5>2
      <4> QED  BY <4>1, <4>2 DEF ActiveCodes
    <3>2. PICK f \in Owners(p) : TRUE
      BY <1>o
    <3>3. \A v \in Worker : req'[v] = req[v] \/ req'[v].op # "qr"
      BY <2>3 DEF Idle
    <3>4. f \in Owners(p)'
      BY <3>1, <3>3, OwnersKept
    <3> QED  BY <1>o, <2>4, <3>1, <3>4
  <2> QED  BY <2>2, <2>4, <2>5, <2>7, <2>8 DEF CodeOwners
<1>3. ASSUME NEW w \in Worker, NEW p \in Piece, RegenerateLoad(w, p)
      PROVE CodeOwners'
  <2>1. [op |-> "qr", piece |-> p, seen |-> ActiveCodes(p)] \in Request
    BY DEF Request, ActiveCodes
  <2>2. /\ req'[w] = [op |-> "qr", piece |-> p, seen |-> ActiveCodes(p)]
        /\ \A v \in Worker \ {w} : req'[v] = req[v]
    BY <1>0, <1>3, <2>1, Served DEF RegenerateLoad
  <2> QED  BY <1>3, <1>k, <2>2 DEF RegenerateLoad
<1>4. ASSUME NEW w \in Worker, NEW r \in Request, Serve(w, r), r.op # "qr",
             qr' = qr, paper' = paper
      PROVE CodeOwners'
  <2>1. req'[w] = r /\ \A v \in Worker \ {w} : req'[v] = req[v]
    BY <1>0, <1>4, Served
  <2> QED  BY <1>4, <1>k, <2>1
<1>5. CASE NewYear \/ UNCHANGED vars
  BY <1>5, <1>k DEF NewYear, vars
<1>6. ASSUME NEW w \in Worker, Finish(w), qr' = qr, paper' = paper
      PROVE CodeOwners'
  <2>1. Idle \in Request /\ Idle.op # "qr"
    BY DEF Request, Idle
  <2> QED  BY <1>4, <1>6, <2>1 DEF Finish
<1>7. ASSUME NEW w \in Worker, NEW k \in Kind, NEW p \in Piece \cup {None},
             NEW y \in Year, DrawOpen(w, k, p, y)
      PROVE CodeOwners'
  <2>1. [op |-> "number", kind |-> k, piece |-> p, year |-> y,
         number |-> counter[y] + 1, open |-> TRUE] \in Request
    BY <1>0, <1>7, DrawRequest DEF DrawOpen
  <2> QED  BY <1>4, <1>7, <2>1 DEF DrawOpen
<1> QED
  <2>1. CASE SerialNext
    <3>1. ASSUME NEW w \in Worker, NEW p \in Piece, RegisterYear(w, p)
          PROVE CodeOwners'
      <4>1. [op |-> "draw", kind |-> "piece", piece |-> p, year |-> clock]
              \in Request
        BY <1>0 DEF Request, Kind, TypeOK
      <4> QED  BY <1>4, <3>1, <4>1 DEF RegisterYear
    <3>2. ASSUME NEW w \in Worker, RegisterDraw(w) \/ SaleDraw(w) \/ ReportDraw(w)
          PROVE CodeOwners'
      <4>1. Kind = {"piece", "invoice", "report"}
        BY DEF Kind
      <4>2. clock \in Year
        BY <1>0 DEF TypeOK
      <4> QED  BY <1>0, <1>7, <3>2, <4>1, <4>2, Fields
               DEF RegisterDraw, SaleDraw, ReportDraw
    <3>3. ASSUME NEW w \in Worker, AddReportDraw(w)
          PROVE CodeOwners'
      <4>1. "report" \in Kind /\ None \in Piece \cup {None} /\ clock \in Year
        BY <1>0 DEF Kind, TypeOK
      <4>2. [op |-> "number", kind |-> "report", piece |-> None,
             year |-> clock, number |-> counter[clock] + 1, open |-> FALSE]
              \in Request
        BY <1>0, <3>3, <4>1, DrawRequest DEF AddReportDraw
      <4> QED  BY <1>4, <3>3, <4>2 DEF AddReportDraw
    <3>4. ASSUME NEW w \in Worker, NumberConflict(w)
          PROVE CodeOwners'
      BY <1>6, <3>4 DEF NumberConflict
    <3> QED  BY <1>1, <1>5, <2>1, <3>1, <3>2, <3>3, <3>4 DEF SerialNext
  <2>2. CASE IdentityNext
    <3>1. ASSUME NEW w \in Worker, NEW p \in Piece, IssueLoad(w, p)
          PROVE CodeOwners'
      <4>1. [op |-> "issue", piece |-> p] \in Request
        BY DEF Request
      <4> QED  BY <1>4, <3>1, <4>1 DEF IssueLoad
    <3>2. ASSUME NEW w \in Worker, NEW c \in Certificate, RevokeLoad(w, c)
          PROVE CodeOwners'
      <4>1. [op |-> "revoke", cert |-> c] \in Request
        BY DEF Request
      <4> QED  BY <1>4, <3>2, <4>1 DEF RevokeLoad
    <3>3. ASSUME NEW w \in Worker, NEW c \in Certificate,
                 IssueCommit(w, c)
          PROVE CodeOwners'
      BY <1>6, <3>3 DEF IssueCommit
    <3>4. ASSUME NEW w \in Worker, RevokeWrite(w)
          PROVE CodeOwners'
      BY <1>6, <3>4 DEF RevokeWrite
    <3> QED  BY <1>2, <1>3, <2>2, <3>1, <3>2, <3>3, <3>4 DEF IdentityNext
  <2>3. ASSUME NEW w \in Worker, Abort(w)
        PROVE CodeOwners'
    BY <1>6, <2>3 DEF Abort
  <2> QED  BY <1>5, <2>1, <2>2, <2>3 DEF Next

-----------------------------------------------------------------------------
(* Theorems *)

LEMMA RegistryInit ==
  ASSUME Init
  PROVE RegistryInv
<1> USE DEF Init, OfficeInit
<1>1. TypeOK
  <2>1. Idle \in Request
    BY DEF Request
  <2> QED  BY <2>1, OfficeAssumption, Numbers DEF TypeOK
<1>2. Requests
  BY DEF Requests, RequestSound, Idle
<1>3. Ledger
  BY DEF Ledger, Owes, Draws, OnPaper, Idle
<1>4. Printing /\ AlwaysACode
  BY DEF Printing, AlwaysACode, Registered
<1> QED  BY <1>1, <1>2, <1>3, <1>4 DEF RegistryInv

\* The inductive invariant: types, what requests have read, the ledger, and the
\* codes (every handler of Serials and Identity).
THEOREM RegistryInvariant == Spec => []RegistryInv
<1>1. RegistryInv /\ [Next]_vars => RegistryInv'
  BY TypeStep, RequestsStep, LedgerStep, PrintingStep, CodeStep
     DEF RegistryInv
<1> QED  BY <1>1, RegistryInit, PTL DEF Spec

\* Rows and requests are of their types (TypeOK of Office).
THEOREM OfficeTypeCorrect == Spec => []TypeOK
<1>1. RegistryInv => TypeOK
  BY DEF RegistryInv
<1> QED  BY <1>1, RegistryInvariant, PTL

\* The ledger is what CounterAccounts says of sets of numbers.
LEMMA LedgerAccounts ==
  ASSUME RegistryInv
  PROVE CounterAccounts
<1>0. TypeOK /\ Ledger
  BY DEF RegistryInv
<1> SUFFICES ASSUME NEW y \in Year
             PROVE /\ {x.number : x \in DrawnFrom(y)} \cup lost[y] \cup Owed(y)
                        = 1..counter[y]
                   /\ \A x, z \in DrawnFrom(y) : x.number = z.number => x = z
                   /\ \A x \in DrawnFrom(y) : x.number \notin lost[y] \cup Owed(y)
  BY DEF CounterAccounts
<1>1. \A x \in paper : x.drawn \in Year /\ x.number \in Nat
  BY <1>0, Numbers DEF TypeOK, Paper
<1>2. \A n : n \in Owed(y) <=> n \in Nat /\ \E w \in Worker : Owes(w, y, n)
  <2>1. \A w \in Worker : req[w].op = "number" => req[w].number \in Nat
    BY <1>0, Fields, Numbers
  <2> QED  BY <2>1 DEF Owed, Owes
<1>3. \A n : n \in {x.number : x \in DrawnFrom(y)} <=> n \in Nat /\ OnPaper(y, n)
  BY <1>1 DEF DrawnFrom, OnPaper
<1>4. lost[y] \subseteq Nat
  BY <1>0, Numbers DEF TypeOK
<1>5. \A n : n \in 1..counter[y] => n \in Nat
  BY <1>0, Numbers DEF TypeOK
<1>6. {x.number : x \in DrawnFrom(y)} \cup lost[y] \cup Owed(y) = 1..counter[y]
  BY <1>0, <1>2, <1>3, <1>4, <1>5 DEF Ledger
<1>7. \A x, z \in DrawnFrom(y) : x.number = z.number => x = z
  BY <1>0 DEF Ledger, DrawnFrom
<1>8. \A x \in DrawnFrom(y) : x.number \notin lost[y] \cup Owed(y)
  BY <1>0, <1>1, <1>2 DEF Ledger, DrawnFrom, OnPaper
<1> QED  BY <1>6, <1>7, <1>8

\* A number up to the counter of its year is on one paper, lost, or owed
\* (serial_counters and its four users).
THEOREM NumbersAreAccountedFor == Spec => []CounterAccounts
BY RegistryInvariant, LedgerAccounts, PTL

\* Serial and invoice numbers do not repeat within a year
\* (pieces.service.ts, sales.service.ts).
THEOREM SerialsNeverRepeat == Spec => []SerialsApart
<1>1. RegistryInv => SerialsApart
  BY DEF RegistryInv, Ledger, Printing, SerialsApart
<1> QED  BY <1>1, RegistryInvariant, PTL

\* A registered piece always has a code that can be scanned (regenerateQr).
THEOREM PieceKeepsACode == Spec => []AlwaysACode
<1>1. RegistryInv => AlwaysACode
  BY DEF RegistryInv
<1> QED  BY <1>1, RegistryInvariant, PTL

\* The worker of an active code, which nobody shares, makes CodesBounded
\* inductive (regenerateQr: what it revokes is what it saw).
THEOREM CodesHaveOwners == Spec => []CodeOwners
<1>1. ASSUME Init
      PROVE CodeOwners
  <2>1. \A p \in Piece : ActiveCodes(p) = {}
    BY <1>1 DEF Init, OfficeInit, ActiveCodes, Absent
  <2>2. \A w \in Worker : req[w].op # "qr"
    BY <1>1 DEF Init, OfficeInit, Idle
  <2>3. ASSUME NEW p \in Piece
        PROVE Owners(p) # {}
    <3>1. PICK f \in [ActiveCodes(p) -> Worker] : TRUE
      <4>1. [q \in {} |-> q] \in [{} -> Worker]
        OBVIOUS
      <4> QED  BY <2>1, <4>1
    <3>2. f \in Owners(p)
      BY <2>1 DEF Owners
    <3> QED  BY <3>2
  <2> QED  BY <2>1, <2>2, <2>3 DEF CodeOwners
<1>2. RegistryInv /\ CodeOwners /\ [Next]_vars => CodeOwners'
  BY OwnersStep
<1> QED  BY <1>1, <1>2, RegistryInvariant, PTL DEF Spec

\* A piece has no more active codes than requests are served at once, however
\* many regenerations overlap or die (regenerateQr, DATABASE.md:29).
THEOREM OverlapBoundsCodes == Spec => []CodesBounded
<1>1. ASSUME CodeOwners, NEW p \in Piece
      PROVE Cardinality(ActiveCodes(p)) <= Cardinality(Worker)
  <2>1. PICK f \in Owners(p) : TRUE
    BY <1>1 DEF CodeOwners
  <2>2. f \in Injection(ActiveCodes(p), Worker)
    BY DEF Owners, Injection, IsInjective
  <2> QED  BY <2>2, OfficeAssumption, FS_Injection
<1>2. CodeOwners => CodesBounded
  BY <1>1 DEF CodesBounded
<1> QED  BY <1>2, CodesHaveOwners, PTL
=============================================================================
