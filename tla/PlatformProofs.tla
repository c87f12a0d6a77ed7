--------------------------- MODULE PlatformProofs ---------------------------
(***************************************************************************)
(* Proofs about Platform, for every set of pieces, users, staff, workers    *)
(* and row identifiers.                                                     *)
(***************************************************************************)
EXTENDS Platform, TLAPS

-----------------------------------------------------------------------------
(* Shapes: what the data is made of, stated once so that the steps below    *)
(* need not expand the unions of record sets.                               *)

\* A request carries the fields its op announces.
LEMMA RequestFields ==
  ASSUME NEW r \in Request
  PROVE /\ r.op = "setStatus" => r.piece \in Piece /\ r.target \in PieceStatus
        /\ r.op = "sale" => r.piece \in Piece /\ r.buyer \in User
        /\ r.op \in {"redeem", "redeeming"} =>
             /\ r.piece \in Piece /\ r.actor \in User
             /\ [r EXCEPT !.op = "redeeming"] =
                  [op |-> "redeeming", piece |-> r.piece, actor |-> r.actor]
        /\ r.op = "request" =>
             r.piece \in Piece /\ r.from \in User /\ r.to \in User
        /\ r.op = "accepting" =>
             r.transfer \in TransferId /\ r.closes \in SUBSET Nat
        /\ r.op = "report" => r.piece \in Piece /\ r.type \in IncidentType
        /\ r.op \in {"addReport", "review"} => r.incident \in IncidentId
        /\ r.op = "close" =>
             r.incident \in IncidentId /\ r.outcome \in {"RECOVERED", "RESOLVED"}
        /\ r.op = "complete" => r.service \in ServiceId /\ r.free \in BOOLEAN
  BY DEF Request, Idle

\* What the handlers put into a slot is a request.
LEMMA RequestForms ==
  /\ Idle \in Request
  /\ \A p \in Piece :
       /\ \A s \in PieceStatus :
            [op |-> "setStatus", piece |-> p, target |-> s] \in Request
       /\ \A u \in User :
            /\ [op |-> "sale", piece |-> p, buyer |-> u] \in Request
            /\ [op |-> "redeem", piece |-> p, actor |-> u] \in Request
            /\ [op |-> "redeeming", piece |-> p, actor |-> u] \in Request
            /\ \A v \in User :
                 [op |-> "request", piece |-> p, from |-> u, to |-> v] \in Request
       /\ \A y \in IncidentType :
            [op |-> "report", piece |-> p, type |-> y] \in Request
  /\ \A t \in TransferId, c \in SUBSET Nat :
       [op |-> "accepting", transfer |-> t, closes |-> c] \in Request
  /\ \A i \in IncidentId :
       /\ [op |-> "addReport", incident |-> i] \in Request
       /\ [op |-> "review", incident |-> i] \in Request
       /\ \A o \in {"RECOVERED", "RESOLVED"} :
            [op |-> "close", incident |-> i, outcome |-> o] \in Request
  /\ \A s \in ServiceId, b \in BOOLEAN :
       [op |-> "complete", service |-> s, free |-> b] \in Request
  BY DEF Request

\* Closing rows changes neither the type nor the length of a history, nor
\* whose row it is or where it came from.
LEMMA ClosedRows ==
  ASSUME NEW h \in Seq(OwnershipRow), NEW c
  PROVE /\ Closed(h, c) \in Seq(OwnershipRow)
        /\ Len(Closed(h, c)) = Len(h)
        /\ \A k \in 1..Len(h) :
             /\ Closed(h, c)[k].owner = h[k].owner
             /\ Closed(h, c)[k].transfer = h[k].transfer
             /\ Closed(h, c)[k].open = (h[k].open /\ k \notin c)
<1>1. \A k \in 1..Len(h) : h[k] \in OwnershipRow
  OBVIOUS
<1>2. Len(h) \in Nat
  OBVIOUS
<1>3. \A k \in 1..Len(h) : Closed(h, c)[k] \in OwnershipRow
  BY <1>1 DEF Closed, OwnershipRow
<1>4. Closed(h, c) \in [1..Len(h) -> OwnershipRow]
  BY <1>3 DEF Closed
<1>5. Closed(h, c) \in Seq(OwnershipRow) /\ Len(Closed(h, c)) = Len(h)
  BY <1>2, <1>4
<1>6. ASSUME NEW k \in 1..Len(h)
      PROVE /\ Closed(h, c)[k].owner = h[k].owner
            /\ Closed(h, c)[k].transfer = h[k].transfer
            /\ Closed(h, c)[k].open = (h[k].open /\ k \notin c)
  BY <1>1 DEF Closed, OwnershipRow
<1>. QED  BY <1>5, <1>6

\* Serving a request changes the worker's own slot and no other.
LEMMA SlotServed ==
  ASSUME TypeOK, NEW w \in Worker, NEW r \in Request, Serve(w, r)
  PROVE /\ req' \in [Worker -> Request]
        /\ req'[w] = r
        /\ \A v \in Worker : v # w => req'[v] = req[v]
  BY DEF TypeOK, Serve

-----------------------------------------------------------------------------
(* Type correctness, one lemma per service. *)

LEMMA PieceType ==
  ASSUME TitleInv, PieceNext
  PROVE TypeOK'
<1>. USE DEF TitleInv
<1>1. ASSUME NEW p \in Piece, Register(p)
      PROVE TypeOK'
  BY <1>1 DEF Register, TypeOK, PieceStatus
<1>2. ASSUME NEW w \in Worker, NEW p \in Piece, NEW s \in PieceStatus,
             UpdateStatusLoad(w, p, s)
      PROVE TypeOK'
  BY <1>2, SlotServed, RequestForms DEF UpdateStatusLoad, TypeOK
<1>3. ASSUME NEW w \in Worker, NEW p \in Piece, RetireLoad(w, p)
      PROVE TypeOK'
  BY <1>3, SlotServed, RequestForms DEF RetireLoad, TypeOK, PieceStatus
<1>4. ASSUME NEW w \in Worker, SetStatus(w)
      PROVE TypeOK'
  <2>1. req[w].piece \in Piece /\ req[w].target \in PieceStatus
    BY <1>4, RequestFields DEF SetStatus, TypeOK
  <2>. QED
    BY <1>4, <2>1, SlotServed, RequestForms DEF SetStatus, TypeOK, Finish
<1>. QED  BY <1>1, <1>2, <1>3, <1>4 DEF PieceNext

LEMMA SaleType ==
  ASSUME TitleInv, SaleNext
  PROVE TypeOK'
<1>. USE DEF TitleInv
<1>1. ASSUME NEW w \in Worker, NEW p \in Piece, NEW u \in User,
             SaleCheck(w, p, u)
      PROVE TypeOK'
  BY <1>1, SlotServed, RequestForms DEF SaleCheck, TypeOK
<1>2. ASSUME NEW w \in Worker, SaleCommit(w)
      PROVE TypeOK'
  <2>1. req[w].piece \in Piece /\ req[w].buyer \in User
    BY <1>2, RequestFields DEF SaleCommit, TypeOK
  <2>2. req' \in [Worker -> Request]
    BY <1>2, SlotServed, RequestForms DEF SaleCommit, Finish
  <2>3. status' \in [Piece -> PieceStatus \cup {"UNREGISTERED"}]
    BY <1>2, <2>1 DEF SaleCommit, TypeOK, PieceStatus
  <2>4. sale' \in [Piece -> User \cup {None}]
    BY <1>2, <2>1 DEF SaleCommit, TypeOK
  <2>5. claim' \in [Piece -> Claim]
    BY <1>2, <2>1 DEF SaleCommit, TypeOK, Claim
  <2>. QED
    BY <1>2, <2>2, <2>3, <2>4, <2>5 DEF SaleCommit, TypeOK
<1>3. ASSUME NEW w \in Worker, SaleConflict(w)
      PROVE TypeOK'
  BY <1>3, SlotServed, RequestForms DEF SaleConflict, TypeOK, Finish
<1>. QED  BY <1>1, <1>2, <1>3 DEF SaleNext

LEMMA ClaimType ==
  ASSUME TitleInv, ClaimNext
  PROVE TypeOK'
<1>. USE DEF TitleInv
<1>1. ASSUME NEW w \in Worker, NEW p \in Piece, RedeemCheck(w, p)
      PROVE TypeOK'
  <2>1. sale[p] \in User
    BY <1>1 DEF RedeemCheck, Redeemable, ClaimSpentIffOwned, TypeOK
  <2>. QED
    BY <1>1, <2>1, SlotServed, RequestForms DEF RedeemCheck, TypeOK
<1>2. ASSUME NEW w \in Worker, RedeemExec(w)
      PROVE TypeOK'
  <2>1. /\ [req[w] EXCEPT !.op = "redeeming"] =
             [op |-> "redeeming", piece |-> req[w].piece, actor |-> req[w].actor]
        /\ req[w].piece \in Piece /\ req[w].actor \in User
    BY <1>2, RequestFields DEF RedeemExec, TypeOK
  <2>2. req' \in [Worker -> Request]
    BY <1>2, <2>1, SlotServed, RequestForms DEF RedeemExec
  <2>. QED
    BY <1>2, <2>2 DEF RedeemExec, TypeOK
<1>3. ASSUME NEW w \in Worker, RedeemRefused(w)
      PROVE TypeOK'
  BY <1>3, SlotServed, RequestForms DEF RedeemRefused, TypeOK, Finish
<1>4. ASSUME NEW w \in Worker, RedeemCommit(w)
      PROVE TypeOK'
  <2>1. req[w].piece \in Piece /\ req[w].actor \in User
    BY <1>4, RequestFields DEF RedeemCommit, TypeOK
  <2>2. claim' \in [Piece -> Claim]
    BY <1>4, <2>1 DEF RedeemCommit, TypeOK, Claim
  <2>3. [owner |-> req[w].actor, transfer |-> None, open |-> TRUE]
          \in OwnershipRow
    BY <2>1 DEF OwnershipRow
  <2>4. rows' \in [Piece -> Seq(OwnershipRow)]
    BY <1>4, <2>1, <2>3 DEF RedeemCommit, TypeOK
  <2>5. req' \in [Worker -> Request]
    BY <1>4, SlotServed, RequestForms DEF RedeemCommit, Finish
  <2>. QED
    BY <1>4, <2>2, <2>4, <2>5 DEF RedeemCommit, TypeOK
<1>5. ASSUME NEW p \in Piece, ClaimLapses(p)
      PROVE TypeOK'
  BY <1>5 DEF ClaimLapses, TypeOK, Claim
<1>. QED  BY <1>1, <1>2, <1>3, <1>4, <1>5 DEF ClaimNext

LEMMA TransferType ==
  ASSUME TitleInv, TransferNext
  PROVE TypeOK'
<1>. USE DEF TitleInv
<1>1. ASSUME NEW w \in Worker, NEW p \in Piece, NEW from \in User,
             NEW to \in User, RequestCheck(w, p, from, to)
      PROVE TypeOK'
  BY <1>1, SlotServed, RequestForms DEF RequestCheck, TypeOK
<1>2. ASSUME NEW w \in Worker, NEW t \in TransferId, RequestCreate(w, t)
      PROVE TypeOK'
  <2>1. req[w].piece \in Piece /\ req[w].from \in User /\ req[w].to \in User
    BY <1>2, RequestFields DEF RequestCreate, TypeOK
  <2>2. transfer' \in [TransferId -> TransferRow \cup {Absent}]
    BY <1>2, <2>1 DEF RequestCreate, TypeOK, TransferRow
  <2>. QED
    BY <1>2, <2>2, SlotServed, RequestForms DEF RequestCreate, TypeOK, Finish
<1>3. ASSUME NEW w \in Worker, RequestConflict(w)
      PROVE TypeOK'
  BY <1>3, SlotServed, RequestForms DEF RequestConflict, TypeOK, Finish
<1>4. ASSUME NEW w \in Worker, NEW t \in TransferId, AcceptExec(w, t)
      PROVE TypeOK'
  <2>1. transfer[t].piece \in Piece
    BY <1>4 DEF AcceptExec, Answerable, TypeOK, TransferRow, Absent
  <2>2. OpenRows(transfer[t].piece) \in SUBSET Nat
    BY <2>1 DEF OpenRows, TypeOK
  <2>. QED
    BY <1>4, <2>2, SlotServed, RequestForms DEF AcceptExec, TypeOK
<1>5. ASSUME NEW w \in Worker, AcceptCommit(w)
      PROVE TypeOK'
  <2>. DEFINE t == req[w].transfer
              p == transfer[t].piece
  <2>1. t \in TransferId
    BY <1>5, RequestFields DEF AcceptCommit, TypeOK
  <2>2. transfer[t] \in TransferRow
    <3>1. transfer[t].status = "PENDING"
      BY <1>5 DEF AcceptCommit, InFlight, Sound
    <3>. QED  BY <2>1, <3>1 DEF TypeOK, Absent
  <2>3. p \in Piece /\ transfer[t].to \in User
    BY <2>2 DEF TransferRow
  <2>4. transfer' \in [TransferId -> TransferRow \cup {Absent}]
    BY <1>5, <2>1, <2>2 DEF AcceptCommit, TypeOK, TransferRow
  <2>. DEFINE g == Closed(rows[p], req[w].closes)
              last == [owner |-> transfer[t].to, transfer |-> t, open |-> TRUE]
  <2>5. g \in Seq(OwnershipRow) /\ last \in OwnershipRow
    BY <2>1, <2>3, ClosedRows DEF TypeOK, OwnershipRow
  <2>6. rows' \in [Piece -> Seq(OwnershipRow)]
    <3>1. rows' = [rows EXCEPT ![p] = Append(g, last)]
      BY <1>5 DEF AcceptCommit
    <3>2. Append(g, last) \in Seq(OwnershipRow)
      <4>. HIDE DEF g, last
      <4>. QED  BY <2>5
    <3>. QED  BY <3>1, <3>2 DEF TypeOK
  <2>7. req' \in [Worker -> Request]
    BY <1>5, SlotServed, RequestForms DEF AcceptCommit, Finish
  <2>. QED
    BY <1>5, <2>4, <2>6, <2>7 DEF AcceptCommit, TypeOK
<1>6. ASSUME NEW t \in TransferId, Reject(t) \/ Cancel(t) \/ Expire(t)
                                   \/ TransferLapses(t)
      PROVE TypeOK'
  <2>1. transfer[t] \in TransferRow
    BY <1>6 DEF Reject, Cancel, Settle, Expire, TransferLapses, Answerable,
                Lapsed, TypeOK, Absent
  <2>2. \/ \E s \in {"REJECTED", "CANCELLED", "EXPIRED"} :
               transfer' = [transfer EXCEPT ![t].status = s]
        \/ transfer' = [transfer EXCEPT ![t].overdue = TRUE]
    BY <1>6 DEF Reject, Cancel, Settle, Expire, TransferLapses
  <2>3. /\ \A s \in {"REJECTED", "CANCELLED", "EXPIRED"} :
             [transfer[t] EXCEPT !.status = s] \in TransferRow
        /\ [transfer[t] EXCEPT !.overdue = TRUE] \in TransferRow
    BY <2>1 DEF TransferRow
  <2>4. transfer' \in [TransferId -> TransferRow \cup {Absent}]
    BY <2>2, <2>3 DEF TypeOK
  <2>. QED
    BY <1>6, <2>4 DEF Reject, Cancel, Settle, Expire, TransferLapses, TypeOK
<1>. QED  BY <1>1, <1>2, <1>3, <1>4, <1>5, <1>6 DEF TransferNext
\* The writes to an incident that exists leave a well-formed row.
LEMMA IncidentRewritten ==
  ASSUME TitleInv, NEW w \in Worker,
         AddReportCreate(w) \/ ReviewWrite(w) \/ CloseWrite(w)
  PROVE \E i \in IncidentId, x \in IncidentRow :
          /\ i = req[w].incident /\ incident[i] \in IncidentRow
          /\ incident' = [incident EXCEPT ![i] = x]
<1>. DEFINE i == req[w].incident
            added == [incident[i] EXCEPT !.reports = @ \cup {"SUBMITTED"}]
            reviewed == [incident[i] EXCEPT !.status = "UNDER_REVIEW",
                                            !.reports = {"VERIFIED"}]
            closed == [incident[i] EXCEPT !.status = req[w].outcome]
<1>1. /\ i \in IncidentId
      /\ CloseWrite(w) => req[w].outcome \in {"RECOVERED", "RESOLVED"}
  BY RequestFields
  DEF AddReportCreate, ReviewWrite, CloseWrite, TitleInv, TypeOK
<1>2. incident[i] \in IncidentRow
  BY <1>1
  DEF AddReportCreate, ReviewWrite, CloseWrite, TitleInv, TypeOK, InFlight, Sound
<1>3. CASE AddReportCreate(w)
  <2>1. added \in IncidentRow
    BY <1>2 DEF IncidentRow
  <2>2. incident' = [incident EXCEPT ![i] = added]
    BY <1>3 DEF AddReportCreate
  <2>. QED  BY <1>1, <1>2, <2>1, <2>2
<1>4. CASE ReviewWrite(w)
  <2>1. reviewed \in IncidentRow
    BY <1>2 DEF IncidentRow
  <2>2. incident' = [incident EXCEPT ![i] = reviewed]
    BY <1>1, <1>4 DEF ReviewWrite, TitleInv, TypeOK
  <2>. QED  BY <1>1, <1>2, <2>1, <2>2
<1>5. CASE CloseWrite(w)
  <2>1. closed \in IncidentRow
    BY <1>1, <1>2, <1>5 DEF IncidentRow
  <2>2. incident' = [incident EXCEPT ![i] = closed]
    BY <1>5 DEF CloseWrite
  <2>. QED  BY <1>1, <1>2, <2>1, <2>2
<1>. QED  BY <1>3, <1>4, <1>5

LEMMA IncidentsType ==
  ASSUME TitleInv, IncidentNext
  PROVE TypeOK'
<1>. USE DEF TitleInv
<1>1. ASSUME NEW w \in Worker, NEW p \in Piece, NEW y \in IncidentType,
             ReportCheck(w, p, y)
      PROVE TypeOK'
  BY <1>1, SlotServed, RequestForms DEF ReportCheck, TypeOK
<1>2. ASSUME NEW w \in Worker, NEW i \in IncidentId, ReportCommit(w, i)
      PROVE TypeOK'
  <2>1. req[w].piece \in Piece /\ req[w].type \in IncidentType
    BY <1>2, RequestFields DEF ReportCommit, TypeOK
  <2>2. incident' \in [IncidentId -> IncidentRow \cup {Absent}]
    BY <1>2, <2>1 DEF ReportCommit, TypeOK, IncidentRow
  <2>3. status' \in [Piece -> PieceStatus \cup {"UNREGISTERED"}]
    BY <1>2, <2>1 DEF ReportCommit, TypeOK, PieceStatus, StatusAfter
  <2>4. req' \in [Worker -> Request]
    BY <1>2, SlotServed, RequestForms DEF ReportCommit, Finish
  <2>. QED
    BY <1>2, <2>2, <2>3, <2>4 DEF ReportCommit, TypeOK
<1>3. ASSUME NEW w \in Worker, NEW i \in IncidentId,
             \/ AddReportLoad(w, i) \/ ReviewLoad(w, i)
             \/ \E o \in {"RECOVERED", "RESOLVED"} : CloseLoad(w, i, o)
      PROVE TypeOK'
  BY <1>3, SlotServed, RequestForms DEF AddReportLoad, ReviewLoad, CloseLoad, TypeOK
<1>4. ASSUME NEW w \in Worker, ReportConflict(w) \/ ReviewConflict(w)
      PROVE TypeOK'
  BY <1>4, SlotServed, RequestForms
  DEF ReportConflict, ReviewConflict, TypeOK, Finish
<1>5. ASSUME NEW w \in Worker,
             AddReportCreate(w) \/ ReviewWrite(w) \/ CloseWrite(w)
      PROVE TypeOK'
  <2>1. PICK i \in IncidentId, x \in IncidentRow :
          /\ i = req[w].incident /\ incident[i] \in IncidentRow
          /\ incident' = [incident EXCEPT ![i] = x]
    BY <1>5, IncidentRewritten
  <2>3. incident' \in [IncidentId -> IncidentRow \cup {Absent}]
    BY <2>1 DEF TypeOK
  <2>4. status' \in [Piece -> PieceStatus \cup {"UNREGISTERED"}]
    <3>1. incident[req[w].incident].piece \in Piece
      BY <2>1 DEF IncidentRow
    <3>. QED
      BY <1>5, <3>1 DEF AddReportCreate, ReviewWrite, CloseWrite, TypeOK,
                        PieceStatus, Freed
  <2>5. req' \in [Worker -> Request]
    BY <1>5, SlotServed, RequestForms
    DEF AddReportCreate, ReviewWrite, CloseWrite, Finish
  <2>. QED
    BY <1>5, <2>3, <2>4, <2>5 DEF AddReportCreate, ReviewWrite, CloseWrite, TypeOK
<1>. QED  BY <1>1, <1>2, <1>3, <1>4, <1>5 DEF IncidentNext

LEMMA ServiceType ==
  ASSUME TitleInv, ServiceNext
  PROVE TypeOK'
<1>. USE DEF TitleInv
<1>1. ASSUME NEW p \in Piece, NEW s \in ServiceId, Create(p, s)
      PROVE TypeOK'
  BY <1>1 DEF Create, TypeOK, ServiceRow
<1>2. ASSUME NEW s \in ServiceId, Start(s) \/ CancelOrder(s)
      PROVE TypeOK'
  <2>1. service[s] \in ServiceRow
    BY <1>2 DEF Start, CancelOrder, TypeOK, Absent
  <2>2. service' \in [ServiceId -> ServiceRow \cup {Absent}]
    <3>1. CASE Start(s)
      BY <2>1, <3>1 DEF Start, TypeOK, ServiceRow
    <3>2. CASE CancelOrder(s)
      BY <2>1, <3>2 DEF CancelOrder, TypeOK, ServiceRow
    <3>. QED  BY <1>2, <3>1, <3>2
  <2>3. status' \in [Piece -> PieceStatus \cup {"UNREGISTERED"}]
    <3>1. service[s].piece \in Piece
      BY <2>1 DEF ServiceRow
    <3>. QED
      BY <1>2, <3>1 DEF Start, CancelOrder, TypeOK, PieceStatus
  <2>. QED
    BY <1>2, <2>2, <2>3 DEF Start, CancelOrder, TypeOK
<1>3. ASSUME NEW w \in Worker, NEW s \in ServiceId, CompleteExec(w, s)
      PROVE TypeOK'
  BY <1>3, SlotServed, RequestForms DEF CompleteExec, TypeOK
<1>4. ASSUME NEW w \in Worker, CompleteCommit(w)
      PROVE TypeOK'
  <2>. DEFINE s == req[w].service
  <2>1. s \in ServiceId
    BY <1>4, RequestFields DEF CompleteCommit, TypeOK
  <2>2. service[s] \in ServiceRow
    BY <1>4, <2>1 DEF CompleteCommit, TypeOK, InFlight, Sound
  <2>3. service[s].piece \in Piece
    BY <2>2 DEF ServiceRow
  <2>4. service' \in [ServiceId -> ServiceRow \cup {Absent}]
    BY <1>4, <2>1, <2>2 DEF CompleteCommit, TypeOK, ServiceRow
  <2>5. status' \in [Piece -> PieceStatus \cup {"UNREGISTERED"}]
    BY <1>4, <2>3 DEF CompleteCommit, TypeOK, PieceStatus
  <2>6. req' \in [Worker -> Request]
    BY <1>4, SlotServed, RequestForms DEF CompleteCommit, Finish
  <2>. QED
    BY <1>4, <2>4, <2>5, <2>6 DEF CompleteCommit, TypeOK
<1>. QED  BY <1>1, <1>2, <1>3, <1>4 DEF ServiceNext

LEMMA NextType ==
  ASSUME TitleInv, Next
  PROVE TypeOK'
<1>1. ASSUME NEW w \in Worker, Abort(w)
      PROVE TypeOK'
  BY <1>1, SlotServed, RequestForms DEF Abort, Finish, TypeOK, TitleInv
<1>. QED
  BY <1>1, PieceType, SaleType, ClaimType, TransferType, IncidentsType,
     ServiceType DEF Next
-----------------------------------------------------------------------------
(* The inductive invariant. *)

\* A link of the chain lasts while its history and its transfer stay.
LEMMA LinkKept ==
  ASSUME NEW q, NEW k, Linked(q, k), rows'[q] = rows[q], sale'[q] = sale[q],
         k # 1 => transfer'[rows[q][k].transfer] = transfer[rows[q][k].transfer]
  PROVE Linked(q, k)'
<1>1. CASE k = 1
  BY <1>1 DEF Linked
<1>2. CASE k # 1
  BY <1>2 DEF Linked
<1>. QED  BY <1>1, <1>2

\* A step that leaves title alone, and whose new requests are sound and take
\* no lock already held, preserves the invariant.
LEMMA QuietStep ==
  ASSUME TitleInv, TypeOK', UNCHANGED <<sale, claim, rows, transfer>>,
         \A w \in Worker : req'[w] = req[w] \/ Sound(w)',
         LocksExclusive',
         \A i \in IncidentId : incident[i] # Absent => incident'[i] # Absent,
         \A s \in ServiceId : service[s] # Absent => service'[s] # Absent
  PROVE TitleInv'
<1>1. ProvenanceChain'
  <2>1. \A q \in Piece : \A k \in 1..Len(rows[q]) :
          (rows[q][k].open <=> k = Len(rows[q])) /\ Linked(q, k)
    BY DEF TitleInv, ProvenanceChain
  <2>2. ASSUME NEW q \in Piece, NEW k \in 1..Len(rows[q])
        PROVE Linked(q, k)'
    BY <2>1, LinkKept
  <2>. QED  BY <2>1, <2>2 DEF ProvenanceChain
<1>2. AcceptedIsRecorded' /\ ClaimSpentIffOwned' /\ NoTransferBeforeRedeem'
  BY DEF TitleInv, AcceptedIsRecorded, ClaimSpentIffOwned,
         NoTransferBeforeRedeem
<1>3. OnePending'
  BY DEF TitleInv, OnePending, PendingOn
<1>4. ASSUME NEW w \in Worker
      PROVE Sound(w)'
  <2>1. CASE req'[w] = req[w]
    <3>1. Sound(w) /\ req[w] \in Request
      BY DEF TitleInv, InFlight, TypeOK
    <3>2. /\ req[w].op \in {"addReport", "review", "close"} =>
               incident'[req[w].incident] # Absent
          /\ req[w].op = "complete" => service'[req[w].service] # Absent
      BY <3>1, RequestFields DEF Sound
    <3>. QED  BY <2>1, <3>1, <3>2 DEF Sound
  <2>. QED  BY <2>1
<1>. QED  BY <1>1, <1>2, <1>3, <1>4 DEF TitleInv, InFlight

\* Locks stay exclusive when the requests that changed hold none.
LEMMA LocksKept ==
  ASSUME LocksExclusive,
         \A w \in Worker : \/ req'[w] = req[w]
                            \/ req'[w].op \notin {"redeeming", "accepting"}
  PROVE LocksExclusive'
  BY DEF LocksExclusive

\* Emptying slots leaves the other requests sound and the locks exclusive.
LEMMA FinishSound ==
  ASSUME TitleInv, NEW w \in Worker, Finish(w)
  PROVE /\ \A v \in Worker : req'[v] = req[v] \/ Sound(v)'
        /\ LocksExclusive'
        /\ req'[w] = Idle
        /\ \A v \in Worker : v # w => req'[v] = req[v]
<1>1. req'[w] = Idle /\ \A v \in Worker : v # w => req'[v] = req[v]
  BY SlotServed, RequestForms DEF Finish, TitleInv
<1>2. Sound(w)'
  BY <1>1 DEF Sound, Idle
<1>3. LocksExclusive'
  BY <1>1, LocksKept DEF TitleInv, Idle
<1>. QED  BY <1>1, <1>2, <1>3

LEMMA PieceStep ==
  ASSUME TitleInv, PieceNext
  PROVE TitleInv'
<1>. USE PieceType
<1>1. ASSUME NEW p \in Piece, Register(p)
      PROVE TitleInv'
  BY <1>1, QuietStep, LocksKept DEF Register, TitleInv
<1>2. ASSUME NEW w \in Worker, NEW p \in Piece,
             \/ \E s \in PieceStatus : UpdateStatusLoad(w, p, s)
             \/ RetireLoad(w, p)
      PROVE TitleInv'
  <2>1. PICK s \in PieceStatus :
          Serve(w, [op |-> "setStatus", piece |-> p, target |-> s])
    BY <1>2 DEF UpdateStatusLoad, RetireLoad, PieceStatus
  <2>2. \A v \in Worker : req'[v] = req[v] \/ req'[v].op = "setStatus"
    BY <2>1, SlotServed, RequestForms DEF TitleInv
  <2>3. LocksExclusive' /\ \A v \in Worker : req'[v] = req[v] \/ Sound(v)'
    BY <2>2, LocksKept DEF Sound, TitleInv
  <2>. QED
    BY <1>2, <2>3, QuietStep DEF UpdateStatusLoad, RetireLoad
<1>3. ASSUME NEW w \in Worker, SetStatus(w)
      PROVE TitleInv'
  BY <1>3, QuietStep, FinishSound DEF SetStatus
<1>. QED  BY <1>1, <1>2, <1>3 DEF PieceNext
\* Until the claim is spent the piece has no history, no transfer, and no
\* request that could make one.
LEMMA NoTitleYet ==
  ASSUME TitleInv, NEW p \in Piece, claim[p].status # "USED"
  PROVE /\ rows[p] = <<>>
        /\ \A t \in TransferId : transfer[t] # Absent => transfer[t].piece # p
        /\ \A w \in Worker :
             /\ req[w].op = "request" => req[w].piece # p
             /\ req[w].op = "accepting" => transfer[req[w].transfer].piece # p
<1>1. rows[p] = <<>>
  BY DEF TitleInv, ClaimSpentIffOwned
<1>2. \A t \in TransferId : transfer[t] # Absent => transfer[t].piece # p
  BY DEF TitleInv, NoTransferBeforeRedeem
<1>3. ASSUME NEW w \in Worker
      PROVE /\ req[w].op = "request" => req[w].piece # p
            /\ req[w].op = "accepting" => transfer[req[w].transfer].piece # p
  <2>1. Sound(w) /\ req[w] \in Request
    BY DEF TitleInv, InFlight, TypeOK
  <2>2. CASE req[w].op = "request"
    BY <2>1, <2>2 DEF Sound
  <2>3. CASE req[w].op = "accepting"
    <3>1. req[w].transfer \in TransferId
      BY <2>1, <2>3, RequestFields
    <3>2. transfer[req[w].transfer].status = "PENDING"
      BY <2>1, <2>3 DEF Sound
    <3>. QED  BY <2>3, <3>1, <3>2, <1>2 DEF Absent
  <2>. QED  BY <2>2, <2>3
<1>. QED  BY <1>1, <1>2, <1>3

LEMMA SaleStep ==
  ASSUME TitleInv, SaleNext
  PROVE TitleInv'
<1>. USE SaleType
<1>1. ASSUME NEW w \in Worker, NEW p \in Piece, NEW u \in User,
             SaleCheck(w, p, u)
      PROVE TitleInv'
  <2>. DEFINE r == [op |-> "sale", piece |-> p, buyer |-> u]
  <2>0. r \in Request /\ Serve(w, r)
    BY <1>1, RequestForms DEF SaleCheck
  <2>1. \A v \in Worker : req'[v] = req[v] \/ req'[v].op = "sale"
    BY <2>0, SlotServed DEF TitleInv
  <2>2. LocksExclusive' /\ \A v \in Worker : req'[v] = req[v] \/ Sound(v)'
    BY <2>1, LocksKept DEF Sound, TitleInv
  <2>. QED
    BY <1>1, <2>2, QuietStep DEF SaleCheck
<1>2. ASSUME NEW w \in Worker, SaleConflict(w)
      PROVE TitleInv'
  BY <1>2, QuietStep, FinishSound DEF SaleConflict
<1>3. ASSUME NEW w \in Worker, SaleCommit(w)
      PROVE TitleInv'
  <2>. DEFINE p == req[w].piece
  <2>1. p \in Piece /\ req[w].buyer \in User
    BY <1>3, RequestFields DEF SaleCommit, TitleInv, TypeOK
  <2>2. sale[p] = None /\ claim[p].status = "NONE"
    BY <1>3, <2>1 DEF SaleCommit, Unsold, TitleInv, ClaimSpentIffOwned
  <2>3. /\ claim'[p].status = "PENDING" /\ sale'[p] # None
        /\ \A q \in Piece : q # p => claim'[q] = claim[q] /\ sale'[q] = sale[q]
        /\ UNCHANGED <<rows, transfer, incident, service>>
    BY <1>3, <2>1, StoreAssumption DEF SaleCommit, TitleInv, TypeOK
  <2>4. /\ rows[p] = <<>>
        /\ \A t \in TransferId : transfer[t] # Absent => transfer[t].piece # p
        /\ \A v \in Worker :
             /\ req[v].op = "request" => req[v].piece # p
             /\ req[v].op = "accepting" => transfer[req[v].transfer].piece # p
    BY <2>1, <2>2, NoTitleYet
  <2>5. ProvenanceChain'
    <3>. SUFFICES ASSUME NEW q \in Piece, NEW k \in 1..Len(rows[q])
                  PROVE /\ rows[q][k].open <=> k = Len(rows[q])
                        /\ Linked(q, k)'
      BY <2>3 DEF ProvenanceChain
    <3>1. q # p
      BY <2>4
    <3>. QED
      BY <2>3, <3>1 DEF TitleInv, ProvenanceChain, Linked
  <2>6. AcceptedIsRecorded' /\ OnePending'
    BY <2>3 DEF TitleInv, AcceptedIsRecorded, OnePending, PendingOn
  <2>7. ClaimSpentIffOwned'
    BY <2>1, <2>3, <2>4 DEF TitleInv, ClaimSpentIffOwned
  <2>8. NoTransferBeforeRedeem'
    <3>. SUFFICES ASSUME NEW t \in TransferId, transfer[t] # Absent
                  PROVE claim'[transfer[t].piece].status = "USED"
      BY <2>3 DEF NoTransferBeforeRedeem
    <3>1. transfer[t].piece \in Piece \ {p}
      BY <2>4 DEF TitleInv, TypeOK, TransferRow
    <3>. QED
      BY <2>3, <3>1 DEF TitleInv, NoTransferBeforeRedeem
  <2>9. /\ req'[w] = Idle /\ LocksExclusive'
        /\ \A v \in Worker : v # w => req'[v] = req[v]
    BY <1>3, FinishSound DEF SaleCommit
  <2>10. ASSUME NEW v \in Worker
         PROVE Sound(v)'
    <3>1. CASE v = w
      BY <2>9, <3>1 DEF Sound, Idle
    <3>2. CASE v # w
      <4>1. req'[v] = req[v] /\ Sound(v) /\ req[v] \in Request
        BY <2>9, <3>2 DEF TitleInv, InFlight, TypeOK
      <4>2. /\ req[v].op \in {"redeem", "redeeming", "request"} =>
                 req[v].piece \in Piece \ {p}
        BY <2>2, <2>4, <4>1, RequestFields, StoreAssumption DEF Sound
      <4>. QED
        BY <2>3, <4>1, <4>2 DEF Sound
    <3>. QED  BY <3>1, <3>2
  <2>. QED
    BY <2>5, <2>6, <2>7, <2>8, <2>9, <2>10 DEF TitleInv, InFlight
<1>. QED  BY <1>1, <1>2, <1>3 DEF SaleNext

LEMMA ClaimStep ==
  ASSUME TitleInv, ClaimNext
  PROVE TitleInv'
<1>. USE ClaimType
<1>1. ASSUME NEW w \in Worker, NEW p \in Piece, RedeemCheck(w, p)
      PROVE TitleInv'
  <2>1. sale[p] \in User
    BY <1>1 DEF RedeemCheck, Redeemable, TitleInv, ClaimSpentIffOwned, TypeOK
  <2>2. /\ req'[w] = [op |-> "redeem", piece |-> p, actor |-> sale[p]]
        /\ \A v \in Worker : v # w => req'[v] = req[v]
    BY <1>1, <2>1, SlotServed, RequestForms DEF RedeemCheck, TitleInv
  <2>3. LocksExclusive' /\ \A v \in Worker : req'[v] = req[v] \/ Sound(v)'
    BY <1>1, <2>2, LocksKept DEF Sound, TitleInv, RedeemCheck
  <2>. QED
    BY <1>1, <2>3, QuietStep DEF RedeemCheck
<1>2. ASSUME NEW w \in Worker, RedeemExec(w)
      PROVE TitleInv'
  <2>. DEFINE r == [op |-> "redeeming", piece |-> req[w].piece,
                    actor |-> req[w].actor]
  <2>1. /\ [req[w] EXCEPT !.op = "redeeming"] = r
        /\ req[w].piece \in Piece /\ req[w].actor \in User
    BY <1>2, RequestFields DEF RedeemExec, TitleInv, TypeOK
  <2>0. r \in Request /\ Serve(w, r)
    BY <1>2, <2>1, RequestForms DEF RedeemExec
  <2>2. /\ req'[w] = r
        /\ \A v \in Worker : v # w => req'[v] = req[v]
    BY <2>0, SlotServed DEF TitleInv
  <2>3. Sound(w)'
    <3>1. sale[req[w].piece] = req[w].actor
      BY <1>2 DEF TitleInv, InFlight, Sound, RedeemExec
    <3>2. claim[req[w].piece].status = "PENDING"
      BY <1>2 DEF RedeemExec, Redeemable
    <3>. QED  BY <1>2, <2>2, <3>1, <3>2 DEF Sound, RedeemExec
  <2>4. LocksExclusive'
    BY <1>2, <2>2 DEF RedeemExec, ClaimLocked, TitleInv, LocksExclusive
  <2>. QED
    BY <1>2, <2>2, <2>3, <2>4, QuietStep DEF RedeemExec
<1>3. ASSUME NEW w \in Worker, RedeemRefused(w)
      PROVE TitleInv'
  BY <1>3, QuietStep, FinishSound DEF RedeemRefused
<1>4. ASSUME NEW w \in Worker, RedeemCommit(w)
      PROVE TitleInv'
  <2>. DEFINE p == req[w].piece
              row == [owner |-> req[w].actor, transfer |-> None, open |-> TRUE]
  <2>1. p \in Piece /\ req[w].actor \in User
    BY <1>4, RequestFields DEF RedeemCommit, TitleInv, TypeOK
  <2>2. claim[p].status = "PENDING" /\ sale[p] = req[w].actor
    BY <1>4 DEF RedeemCommit, TitleInv, InFlight, Sound
  <2>3. /\ rows[p] = <<>>
        /\ \A t \in TransferId : transfer[t] # Absent => transfer[t].piece # p
        /\ \A v \in Worker :
             /\ req[v].op = "request" => req[v].piece # p
             /\ req[v].op = "accepting" => transfer[req[v].transfer].piece # p
    BY <2>1, <2>2, NoTitleYet
  <2>4. /\ claim'[p].status = "USED"
        /\ \A q \in Piece : q # p => claim'[q] = claim[q] /\ rows'[q] = rows[q]
        /\ UNCHANGED <<sale, transfer, incident, service>>
    BY <1>4, <2>1 DEF RedeemCommit, TitleInv, TypeOK, Claim
  <2>5. Len(rows'[p]) = 1 /\ rows'[p][1] = row
    <3>1. rows'[p] = Append(rows[p], row)
      BY <1>4, <2>1 DEF RedeemCommit, TitleInv, TypeOK
    <3>. HIDE DEF row
    <3>. QED  BY <2>3, <3>1
  <2>6. ProvenanceChain'
    <3>. SUFFICES ASSUME NEW q \in Piece, NEW k \in 1..Len(rows'[q])
                  PROVE /\ rows'[q][k].open <=> k = Len(rows'[q])
                        /\ Linked(q, k)'
      BY DEF ProvenanceChain
    <3>1. CASE q = p
      <4>0. Len(rows'[q]) = 1
        BY <2>5, <3>1
      <4>1. k = 1 /\ Len(rows'[q]) = 1
        BY <4>0
      <4>2. rows'[q][k] = row
        BY <2>5, <3>1, <4>1
      <4>3. sale'[q] = req[w].actor
        BY <2>2, <2>4, <3>1
      <4>. QED  BY <4>1, <4>2, <4>3 DEF Linked
    <3>2. CASE q # p
      <4>1. rows'[q] = rows[q]
        BY <2>4, <3>2
      <4>2. (rows[q][k].open <=> k = Len(rows[q])) /\ Linked(q, k)
        BY <4>1 DEF TitleInv, ProvenanceChain
      <4>. QED  BY <2>4, <4>1, <4>2 DEF Linked
    <3>. QED  BY <3>1, <3>2
  <2>7. AcceptedIsRecorded'
    <3>. SUFFICES ASSUME NEW t \in TransferId
                  PROVE (\E q \in Piece : \E k \in 1..Len(rows'[q]) :
                           rows'[q][k].transfer = t)
                        <=> \E q \in Piece : \E k \in 1..Len(rows[q]) :
                           rows[q][k].transfer = t
      BY <2>4 DEF TitleInv, AcceptedIsRecorded
    <3>1. \A k \in 1..Len(rows'[p]) : rows'[p][k].transfer # t
      BY <2>5, StoreAssumption
    <3>2. \A k \in 1..Len(rows[p]) : rows[p][k].transfer # t
      BY <2>3
    <3>. QED  BY <2>4, <3>1, <3>2
  <2>8. ClaimSpentIffOwned'
    BY <2>1, <2>2, <2>4, <2>5 DEF TitleInv, ClaimSpentIffOwned
  <2>9. NoTransferBeforeRedeem'
    <3>. SUFFICES ASSUME NEW t \in TransferId, transfer[t] # Absent
                  PROVE claim'[transfer[t].piece].status = "USED"
      BY <2>4 DEF NoTransferBeforeRedeem
    <3>1. transfer[t].piece \in Piece \ {p}
      BY <2>3 DEF TitleInv, TypeOK, TransferRow
    <3>. QED
      BY <2>4, <3>1 DEF TitleInv, NoTransferBeforeRedeem
  <2>10. OnePending'
    BY <2>4 DEF TitleInv, OnePending, PendingOn
  <2>11. /\ req'[w] = Idle /\ LocksExclusive'
         /\ \A v \in Worker : v # w => req'[v] = req[v]
    BY <1>4, FinishSound DEF RedeemCommit
  <2>12. ASSUME NEW v \in Worker
         PROVE Sound(v)'
    <3>1. CASE v = w
      BY <2>11, <3>1 DEF Sound, Idle
    <3>2. CASE v # w
      <4>1. req'[v] = req[v] /\ Sound(v) /\ req[v] \in Request
        BY <2>11, <3>2 DEF TitleInv, InFlight, TypeOK
      <4>2. req[v].op \in {"redeeming", "request"} =>
              req[v].piece \in Piece \ {p}
        BY <1>4, <2>3, <3>2, <4>1, RequestFields
        DEF TitleInv, LocksExclusive, RedeemCommit
      <4>3. req[v].op = "accepting" =>
              transfer[req[v].transfer].piece \in Piece \ {p}
        <5>. SUFFICES ASSUME req[v].op = "accepting"
                      PROVE transfer[req[v].transfer].piece \in Piece \ {p}
          OBVIOUS
        <5>1. req[v].transfer \in TransferId
              /\ transfer[req[v].transfer].status = "PENDING"
          BY <4>1, RequestFields DEF Sound
        <5>. QED
          BY <5>1, <2>3 DEF TitleInv, TypeOK, TransferRow, Absent
      <4>. QED
        BY <2>4, <4>1, <4>2, <4>3 DEF Sound
    <3>. QED  BY <3>1, <3>2
  <2>. QED
    BY <2>6, <2>7, <2>8, <2>9, <2>10, <2>11, <2>12 DEF TitleInv, InFlight
<1>5. ASSUME NEW p \in Piece, ClaimLapses(p)
      PROVE TitleInv'
  <2>1. /\ \A q \in Piece : claim'[q].status = claim[q].status
        /\ UNCHANGED <<sale, rows, transfer, incident, service, req>>
    BY <1>5 DEF ClaimLapses, TitleInv, TypeOK, Claim
  <2>2. ProvenanceChain' /\ AcceptedIsRecorded' /\ OnePending' /\ LocksExclusive'
    BY <2>1 DEF TitleInv, ProvenanceChain, Linked, AcceptedIsRecorded,
                OnePending, PendingOn, LocksExclusive
  <2>3. ClaimSpentIffOwned'
    BY <2>1 DEF TitleInv, ClaimSpentIffOwned
  <2>4. NoTransferBeforeRedeem'
    BY <2>1 DEF TitleInv, NoTransferBeforeRedeem, TypeOK, TransferRow
  <2>5. ASSUME NEW v \in Worker
        PROVE Sound(v)'
    <3>1. req'[v] = req[v] /\ Sound(v) /\ req[v] \in Request
      BY <2>1 DEF TitleInv, InFlight, TypeOK
    <3>. QED
      BY <2>1, <3>1, RequestFields DEF Sound
  <2>. QED  BY <2>2, <2>3, <2>4, <2>5, <1>5, ClaimType DEF TitleInv, InFlight, ClaimNext
<1>. QED  BY <1>1, <1>2, <1>3, <1>4, <1>5 DEF ClaimNext
\* What an accept in flight has decided: its transfer is the pending one of a
\* piece that has an owner, and it closes exactly the last row.
LEMMA AcceptingFacts ==
  ASSUME TitleInv, NEW w \in Worker, req[w].op = "accepting"
  PROVE /\ req[w].transfer \in TransferId
        /\ transfer[req[w].transfer] \in TransferRow
        /\ transfer[req[w].transfer].status = "PENDING"
        /\ transfer[req[w].transfer].piece \in Piece
        /\ claim[transfer[req[w].transfer].piece].status = "USED"
        /\ LET h == rows[transfer[req[w].transfer].piece]
           IN /\ h \in Seq(OwnershipRow)
              /\ h # <<>> /\ Len(h) \in Nat \ {0}
              /\ req[w].closes = {Len(h)}
              /\ h[Len(h)].owner = transfer[req[w].transfer].from
<1>. DEFINE t == req[w].transfer
            p == transfer[t].piece
            h == rows[p]
<1>1. Sound(w) /\ req[w] \in Request
  BY DEF TitleInv, InFlight, TypeOK
<1>2. t \in TransferId
  BY <1>1, RequestFields
<1>3. /\ transfer[t].status = "PENDING"
      /\ req[w].closes = {Len(h)} /\ h[Len(h)].owner = transfer[t].from
  BY <1>1 DEF Sound
<1>4. transfer[t] \in TransferRow /\ transfer[t] # Absent
  BY <1>2, <1>3 DEF TitleInv, TypeOK, Absent
<1>5. p \in Piece
  BY <1>4 DEF TransferRow
<1>6. claim[p].status = "USED"
  BY <1>2, <1>4 DEF TitleInv, NoTransferBeforeRedeem
<1>7. h \in Seq(OwnershipRow) /\ h # <<>>
  BY <1>5, <1>6 DEF TitleInv, TypeOK, ClaimSpentIffOwned
<1>8. Len(h) \in Nat \ {0}
  BY <1>7
<1>. QED  BY <1>2, <1>3, <1>4, <1>5, <1>6, <1>7, <1>8

\* The open rows of a piece that has a history: the last one.
LEMMA LastIsOpen ==
  ASSUME TitleInv, NEW p \in Piece
  PROVE OpenRows(p) = IF rows[p] = <<>> THEN {} ELSE {Len(rows[p])}
<1>1. rows[p] \in Seq(OwnershipRow) /\ Len(rows[p]) \in Nat
  BY DEF TitleInv, TypeOK
<1>2. \A k \in 1..Len(rows[p]) : rows[p][k].open <=> k = Len(rows[p])
  BY DEF TitleInv, ProvenanceChain
<1>3. CASE rows[p] = <<>>
  BY <1>3 DEF OpenRows
<1>4. CASE rows[p] # <<>>
  <2>1. Len(rows[p]) \in 1..Len(rows[p])
    BY <1>1, <1>4
  <2>. QED  BY <1>1, <1>2, <1>4, <2>1 DEF OpenRows
<1>. QED  BY <1>3, <1>4
\* A transfer whose row no accept has locked may change as long as it stays
\* what it was but for its status and its age, and does not become ACCEPTED or
\* PENDING again.
LEMMA UnlockedTransferStep ==
  ASSUME TitleInv, TypeOK', NEW t \in TransferId, NEW x \in TransferRow,
         UNCHANGED <<status, sale, claim, rows, incident, service, req>>,
         transfer' = [transfer EXCEPT ![t] = x],
         transfer[t].status = "PENDING",
         x.piece = transfer[t].piece,
         \/ /\ x.status \in {"REJECTED", "CANCELLED", "EXPIRED"}
            /\ ~TransferLocked(t)
         \/ x.status = "PENDING" /\ x.from = transfer[t].from
  PROVE TitleInv'
<1>1. transfer'[t] = x /\ \A u \in TransferId : u # t => transfer'[u] = transfer[u]
  BY DEF TitleInv, TypeOK
<1>2. transfer[t] # Absent /\ x # Absent
  BY DEF Absent, TransferRow
<1>3. ProvenanceChain'
  <2>. SUFFICES ASSUME NEW q \in Piece, NEW k \in 1..Len(rows[q])
                PROVE Linked(q, k)'
    BY DEF TitleInv, ProvenanceChain
  <2>1. Linked(q, k)
    BY DEF TitleInv, ProvenanceChain
  <2>. QED  BY <1>1, <2>1 DEF Linked
<1>4. AcceptedIsRecorded'
  <2>1. \A u \in TransferId :
          transfer'[u].status = "ACCEPTED" <=> transfer[u].status = "ACCEPTED"
    BY <1>1
  <2>. QED  BY <2>1 DEF TitleInv, AcceptedIsRecorded
<1>5. ClaimSpentIffOwned' /\ LocksExclusive'
  BY DEF TitleInv, ClaimSpentIffOwned, LocksExclusive
<1>6. NoTransferBeforeRedeem'
  BY <1>1, <1>2 DEF TitleInv, NoTransferBeforeRedeem
<1>7. OnePending'
  <2>1. \A q \in Piece : PendingOn(q)' \subseteq PendingOn(q)
    BY <1>1 DEF PendingOn
  <2>. QED  BY <2>1 DEF TitleInv, OnePending
<1>8. ASSUME NEW v \in Worker
      PROVE Sound(v)'
  <2>1. Sound(v)
    BY DEF TitleInv, InFlight
  <2>2. CASE req[v].op # "accepting"
    BY <2>1, <2>2 DEF Sound
  <2>3. CASE req[v].op = "accepting" /\ req[v].transfer # t
    <3>1. transfer'[req[v].transfer] = transfer[req[v].transfer]
      BY <1>1, <2>3, AcceptingFacts
    <3>. QED  BY <2>1, <2>3, <3>1 DEF Sound
  <2>4. CASE req[v].op = "accepting" /\ req[v].transfer = t
    <3>1. x.status = "PENDING" /\ x.from = transfer[t].from
      BY <2>4 DEF TransferLocked
    <3>. QED  BY <1>1, <2>1, <2>4, <3>1 DEF Sound
  <2>. QED  BY <2>2, <2>3, <2>4
<1>. QED  BY <1>3, <1>4, <1>5, <1>6, <1>7, <1>8 DEF TitleInv, InFlight

LEMMA RequestCreateStep ==
  ASSUME TitleInv, NEW w \in Worker, NEW t \in TransferId, RequestCreate(w, t)
  PROVE TitleInv'
<1>. DEFINE p == req[w].piece
            x == [status |-> "PENDING", piece |-> p, from |-> req[w].from,
                  to |-> req[w].to, overdue |-> FALSE]
<1>0. TypeOK'
  BY TransferType DEF TransferNext
<1>1. p \in Piece /\ claim[p].status = "USED"
  BY RequestFields DEF RequestCreate, TitleInv, TypeOK, InFlight, Sound
<1>2. /\ transfer[t] = Absent /\ transfer'[t] = x
      /\ \A u \in TransferId : u # t => transfer'[u] = transfer[u]
      /\ UNCHANGED <<sale, claim, rows, incident, service>>
  BY DEF RequestCreate, TitleInv, TypeOK
<1>3. transfer[t].status # "ACCEPTED" /\ transfer[t].status # "PENDING"
  BY <1>2 DEF Absent
<1>4. ProvenanceChain'
  <2>. SUFFICES ASSUME NEW q \in Piece, NEW k \in 1..Len(rows[q])
                PROVE Linked(q, k)'
    BY <1>2 DEF TitleInv, ProvenanceChain
  <2>1. Linked(q, k)
    BY DEF TitleInv, ProvenanceChain
  <2>2. k # 1 => rows[q][k].transfer # t
    BY <1>3, <2>1 DEF Linked
  <2>. QED  BY <1>2, <2>1, <2>2 DEF Linked
<1>5. AcceptedIsRecorded'
  <2>1. \A u \in TransferId :
          transfer'[u].status = "ACCEPTED" <=> transfer[u].status = "ACCEPTED"
    BY <1>2, <1>3
  <2>. QED  BY <1>2, <2>1 DEF TitleInv, AcceptedIsRecorded
<1>6. ClaimSpentIffOwned'
  BY <1>2 DEF TitleInv, ClaimSpentIffOwned
<1>7. NoTransferBeforeRedeem'
  BY <1>1, <1>2 DEF TitleInv, NoTransferBeforeRedeem
<1>8. OnePending'
  <2>1. PendingOn(p) = {}
    BY DEF RequestCreate, IndexFree
  <2>2. \A q \in Piece : q = p => PendingOn(q)' \subseteq {t}
    BY <1>2, <2>1 DEF PendingOn
  <2>3. \A q \in Piece : q # p => PendingOn(q)' \subseteq PendingOn(q)
    BY <1>2 DEF PendingOn
  <2>. QED  BY <2>2, <2>3 DEF TitleInv, OnePending
<1>9. /\ req'[w] = Idle /\ LocksExclusive'
      /\ \A v \in Worker : v # w => req'[v] = req[v]
  BY FinishSound DEF RequestCreate
<1>10. ASSUME NEW v \in Worker
       PROVE Sound(v)'
  <2>1. CASE v = w
    BY <1>9, <2>1 DEF Sound, Idle
  <2>2. CASE v # w
    <3>1. req'[v] = req[v] /\ Sound(v)
      BY <1>9, <2>2 DEF TitleInv, InFlight
    <3>2. req[v].op = "accepting" =>
            transfer'[req[v].transfer] = transfer[req[v].transfer]
      BY <1>2, <1>3, AcceptingFacts
    <3>. QED  BY <1>2, <3>1, <3>2 DEF Sound
  <2>. QED  BY <2>1, <2>2
<1>. QED
  BY <1>0, <1>4, <1>5, <1>6, <1>7, <1>8, <1>9, <1>10 DEF TitleInv, InFlight
LEMMA AcceptCommitStep ==
  ASSUME TitleInv, NEW w \in Worker, AcceptCommit(w)
  PROVE TitleInv'
<1>0. TypeOK'
  BY TransferType DEF TransferNext
<1>1. PICK t \in TransferId : t = req[w].transfer /\ transfer[t] \in TransferRow
  BY AcceptingFacts DEF AcceptCommit
<1>2. PICK p \in Piece : p = transfer[t].piece
  BY <1>1, AcceptingFacts DEF AcceptCommit
<1>3. PICK n \in Nat \ {0} : n = Len(rows[p]) /\ req[w].closes = {n}
  BY <1>1, <1>2, AcceptingFacts DEF AcceptCommit
<1>. DEFINE h == rows[p]
            g == Closed(h, req[w].closes)
            last == [owner |-> transfer[t].to, transfer |-> t, open |-> TRUE]
<1>4. /\ transfer[t].status = "PENDING" /\ claim[p].status = "USED"
      /\ h \in Seq(OwnershipRow) /\ h[n].owner = transfer[t].from
  BY <1>1, <1>2, <1>3, AcceptingFacts DEF AcceptCommit
<1>5. /\ transfer'[t] = [transfer[t] EXCEPT !.status = "ACCEPTED"]
      /\ \A u \in TransferId : u # t => transfer'[u] = transfer[u]
      /\ \A q \in Piece : q # p => rows'[q] = rows[q]
      /\ rows'[p] = Append(g, last)
      /\ UNCHANGED <<status, sale, claim, incident, service>>
  BY <1>1, <1>2 DEF AcceptCommit, TitleInv, TypeOK
<1>6. /\ g \in Seq(OwnershipRow) /\ Len(g) = n
      /\ \A k \in 1..n : /\ g[k].owner = h[k].owner
                         /\ g[k].transfer = h[k].transfer
                         /\ g[k].open = (h[k].open /\ k # n)
  BY <1>3, <1>4, ClosedRows
<1>7. last \in OwnershipRow
  BY <1>1 DEF TransferRow, OwnershipRow
<1>8. /\ Len(rows'[p]) = n + 1
      /\ rows'[p][n + 1] = last
      /\ \A k \in 1..n : rows'[p][k] = g[k]
  <2>. HIDE DEF g, last
  <2>. QED  BY <1>5, <1>6, <1>7
<1>. HIDE DEF g
<1>9. \A k \in 1..n : /\ h[k].open <=> k = n
                      /\ Linked(p, k)
                      /\ h[k].transfer # t
  <2>. SUFFICES ASSUME NEW k \in 1..n
                PROVE /\ h[k].open <=> k = n
                      /\ Linked(p, k)
                      /\ h[k].transfer # t
    OBVIOUS
  <2>1. (h[k].open <=> k = n) /\ Linked(p, k)
    BY <1>3 DEF TitleInv, ProvenanceChain
  <2>2. h[k].transfer # t
    BY <1>4, <2>1, StoreAssumption DEF Linked
  <2>. QED  BY <2>1, <2>2
<1>10. ProvenanceChain'
  <2>. SUFFICES ASSUME NEW q \in Piece, NEW k \in 1..Len(rows'[q])
                PROVE (rows'[q][k].open <=> k = Len(rows'[q])) /\ Linked(q, k)'
    BY DEF ProvenanceChain
  <2>1. CASE q # p
    <3>1. rows'[q] = rows[q] /\ k \in 1..Len(rows[q])
      BY <1>5, <2>1
    <3>2. (rows[q][k].open <=> k = Len(rows[q])) /\ Linked(q, k)
      BY <3>1 DEF TitleInv, ProvenanceChain
    <3>3. k # 1 => rows[q][k].transfer # t
      BY <1>4, <3>2 DEF Linked
    <3>4. k # 1 => rows[q][k].transfer \in TransferId
      BY <3>2 DEF Linked
    <3>5. Linked(q, k)'
      BY <1>5, <3>1, <3>2, <3>3, <3>4, LinkKept
    <3>. QED  BY <3>1, <3>2, <3>5
  <2>2. CASE q = p /\ k \in 1..n
    <3>1. rows'[p][k].open <=> k = Len(rows'[p])
      <4>1. k # Len(rows'[p])
        BY <1>8, <2>2
      <4>2. rows'[p][k].open = (h[k].open /\ k # n)
        BY <1>6, <1>8, <2>2
      <4>3. h[k].open <=> k = n
        BY <1>9, <2>2
      <4>. QED  BY <4>1, <4>2, <4>3
    <3>2. k # 1 => k - 1 \in 1..n
      BY <2>2
    <3>3. /\ rows'[p][k].owner = h[k].owner
          /\ \A j \in 1..k : rows'[p][j].transfer = h[j].transfer
          /\ k # 1 => rows'[p][k - 1].owner = h[k - 1].owner
      <4>1. \A j \in 1..n : /\ rows'[p][j].owner = h[j].owner
                            /\ rows'[p][j].transfer = h[j].transfer
        BY <1>6, <1>8
      <4>2. \A j \in 1..k : j \in 1..n
        BY <2>2
      <4>. QED  BY <2>2, <3>2, <4>1, <4>2
    <3>4. Linked(p, k) /\ h[k].transfer # t
      BY <1>9, <2>2
    <3>5. k \in 1..k /\ \A j \in 1..(k - 1) : j \in 1..k
      BY <2>2
    <3>6. Linked(p, k)'
      BY <1>5, <2>2, <3>3, <3>4, <3>5 DEF Linked
    <3>. QED  BY <2>2, <3>1, <3>6
  <2>3. CASE q = p /\ k = n + 1
    <3>1. rows'[p][k] = last /\ k = Len(rows'[p]) /\ k # 1 /\ k - 1 = n
      BY <1>8, <2>3
    <3>2. rows'[p][n].owner = transfer[t].from /\ n \in 1..n
      BY <1>4, <1>6, <1>8
    <3>3. \A j \in 1..n : rows'[p][j].transfer # t
      BY <1>6, <1>8, <1>9
    <3>4. /\ transfer'[t].status = "ACCEPTED" /\ transfer'[t].piece = p
          /\ transfer'[t].from = transfer[t].from
          /\ transfer'[t].to = transfer[t].to
      BY <1>1, <1>2, <1>5 DEF TransferRow
    <3>5. Linked(p, k)'
      BY <3>1, <3>2, <3>3, <3>4 DEF Linked
    <3>. QED  BY <2>3, <3>1, <3>5
  <2>. QED  BY <1>8, <2>1, <2>2, <2>3
<1>11. AcceptedIsRecorded'
  <2>. SUFFICES ASSUME NEW u \in TransferId
                PROVE transfer'[u].status = "ACCEPTED" <=>
                        \E q \in Piece : \E k \in 1..Len(rows'[q]) :
                          rows'[q][k].transfer = u
    BY DEF AcceptedIsRecorded
  <2>1. CASE u = t
    <3>1. transfer'[u].status = "ACCEPTED"
      BY <1>1, <1>5, <2>1 DEF TransferRow
    <3>2. n + 1 \in 1..Len(rows'[p]) /\ rows'[p][n + 1].transfer = u
      BY <1>8, <2>1
    <3>. QED  BY <3>1, <3>2
  <2>2. CASE u # t
    <3>1. ASSUME NEW q \in Piece
          PROVE (\E k \in 1..Len(rows'[q]) : rows'[q][k].transfer = u) <=>
                  \E k \in 1..Len(rows[q]) : rows[q][k].transfer = u
      <4>1. CASE q = p
        <5>1. \A k \in 1..n : rows'[p][k].transfer = h[k].transfer
          BY <1>6, <1>8
        <5>2. rows'[p][n + 1].transfer # u
          BY <1>8, <2>2
        <5>3. \A k \in 1..(n + 1) : k \in 1..n \/ k = n + 1
          OBVIOUS
        <5>4. \A k \in 1..n : k \in 1..(n + 1)
          OBVIOUS
        <5>. QED  BY <1>3, <1>8, <4>1, <5>1, <5>2, <5>3, <5>4
      <4>2. CASE q # p
        BY <1>5, <4>2
      <4>. QED  BY <4>1, <4>2
    <3>2. transfer[u].status = "ACCEPTED" <=>
            \E q \in Piece : \E k \in 1..Len(rows[q]) : rows[q][k].transfer = u
      BY DEF TitleInv, AcceptedIsRecorded
    <3>. QED  BY <1>5, <2>2, <3>1, <3>2
  <2>. QED  BY <2>1, <2>2
<1>12. ClaimSpentIffOwned'
  <2>1. rows[p] # <<>> /\ rows'[p] # <<>>
    BY <1>3, <1>4, <1>8
  <2>. QED  BY <1>5, <2>1 DEF TitleInv, ClaimSpentIffOwned
<1>13. NoTransferBeforeRedeem'
  <2>1. transfer'[t].piece = p
    BY <1>1, <1>2, <1>5 DEF TransferRow
  <2>2. ASSUME NEW u \in TransferId, transfer'[u] # Absent
        PROVE claim[transfer'[u].piece].status = "USED"
    <3>1. CASE u = t
      BY <1>4, <2>1, <3>1
    <3>2. CASE u # t
      BY <1>5, <2>2, <3>2 DEF TitleInv, NoTransferBeforeRedeem
    <3>. QED  BY <3>1, <3>2
  <2>. QED  BY <1>5, <2>2 DEF NoTransferBeforeRedeem
<1>14. OnePending' /\ \A u \in TransferId : u # t =>
         ~(transfer[u].status = "PENDING" /\ transfer[u].piece = p)
  <2>1. \A q \in Piece : PendingOn(q)' \subseteq PendingOn(q)
    BY <1>1, <1>5 DEF PendingOn, TransferRow
  <2>2. t \in PendingOn(p)
    BY <1>2, <1>4 DEF PendingOn
  <2>. QED  BY <2>1, <2>2 DEF TitleInv, OnePending, PendingOn
<1>15. /\ req'[w] = Idle /\ LocksExclusive'
       /\ \A v \in Worker : v # w => req'[v] = req[v]
  BY FinishSound DEF AcceptCommit
<1>16. ASSUME NEW v \in Worker
       PROVE Sound(v)'
  <2>1. CASE v = w
    BY <1>15, <2>1 DEF Sound, Idle
  <2>2. CASE v # w
    <3>1. req'[v] = req[v] /\ Sound(v)
      BY <1>15, <2>2 DEF TitleInv, InFlight
    <3>2. CASE req[v].op # "accepting"
      BY <1>5, <3>1, <3>2 DEF Sound
    <3>3. CASE req[v].op = "accepting"
      <4>1. req[v].transfer \in TransferId /\ req[v].transfer # t
        BY <1>1, <2>2, <3>3, AcceptingFacts
        DEF AcceptCommit, TitleInv, LocksExclusive
      <4>2. transfer[req[v].transfer].piece \in Piece \ {p}
        BY <1>14, <3>3, <4>1, AcceptingFacts
      <4>3. /\ transfer'[req[v].transfer] = transfer[req[v].transfer]
            /\ rows'[transfer[req[v].transfer].piece]
                 = rows[transfer[req[v].transfer].piece]
        BY <1>5, <4>1, <4>2
      <4>. QED  BY <3>1, <3>3, <4>3 DEF Sound
    <3>. QED  BY <3>2, <3>3
  <2>. QED  BY <2>1, <2>2
<1>. QED
  BY <1>0, <1>10, <1>11, <1>12, <1>13, <1>14, <1>15, <1>16
  DEF TitleInv, InFlight
LEMMA TransferStep ==
  ASSUME TitleInv, TransferNext
  PROVE TitleInv'
<1>. USE TransferType
<1>1. ASSUME NEW w \in Worker, NEW p \in Piece, NEW from \in User,
             NEW to \in User, RequestCheck(w, p, from, to)
      PROVE TitleInv'
  <2>. DEFINE r == [op |-> "request", piece |-> p, from |-> from, to |-> to]
  <2>1. r \in Request /\ Serve(w, r)
    BY <1>1, RequestForms DEF RequestCheck
  <2>2. req'[w] = r /\ \A v \in Worker : v # w => req'[v] = req[v]
    BY <2>1, SlotServed DEF TitleInv
  <2>3. claim[p].status = "USED"
    <3>1. OpenRows(p) # {}
      BY <1>1 DEF RequestCheck, IsOwner
    <3>. QED  BY <3>1, LastIsOpen DEF TitleInv, ClaimSpentIffOwned
  <2>4. LocksExclusive' /\ \A v \in Worker : req'[v] = req[v] \/ Sound(v)'
    BY <1>1, <2>2, <2>3, LocksKept DEF Sound, TitleInv, RequestCheck
  <2>. QED
    BY <1>1, <2>4, QuietStep DEF RequestCheck
<1>2. ASSUME NEW w \in Worker, NEW t \in TransferId, AcceptExec(w, t)
      PROVE TitleInv'
  <2>. DEFINE p == transfer[t].piece
              h == rows[p]
              r == [op |-> "accepting", transfer |-> t, closes |-> OpenRows(p)]
  <2>1. transfer[t].status = "PENDING" /\ p \in Piece
    BY <1>2 DEF AcceptExec, Answerable, TitleInv, TypeOK, TransferRow, Absent
  <2>2. OpenRows(p) = {Len(h)} /\ h[Len(h)].owner = transfer[t].from
    <3>1. PICK k \in OpenRows(p) : h[k].owner = transfer[t].from
      BY <1>2 DEF AcceptExec, StillOwner, IsOwner
    <3>. QED  BY <2>1, <3>1, LastIsOpen
  <2>3. r \in Request /\ Serve(w, r)
    <3>1. OpenRows(p) \in SUBSET Nat
      BY DEF OpenRows
    <3>. QED  BY <1>2, <3>1, RequestForms DEF AcceptExec
  <2>4. req'[w] = r /\ \A v \in Worker : v # w => req'[v] = req[v]
    BY <2>3, SlotServed DEF TitleInv
  <2>5. Sound(w)'
    BY <1>2, <2>1, <2>2, <2>4 DEF Sound, AcceptExec
  <2>6. LocksExclusive'
    BY <1>2, <2>4 DEF AcceptExec, TransferLocked, TitleInv, LocksExclusive
  <2>. QED
    BY <1>2, <2>4, <2>5, <2>6, QuietStep DEF AcceptExec
<1>3. ASSUME NEW w \in Worker, RequestConflict(w)
      PROVE TitleInv'
  BY <1>3, QuietStep, FinishSound DEF RequestConflict
<1>4. ASSUME NEW t \in TransferId, Reject(t) \/ Cancel(t) \/ Expire(t)
      PROVE TitleInv'
  <2>1. PICK s \in {"REJECTED", "CANCELLED", "EXPIRED"} :
          /\ transfer' = [transfer EXCEPT ![t].status = s]
          /\ transfer[t].status = "PENDING" /\ ~TransferLocked(t)
          /\ UNCHANGED <<status, sale, claim, rows, incident, service, req>>
    BY <1>4 DEF Reject, Cancel, Settle, Expire, Answerable, Lapsed
  <2>. DEFINE x == [transfer[t] EXCEPT !.status = s]
  <2>2. x \in TransferRow /\ x.status = s /\ x.piece = transfer[t].piece
    BY <2>1 DEF TitleInv, TypeOK, TransferRow, Absent
  <2>3. transfer' = [transfer EXCEPT ![t] = x]
    BY <2>1
  <2>. QED
    BY <1>4, <2>1, <2>2, <2>3, UnlockedTransferStep DEF TransferNext
<1>5. ASSUME NEW t \in TransferId, TransferLapses(t)
      PROVE TitleInv'
  <2>. DEFINE x == [transfer[t] EXCEPT !.overdue = TRUE]
  <2>1. transfer[t].status = "PENDING"
    BY <1>5 DEF TransferLapses, Answerable
  <2>0. transfer[t] \in TransferRow
    BY <2>1 DEF TitleInv, TypeOK, Absent
  <2>2. /\ x \in TransferRow /\ x.status = "PENDING"
        /\ x.piece = transfer[t].piece /\ x.from = transfer[t].from
    BY <2>0, <2>1 DEF TransferRow
  <2>3. /\ transfer' = [transfer EXCEPT ![t] = x]
        /\ UNCHANGED <<status, sale, claim, rows, incident, service, req>>
    BY <1>5 DEF TransferLapses
  <2>. QED
    BY <1>5, <2>1, <2>2, <2>3, UnlockedTransferStep DEF TransferNext
<1>. QED
  BY <1>1, <1>2, <1>3, <1>4, <1>5, RequestCreateStep, AcceptCommitStep
  DEF TransferNext

LEMMA IncidentStep ==
  ASSUME TitleInv, IncidentNext
  PROVE TitleInv'
<1>. USE IncidentsType
<1>1. ASSUME NEW w \in Worker, NEW p \in Piece, NEW y \in IncidentType,
             ReportCheck(w, p, y)
      PROVE TitleInv'
  <2>1. \A v \in Worker : req'[v] = req[v] \/ req'[v].op = "report"
    BY <1>1, SlotServed, RequestForms DEF ReportCheck, TitleInv
  <2>2. LocksExclusive' /\ \A v \in Worker : req'[v] = req[v] \/ Sound(v)'
    BY <2>1, LocksKept DEF Sound, TitleInv
  <2>. QED
    BY <1>1, <2>2, QuietStep DEF ReportCheck
<1>2. ASSUME NEW w \in Worker, NEW i \in IncidentId, ReportCommit(w, i)
      PROVE TitleInv'
  <2>1. \A j \in IncidentId : incident[j] # Absent => incident'[j] # Absent
    BY <1>2 DEF ReportCommit, TitleInv, TypeOK
  <2>. QED
    BY <1>2, <2>1, QuietStep, FinishSound DEF ReportCommit
<1>3. ASSUME NEW w \in Worker, NEW i \in IncidentId,
             \/ AddReportLoad(w, i) \/ ReviewLoad(w, i)
             \/ \E o \in {"RECOVERED", "RESOLVED"} : CloseLoad(w, i, o)
      PROVE TitleInv'
  <2>1. PICK r \in Request :
          /\ Serve(w, r) /\ r.op \in {"addReport", "review", "close"}
          /\ r.incident = i
    BY <1>3, RequestForms DEF AddReportLoad, ReviewLoad, CloseLoad
  <2>2. req'[w] = r /\ \A v \in Worker : v # w => req'[v] = req[v]
    BY <2>1, SlotServed DEF TitleInv
  <2>3. incident[i] # Absent /\ UNCHANGED incident
    BY <1>3 DEF AddReportLoad, ReviewLoad, CloseLoad, Absent, OpenIncidentStatus
  <2>4. LocksExclusive' /\ \A v \in Worker : req'[v] = req[v] \/ Sound(v)'
    BY <2>1, <2>2, <2>3, LocksKept DEF Sound, TitleInv
  <2>. QED
    BY <1>3, <2>4, QuietStep DEF AddReportLoad, ReviewLoad, CloseLoad
<1>4. ASSUME NEW w \in Worker, ReportConflict(w) \/ ReviewConflict(w)
      PROVE TitleInv'
  BY <1>4, QuietStep, FinishSound DEF ReportConflict, ReviewConflict
<1>5. ASSUME NEW w \in Worker,
             AddReportCreate(w) \/ ReviewWrite(w) \/ CloseWrite(w)
      PROVE TitleInv'
  <2>1. \A j \in IncidentId : incident[j] # Absent => incident'[j] # Absent
    <3>1. \A x \in IncidentRow : x # Absent
      <4>1. \A x \in IncidentRow : x.status # "ABSENT"
        BY DEF IncidentRow
      <4>. QED  BY <4>1 DEF Absent
    <3>. QED
      BY <1>5, <3>1, IncidentRewritten DEF TitleInv, TypeOK
  <2>. QED
    BY <1>5, <2>1, QuietStep, FinishSound
    DEF AddReportCreate, ReviewWrite, CloseWrite
<1>. QED  BY <1>1, <1>2, <1>3, <1>4, <1>5 DEF IncidentNext
LEMMA ServiceStep ==
  ASSUME TitleInv, ServiceNext
  PROVE TitleInv'
<1>. USE ServiceType
<1>0. \A x \in ServiceRow : x # Absent
  <2>1. \A x \in ServiceRow : x.status # "ABSENT"
    BY DEF ServiceRow
  <2>. QED  BY <2>1 DEF Absent
<1>1. ASSUME NEW p \in Piece, NEW s \in ServiceId, Create(p, s)
      PROVE TitleInv'
  <2>1. \A j \in ServiceId : service[j] # Absent => service'[j] # Absent
    BY <1>1 DEF Create, TitleInv, TypeOK
  <2>. QED
    BY <1>1, <2>1, QuietStep, LocksKept DEF Create, TitleInv
<1>2. ASSUME NEW s \in ServiceId, Start(s) \/ CancelOrder(s)
      PROVE TitleInv'
  <2>1. \A j \in ServiceId : service[j] # Absent => service'[j] # Absent
    <3>1. service[s] \in ServiceRow
      BY <1>2 DEF Start, CancelOrder, TitleInv, TypeOK, Absent
    <3>2. /\ [service[s] EXCEPT !.status = "IN_PROGRESS"] \in ServiceRow
          /\ [service[s] EXCEPT !.status = "CANCELLED"] \in ServiceRow
      BY <3>1 DEF ServiceRow
    <3>. QED
      BY <1>0, <1>2, <3>2 DEF Start, CancelOrder, TitleInv, TypeOK
  <2>. QED
    BY <1>2, <2>1, QuietStep, LocksKept DEF Start, CancelOrder, TitleInv
<1>3. ASSUME NEW w \in Worker, NEW s \in ServiceId, CompleteExec(w, s)
      PROVE TitleInv'
  <2>1. PICK r \in Request :
          Serve(w, r) /\ r.op = "complete" /\ r.service = s
    BY <1>3, RequestForms DEF CompleteExec
  <2>2. req'[w] = r /\ \A v \in Worker : v # w => req'[v] = req[v]
    BY <2>1, SlotServed DEF TitleInv
  <2>3. service[s] # Absent /\ UNCHANGED service
    BY <1>3 DEF CompleteExec, Completable, Absent
  <2>4. LocksExclusive' /\ \A v \in Worker : req'[v] = req[v] \/ Sound(v)'
    BY <2>1, <2>2, <2>3, LocksKept DEF Sound, TitleInv
  <2>. QED
    BY <1>3, <2>4, QuietStep DEF CompleteExec
<1>4. ASSUME NEW w \in Worker, CompleteCommit(w)
      PROVE TitleInv'
  <2>. DEFINE s == req[w].service
  <2>1. s \in ServiceId
    BY <1>4, RequestFields DEF CompleteCommit, TitleInv, TypeOK
  <2>2. service[s] \in ServiceRow
    BY <1>4, <2>1 DEF CompleteCommit, TitleInv, TypeOK, InFlight, Sound
  <2>3. [service[s] EXCEPT !.status = "COMPLETED"] \in ServiceRow
    BY <2>2 DEF ServiceRow
  <2>4. \A j \in ServiceId : service[j] # Absent => service'[j] # Absent
    BY <1>0, <1>4, <2>1, <2>3 DEF CompleteCommit, TitleInv, TypeOK
  <2>. QED
    BY <1>4, <2>4, QuietStep, FinishSound DEF CompleteCommit
<1>. QED  BY <1>1, <1>2, <1>3, <1>4 DEF ServiceNext

LEMMA InitTitle == Init => TitleInv
<1>. SUFFICES ASSUME Init PROVE TitleInv
  OBVIOUS
<1>1. TypeOK
  <2>1. <<>> \in Seq(OwnershipRow) /\ NoClaim \in Claim /\ Idle \in Request
    BY RequestForms DEF NoClaim, Claim
  <2>. QED  BY <2>1 DEF Init, StoreInit, TypeOK
<1>2. ProvenanceChain /\ AcceptedIsRecorded
  BY DEF Init, StoreInit, ProvenanceChain, AcceptedIsRecorded, Absent
<1>3. ClaimSpentIffOwned /\ NoTransferBeforeRedeem /\ OnePending
  BY DEF Init, StoreInit, ClaimSpentIffOwned, NoTransferBeforeRedeem,
         OnePending, PendingOn, NoClaim, Absent
<1>4. InFlight /\ LocksExclusive
  BY DEF Init, StoreInit, InFlight, Sound, LocksExclusive, Idle
<1>. QED  BY <1>1, <1>2, <1>3, <1>4 DEF TitleInv

LEMMA NextTitle ==
  ASSUME TitleInv, [Next]_vars
  PROVE TitleInv'
<1>1. ASSUME NEW w \in Worker, Abort(w)
      PROVE TitleInv'
  BY <1>1, NextType, QuietStep, FinishSound DEF Abort, Next
<1>2. CASE UNCHANGED vars
  <2>1. TypeOK'
    BY <1>2 DEF vars, TitleInv, TypeOK
  <2>2. LocksExclusive'
    BY <1>2, LocksKept DEF vars, TitleInv
  <2>. QED  BY <1>2, <2>1, <2>2, QuietStep DEF vars
<1>. QED
  BY <1>1, <1>2, PieceStep, SaleStep, ClaimStep, TransferStep, IncidentStep,
     ServiceStep DEF Next

-----------------------------------------------------------------------------
(* The results. *)

\* The invariant that title rests on holds in every state: with it, type
\* correctness, the chain of title, ACCEPTED exactly when recorded, the claim
\* spent exactly when the piece is owned, and no transfer before redeem, for
\* any number of pieces, users, workers and rows.
THEOREM TitleInvariant == Spec => []TitleInv
<1>1. Init => TitleInv
  BY InitTitle
<1>2. TitleInv /\ [Next]_vars => TitleInv'
  BY NextTitle
<1>. QED  BY <1>1, <1>2, PTL DEF Spec

\* Every table keeps rows of its type whatever requests run.
THEOREM TypeCorrect == Spec => []TypeOK
<1>1. TitleInv => TypeOK
  BY DEF TitleInv
<1>. QED  BY <1>1, TitleInvariant, PTL

\* The history of every piece is a chain of title.
THEOREM ChainOfTitle == Spec => []ProvenanceChain
<1>1. TitleInv => ProvenanceChain
  BY DEF TitleInv
<1>. QED  BY <1>1, TitleInvariant, PTL

\* No piece ever has two open ownership records, although the trigger that
\* enforces it takes no lock.
THEOREM OneOwner == Spec => []AtMostOneOwner
<1>1. TitleInv => AtMostOneOwner
  BY LastIsOpen DEF AtMostOneOwner
<1>. QED  BY <1>1, TitleInvariant, PTL
\* The two writes of accept are seen together or not at all.
THEOREM AcceptIsAtomic == Spec => []AcceptedIsRecorded
<1>1. TitleInv => AcceptedIsRecorded
  BY DEF TitleInv
<1>. QED  BY <1>1, TitleInvariant, PTL

\* A claim code is burnt exactly when it has given title.
THEOREM ClaimIsTitle == Spec => []ClaimSpentIffOwned
<1>1. TitleInv => ClaimSpentIffOwned
  BY DEF TitleInv
<1>. QED  BY <1>1, TitleInvariant, PTL

\* A piece whose buyer has not redeemed yet cannot be transferred away.
THEOREM BuyerIsSafe == Spec => []NoTransferBeforeRedeem
<1>1. TitleInv => NoTransferBeforeRedeem
  BY DEF TitleInv
<1>. QED  BY <1>1, TitleInvariant, PTL

\* Only redeem and accept write ownership rows, and only the handlers of
\* transfers write transfers.
LEMMA TitleWriters ==
  ASSUME Next
  PROVE /\ \/ UNCHANGED rows
           \/ \E w \in Worker : RedeemCommit(w) \/ AcceptCommit(w)
        /\ \/ UNCHANGED transfer
           \/ \E w \in Worker, u \in TransferId : RequestCreate(w, u)
           \/ \E w \in Worker : AcceptCommit(w)
           \/ \E u \in TransferId :
                Reject(u) \/ Cancel(u) \/ Expire(u) \/ TransferLapses(u)
<1>1. PieceNext => UNCHANGED <<rows, transfer>>
  BY DEF PieceNext, Register, UpdateStatusLoad, RetireLoad, SetStatus
<1>2. SaleNext => UNCHANGED <<rows, transfer>>
  BY DEF SaleNext, SaleCheck, SaleCommit, SaleConflict
<1>3. ClaimNext => /\ UNCHANGED transfer
                   /\ UNCHANGED rows \/ \E w \in Worker : RedeemCommit(w)
  BY DEF ClaimNext, RedeemCheck, RedeemExec, RedeemRefused, RedeemCommit,
         ClaimLapses
<1>4. TransferNext =>
        \/ UNCHANGED <<rows, transfer>>
        \/ \E w \in Worker : AcceptCommit(w)
        \/ /\ UNCHANGED rows
           /\ \/ \E w \in Worker, u \in TransferId : RequestCreate(w, u)
              \/ \E u \in TransferId :
                   Reject(u) \/ Cancel(u) \/ Expire(u) \/ TransferLapses(u)
  BY DEF TransferNext, RequestCheck, RequestCreate, RequestConflict, AcceptExec,
         Reject, Cancel, Settle, Expire, TransferLapses
<1>5. IncidentNext => UNCHANGED <<rows, transfer>>
  BY DEF IncidentNext, ReportCheck, ReportCommit, ReportConflict,
         AddReportLoad, AddReportCreate, ReviewLoad, ReviewWrite,
         ReviewConflict, CloseLoad, CloseWrite
<1>6. ServiceNext => UNCHANGED <<rows, transfer>>
  BY DEF ServiceNext, Create, Start, CompleteExec, CompleteCommit, CancelOrder
<1>7. \A w \in Worker : Abort(w) => UNCHANGED <<rows, transfer>>
  BY DEF Abort
<1>. QED  BY <1>1, <1>2, <1>3, <1>4, <1>5, <1>6, <1>7 DEF Next

\* The database's history only grows: rows keep owner and origin, and an open
\* row is closed only by the step that adds its successor.
THEOREM HistoryGrows == Spec => HistoryAppendOnly
<1>. DEFINE Grows(p) ==
       /\ Len(rows'[p]) >= Len(rows[p])
       /\ \A k \in 1..Len(rows[p]) :
            \/ rows'[p][k] = rows[p][k]
            \/ /\ Len(rows'[p]) = Len(rows[p]) + 1
               /\ rows'[p][k] = [rows[p][k] EXCEPT !.open = FALSE]
<1>1. ASSUME TitleInv, Next, NEW p \in Piece
      PROVE Grows(p)
  <2>1. rows[p] \in Seq(OwnershipRow) /\ Len(rows[p]) \in Nat
    BY <1>1 DEF TitleInv, TypeOK
  <2>2. CASE rows'[p] = rows[p]
    BY <2>1, <2>2
  <2>3. ASSUME NEW w \in Worker, RedeemCommit(w), rows'[p] # rows[p]
        PROVE Grows(p)
    <3>1. req[w].piece \in Piece /\ req[w].actor \in User
      BY <1>1, <2>3, RequestFields DEF RedeemCommit, TitleInv, TypeOK
    <3>. DEFINE r == [owner |-> req[w].actor, transfer |-> None, open |-> TRUE]
    <3>2. r \in OwnershipRow
      BY <3>1 DEF OwnershipRow
    <3>3. rows'[p] = Append(rows[p], r)
      BY <1>1, <2>3, <3>1 DEF RedeemCommit, TitleInv, TypeOK
    <3>. HIDE DEF r
    <3>. QED  BY <2>1, <3>2, <3>3
  <2>4. ASSUME NEW w \in Worker, AcceptCommit(w), rows'[p] # rows[p]
        PROVE Grows(p)
    <3>. DEFINE t == req[w].transfer
                g == Closed(rows[p], req[w].closes)
                r == [owner |-> transfer[t].to, transfer |-> t, open |-> TRUE]
    <3>1. t \in TransferId /\ transfer[t] \in TransferRow
      BY <1>1, <2>4, AcceptingFacts DEF AcceptCommit
    <3>2. r \in OwnershipRow
      BY <3>1 DEF OwnershipRow, TransferRow
    <3>3. rows'[p] = Append(g, r)
      BY <1>1, <2>4, <3>1 DEF AcceptCommit, TitleInv, TypeOK
    <3>4. /\ g \in Seq(OwnershipRow) /\ Len(g) = Len(rows[p])
          /\ \A k \in 1..Len(rows[p]) :
               \/ g[k] = rows[p][k]
               \/ g[k] = [rows[p][k] EXCEPT !.open = FALSE]
      <4>1. g \in Seq(OwnershipRow) /\ Len(g) = Len(rows[p])
        BY <2>1, ClosedRows
      <4>2. ASSUME NEW k \in 1..Len(rows[p])
            PROVE \/ g[k] = rows[p][k]
                  \/ g[k] = [rows[p][k] EXCEPT !.open = FALSE]
        BY DEF Closed
      <4>. QED  BY <4>1, <4>2
    <3>5. g \in Seq(OwnershipRow) /\ Len(g) = Len(rows[p])
      BY <3>4
    <3>6. /\ Len(rows'[p]) = Len(rows[p]) + 1
          /\ \A k \in 1..Len(rows[p]) : rows'[p][k] = g[k]
      <4>. HIDE DEF g, r
      <4>. QED  BY <3>2, <3>3, <3>5
    <3>7. Len(rows'[p]) >= Len(rows[p])
      BY <2>1, <3>6
    <3>. HIDE DEF g
    <3>. QED  BY <3>4, <3>6, <3>7
  <2>5. \/ UNCHANGED rows
        \/ \E w \in Worker : RedeemCommit(w) \/ AcceptCommit(w)
    BY <1>1, TitleWriters
  <2>. QED  BY <2>2, <2>3, <2>4, <2>5
<1>2. TitleInv /\ [Next]_vars => [\A p \in Piece : Grows(p)]_vars
  BY <1>1 DEF vars
<1>. QED  BY <1>2, TitleInvariant, PTL DEF Spec, HistoryAppendOnly
\* A transfer that was answered or has expired is never touched again.
THEOREM SettledStaysSettled == Spec => SettledIsFinal
<1>. DEFINE Final(t) == transfer[t].status \notin {"ABSENT", "PENDING"} =>
                          transfer'[t] = transfer[t]
<1>1. ASSUME TitleInv, Next, NEW t \in TransferId
      PROVE Final(t)
  <2>1. ASSUME NEW w \in Worker, NEW u \in TransferId, RequestCreate(w, u)
        PROVE Final(t)
    BY <1>1, <2>1 DEF RequestCreate, TitleInv, TypeOK, Absent
  <2>2. ASSUME NEW w \in Worker, AcceptCommit(w)
        PROVE Final(t)
    <3>1. transfer[req[w].transfer].status = "PENDING"
      BY <1>1, <2>2, AcceptingFacts DEF AcceptCommit
    <3>. QED  BY <1>1, <2>2, <3>1 DEF AcceptCommit, TitleInv, TypeOK
  <2>3. ASSUME NEW u \in TransferId,
               Reject(u) \/ Cancel(u) \/ Expire(u) \/ TransferLapses(u)
        PROVE Final(t)
    <3>1. transfer[u].status = "PENDING" /\ (u # t => transfer'[t] = transfer[t])
      BY <1>1, <2>3 DEF Reject, Cancel, Settle, Expire, TransferLapses,
                        Answerable, Lapsed, TitleInv, TypeOK
    <3>. QED  BY <3>1
  <2>4. \/ UNCHANGED transfer
        \/ \E w \in Worker, u \in TransferId : RequestCreate(w, u)
        \/ \E w \in Worker : AcceptCommit(w)
        \/ \E u \in TransferId :
             Reject(u) \/ Cancel(u) \/ Expire(u) \/ TransferLapses(u)
    BY <1>1, TitleWriters
  <2>. QED  BY <2>1, <2>2, <2>3, <2>4
<1>2. TitleInv /\ [Next]_vars => [\A t \in TransferId : Final(t)]_vars
  BY <1>1 DEF vars
<1>. QED  BY <1>2, TitleInvariant, PTL DEF Spec, SettledIsFinal
=============================================================================
