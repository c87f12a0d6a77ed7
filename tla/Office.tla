------------------------------- MODULE Office --------------------------------
(***************************************************************************)
(* What is kept of a piece beside its title: its number, its QR codes and   *)
(* its certificates, and the counter that pieces, invoices and reports draw *)
(* their numbers from.                                                      *)
(*                                                                          *)
(* A variable holds COMMITTED rows; what an open transaction has decided is *)
(* in req[w].  A row lock only delays the other transaction, so it appears  *)
(* where it keeps someone from reading a value: the counter.                *)
(***************************************************************************)
EXTENDS Naturals, FiniteSets

CONSTANTS
  Worker,                \* requests served at the same time
  Piece, QrCode, Certificate,   \* row identifiers: the bound on rows
  FirstYear, LastYear,   \* bound: the years the process lives through
  MaxNumber,             \* bound: numbers drawn in a year
  None                   \* SQL NULL

ASSUME OfficeAssumption ==
  /\ FirstYear \in Nat /\ LastYear \in Nat /\ FirstYear <= LastYear
  /\ MaxNumber \in Nat
  /\ None \notin Piece
  /\ IsFiniteSet(Worker)   \* a process serves finitely many requests at once

VARIABLES
  clock,     \* new Date().getUTCFullYear()
  counter,   \* serial_counters.last_value, 0 when the year has no row
  paper,     \* the pieces, invoices and reports that got a number
  lost,      \* history: draws that committed and gave nothing its number
  qr,        \* qr_codes
  cert,      \* certificates
  req        \* the request each worker is serving

vars == <<clock, counter, paper, lost, qr, cert, req>>

Year == FirstYear..LastYear
Number == 1..MaxNumber
Kind == {"piece", "invoice", "report"}

\* piece: the piece registered, None for the other kinds; year and number are
\* printed on it, drawn is the year of the counter the number came from.
Paper == [kind: Kind, piece: Piece \cup {None}, year: Year, number: Number,
          drawn: Year]

QrRow == [piece: Piece, status: {"ACTIVE", "REVOKED"}]
CertRow == [piece: Piece, status: {"ACTIVE", "REVOKED"}]

Absent == [status |-> "ABSENT"]

Idle == [op |-> "idle"]
Request ==
  {Idle}
  \cup [op: {"draw"}, kind: Kind, piece: Piece \cup {None}, year: Year]
  \cup [op: {"number"}, kind: Kind, piece: Piece \cup {None}, year: Year,
        number: Number, open: BOOLEAN]
  \cup [op: {"qr"}, piece: Piece, seen: SUBSET QrCode]
  \cup [op: {"issue"}, piece: Piece]
  \cup [op: {"revoke"}, cert: Certificate]

IsIdle(w) == req[w] = Idle
Serve(w, r) == req' = [req EXCEPT ![w] = r]
Finish(w) == Serve(w, Idle)

\* A registered piece has a digital identity, which no code revokes.
Registered(p) == \E x \in paper : x.piece = p

ActiveCodes(p) ==
  {q \in QrCode : qr[q] = [piece |-> p, status |-> "ACTIVE"]}

OfficeInit ==
  /\ clock = FirstYear
  /\ counter = [y \in Year |-> 0]
  /\ paper = {}
  /\ lost = [y \in Year |-> {}]
  /\ qr = [q \in QrCode |-> Absent]
  /\ cert = [c \in Certificate |-> Absent]
  /\ req = [w \in Worker |-> Idle]

\* Every table holds rows of its type and every slot a well-formed request.
TypeOK ==
  /\ clock \in Year
  /\ counter \in [Year -> 0..MaxNumber]
  /\ paper \subseteq Paper
  /\ lost \in [Year -> SUBSET Number]
  /\ qr \in [QrCode -> QrRow \cup {Absent}]
  /\ cert \in [Certificate -> CertRow \cup {Absent}]
  /\ req \in [Worker -> Request]
=============================================================================
