------------------------------ MODULE Platform -------------------------------
(***************************************************************************)
(* The six services of the core over one database, serving requests         *)
(* concurrently: the life of a piece from registration through sale, claim  *)
(* and transfers, with incidents and service orders along the way.          *)
(***************************************************************************)
EXTENDS Pieces, Sales, Claims, Transfers, Incidents, Services

\* A request dies before it is done (exception, lost connection, crash of the
\* process): PostgreSQL rolls its open transaction back.
Abort(w) ==
  /\ req[w] # Idle
  /\ Finish(w)
  /\ UNCHANGED <<status, sale, claim, rows, transfer, incident, service>>

Init == StoreInit

Next ==
  \/ PieceNext
  \/ SaleNext
  \/ ClaimNext
  \/ TransferNext
  \/ IncidentNext
  \/ ServiceNext
  \/ \E w \in Worker : Abort(w)

Spec == Init /\ [][Next]_vars

\* The steps that carry a request forward.
Proceed(w) ==
  \/ SetStatus(w)
  \/ SaleCommit(w) \/ SaleConflict(w)
  \/ RedeemExec(w) \/ RedeemRefused(w) \/ RedeemCommit(w)
  \/ \E t \in TransferId : RequestCreate(w, t)
  \/ RequestConflict(w) \/ AcceptCommit(w)
  \/ \E i \in IncidentId : ReportCommit(w, i)
  \/ ReportConflict(w) \/ AddReportCreate(w)
  \/ ReviewWrite(w) \/ ReviewConflict(w) \/ CloseWrite(w)
  \/ CompleteCommit(w)

\* Node runs the continuation of every settled promise.  A request that waits
\* for a row lock or an index entry queues for it, and PostgreSQL wakes the
\* queue in order, so newcomers cannot overtake it for ever: hence strong
\* fairness.  Nothing makes clients ask, clocks run out or requests die.
FairSpec == Spec /\ \A w \in Worker : SF_vars(Proceed(w))

-----------------------------------------------------------------------------
(* Title *)

\* A piece never has two open ownership records, although the trigger that
\* guards this (init/migration.sql:630) takes no lock and so cannot see the
\* row another open transaction is about to commit.
AtMostOneOwner ==
  \A p \in Piece : \A j, k \in OpenRows(p) : j = k

\* Row k of p's history follows from the row before it, or from the sale.
Linked(p, k) ==
  LET row == rows[p][k] IN
  IF k = 1
  THEN row.transfer = None /\ row.owner = sale[p]
  ELSE /\ row.transfer \in TransferId
       /\ transfer[row.transfer].status = "ACCEPTED"
       /\ transfer[row.transfer].piece = p
       /\ transfer[row.transfer].from = rows[p][k - 1].owner
       /\ transfer[row.transfer].to = row.owner
       /\ \A j \in 1..(k - 1) : rows[p][j].transfer # row.transfer

\* The ownership history of a piece is a chain of title: it starts with the
\* CLAIM of the sale's buyer, each later row is an ACCEPTED transfer of this
\* piece from the owner before it to its own owner, no transfer appears twice,
\* and exactly the last row is open (transfers.service.ts:117-148).
ProvenanceChain ==
  \A p \in Piece : \A k \in 1..Len(rows[p]) :
    /\ rows[p][k].open <=> k = Len(rows[p])
    /\ Linked(p, k)

\* The two writes of accept happen together or not at all: a transfer is
\* ACCEPTED exactly when the piece's history records it.
AcceptedIsRecorded ==
  \A t \in TransferId :
    transfer[t].status = "ACCEPTED" <=>
      \E p \in Piece : \E k \in 1..Len(rows[p]) : rows[p][k].transfer = t

\* The claim of a sale is spent exactly when the piece has an owner
\* (claims.service.ts:75-96): no code is burnt without title, and no title
\* comes into being while its code could be used again.
ClaimSpentIffOwned ==
  \A p \in Piece :
    /\ claim[p].status = "USED" <=> rows[p] # <<>>
    /\ claim[p].status = "NONE" <=> sale[p] = None

\* No transfer of a piece exists before the buyer has redeemed: the window in
\* which accepting it would take the piece from the buyer is closed by the
\* order of the flows, not only by the checks in sale and redeem
\* (ARCHITECTURE_AUDIT.md:299-302 calls it unreachable through the API).
NoTransferBeforeRedeem ==
  \A t \in TransferId :
    transfer[t] # Absent => claim[transfer[t].piece].status = "USED"

\* DATABASE.md:32: the history is append-only.  A row that exists keeps its
\* owner and origin for ever, a closed row stays closed, and an open one is
\* closed only in the step that appends its successor.
HistoryAppendOnly ==
  [][\A p \in Piece :
       /\ Len(rows'[p]) >= Len(rows[p])
       /\ \A k \in 1..Len(rows[p]) :
            \/ rows'[p][k] = rows[p][k]
            \/ /\ Len(rows'[p]) = Len(rows[p]) + 1
               /\ rows'[p][k] = [rows[p][k] EXCEPT !.open = FALSE]]_vars

\* A transfer that was answered or expired is never touched again, whichever
\* of accept, reject, cancel and expiry raced to it.
SettledIsFinal ==
  [][\A t \in TransferId :
       transfer[t].status \notin {"ABSENT", "PENDING"} =>
         transfer'[t] = transfer[t]]_vars

Registry == INSTANCE TitleRegistry WITH
  Nobody <- None,
  buyer <- sale,
  holders <- [p \in Piece |-> [k \in 1..Len(rows[p]) |-> rows[p][k].owner]],
  offer <- [p \in Piece |-> {[from |-> transfer[t].from, to |-> transfer[t].to]
                               : t \in PendingOn(p)}]

\* The services implement the registry of titles.
ImplementsRegistry == Registry!Spec

-----------------------------------------------------------------------------
(* Why title is safe: what a request in flight may rely on until it is done *)

\* The rows the request of w decided to write, or to lock, are still as it
\* left them.
Sound(w) ==
  /\ req[w].op \in {"redeem", "redeeming"} =>
       sale[req[w].piece] = req[w].actor
  /\ req[w].op = "redeeming" => claim[req[w].piece].status = "PENDING"
  /\ req[w].op = "request" => claim[req[w].piece].status = "USED"
  /\ req[w].op = "accepting" =>
       LET t == req[w].transfer
           h == rows[transfer[t].piece]
       IN /\ transfer[t].status = "PENDING"
          /\ req[w].closes = {Len(h)}
          /\ h[Len(h)].owner = transfer[t].from
  /\ req[w].op \in {"addReport", "review", "close"} =>
       incident[req[w].incident] # Absent
  /\ req[w].op = "complete" => service[req[w].service] # Absent

\* Nothing that commits in between can invalidate an open transaction of
\* redeem or accept, and no request is left without its row.
InFlight == \A w \in Worker : Sound(w)

\* No two open transactions hold the lock of the same claim or transfer.
LocksExclusive ==
  \A v, w \in Worker : v # w =>
    /\ req[v].op = "redeeming" /\ req[w].op = "redeeming" =>
         req[v].piece # req[w].piece
    /\ req[v].op = "accepting" /\ req[w].op = "accepting" =>
         req[v].transfer # req[w].transfer

\* The partial unique index: one PENDING transfer per piece.
OnePending == \A p \in Piece : \A t, u \in PendingOn(p) : t = u

\* The inductive invariant.
TitleInv ==
  /\ TypeOK
  /\ ProvenanceChain
  /\ AcceptedIsRecorded
  /\ ClaimSpentIffOwned
  /\ NoTransferBeforeRedeem
  /\ InFlight
  /\ LocksExclusive
  /\ OnePending

-----------------------------------------------------------------------------
(* Incidents and services *)

\* However reports, reviews and closings race, a piece has one open incident
\* at most (README.md:157).
OneOpenIncident ==
  \A p \in Piece : \A i, j \in OpenIncidents(p) : i = j

\* A piece that is REPORTED_STOLEN or LOST has an open incident: only closing
\* one can free the piece, so no interleaving may close the last incident and
\* leave the piece behind.
ReportedHasOpenIncident ==
  \A p \in Piece :
    status[p] \in {"REPORTED_STOLEN", "LOST"} => HasOpenIncident(p)

\* A service order that was completed or cancelled stays so: start, complete
\* and cancel race for the order and one of them wins.
OrderSettledOnce ==
  [][\A s \in ServiceId :
       service[s].status \in {"COMPLETED", "CANCELLED"} =>
         service'[s] = service[s]]_vars

\* Every request that was admitted is answered: no handler waits for ever for
\* a row lock or an index entry held by another.
EveryRequestAnswered ==
  \A w \in Worker : req[w] # Idle ~> req[w] = Idle
=============================================================================
