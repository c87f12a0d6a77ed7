-------------------------------- MODULE Store --------------------------------
(***************************************************************************)
(* The PostgreSQL tables the services of api/src share (prisma/schema), the *)
(* constraints the migrations put on them, and the requests in flight.      *)
(*                                                                          *)
(* Transactions run at READ COMMITTED.  A variable holds COMMITTED rows; a  *)
(* handler that reads, awaits and then writes keeps what it read, or what   *)
(* its open transaction has already decided, in its slot req[w].            *)
(***************************************************************************)
EXTENDS Naturals, Sequences

CONSTANTS
  Piece,
  User,         \* the users who buy, receive and own pieces
  Staff,        \* the users whose role carries the staff permissions; they
                \* may be Users too
  Worker,       \* requests the API serves at the same time
  TransferId, IncidentId, ServiceId,   \* row identifiers: the bound on rows
  None          \* SQL NULL

ASSUME StoreAssumption ==
  /\ None \notin User /\ None \notin TransferId

VARIABLES
  status,    \* jewelry_pieces.status
  sale,      \* sales.buyer_id of the piece's sale (piece_id is UNIQUE)
  claim,     \* piece_claim_codes of that sale
  rows,      \* ownership_records of the piece, in order of insertion
  transfer,  \* ownership_transfers
  incident,  \* incidents, each with its incident_reports
  service,   \* service_records
  req        \* the request each worker is serving

vars == <<status, sale, claim, rows, transfer, incident, service, req>>

-----------------------------------------------------------------------------
(* Row types *)

PieceStatus == {"IN_STOCK", "AVAILABLE", "SOLD", "IN_SERVICE",
                "REPORTED_STOLEN", "LOST", "RETIRED"}

\* overdue: expires_at lies in the past.  REVOKED is never written by the code.
Claim == [status: {"NONE", "PENDING", "USED"}, overdue: BOOLEAN]
NoClaim == [status |-> "NONE", overdue |-> FALSE]

\* acquisition_type is CLAIM exactly when transfer_id is NULL; open: end_date
\* is NULL.
OwnershipRow == [owner: User, transfer: TransferId \cup {None}, open: BOOLEAN]

TransferRow ==
  [status: {"PENDING", "ACCEPTED", "REJECTED", "CANCELLED", "EXPIRED"},
   piece: Piece, from: User, to: User, overdue: BOOLEAN]

\* reports: the statuses its incident_reports are in.
IncidentType == {"STOLEN", "LOST", "FRAUD", "OTHER"}
IncidentRow ==
  [status: {"ACTIVE", "UNDER_REVIEW", "RECOVERED", "RESOLVED"},
   piece: Piece, type: IncidentType, reports: SUBSET {"SUBMITTED", "VERIFIED"}]

ServiceRow ==
  [status: {"REQUESTED", "IN_PROGRESS", "COMPLETED", "CANCELLED"},
   piece: Piece]

Absent == [status |-> "ABSENT"]     \* an identifier with no row yet

-----------------------------------------------------------------------------
(* Requests in flight: op names the handler and the next thing it will do. *)

Idle == [op |-> "idle"]

Request ==
  {Idle}
  \cup [op: {"setStatus"}, piece: Piece, target: PieceStatus]
  \cup [op: {"sale"}, piece: Piece, buyer: User]
  \cup [op: {"redeem", "redeeming"}, piece: Piece, actor: User]
  \cup [op: {"request"}, piece: Piece, from: User, to: User]
  \cup [op: {"accepting"}, transfer: TransferId, closes: SUBSET Nat]
  \cup [op: {"report"}, piece: Piece, type: IncidentType]
  \cup [op: {"addReport", "review"}, incident: IncidentId]
  \cup [op: {"close"}, incident: IncidentId,
        outcome: {"RECOVERED", "RESOLVED"}]
  \cup [op: {"complete"}, service: ServiceId, free: BOOLEAN]

IsIdle(w) == req[w] = Idle
Serve(w, r) == req' = [req EXCEPT ![w] = r]
Finish(w) == Serve(w, Idle)

-----------------------------------------------------------------------------
(* Queries the services share *)

OpenRows(p) == {k \in 1..Len(rows[p]) : rows[p][k].open}

IsOwner(p, u) == \E k \in OpenRows(p) : rows[p][k].owner = u

PendingOn(p) ==
  {t \in TransferId : transfer[t].status = "PENDING" /\ transfer[t].piece = p}

OpenIncidentStatus == {"ACTIVE", "UNDER_REVIEW"}

OpenIncidents(p) ==
  {i \in IncidentId : /\ incident[i].status \in OpenIncidentStatus
                      /\ incident[i].piece = p}

HasOpenIncident(p) == OpenIncidents(p) # {}

-----------------------------------------------------------------------------
(* The seeded database: no piece registered yet. *)

StoreInit ==
  /\ status = [p \in Piece |-> "UNREGISTERED"]
  /\ sale = [p \in Piece |-> None]
  /\ claim = [p \in Piece |-> NoClaim]
  /\ rows = [p \in Piece |-> <<>>]
  /\ transfer = [t \in TransferId |-> Absent]
  /\ incident = [i \in IncidentId |-> Absent]
  /\ service = [s \in ServiceId |-> Absent]
  /\ req = [w \in Worker |-> Idle]

\* Every table holds rows of its type and every slot a well-formed request.
TypeOK ==
  /\ status \in [Piece -> PieceStatus \cup {"UNREGISTERED"}]
  /\ sale \in [Piece -> User \cup {None}]
  /\ claim \in [Piece -> Claim]
  /\ rows \in [Piece -> Seq(OwnershipRow)]
  /\ transfer \in [TransferId -> TransferRow \cup {Absent}]
  /\ incident \in [IncidentId -> IncidentRow \cup {Absent}]
  /\ service \in [ServiceId -> ServiceRow \cup {Absent}]
  /\ req \in [Worker -> Request]
=============================================================================
