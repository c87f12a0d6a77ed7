------------------------------ MODULE Services -------------------------------
(***************************************************************************)
(* api/src/services/services.service.ts: service orders, REQUESTED ->       *)
(* IN_PROGRESS -> COMPLETED, or CANCELLED from REQUESTED, each by a         *)
(* conditional update.  complete reads the piece's status in its            *)
(* transaction and then writes it by primary key.                           *)
(***************************************************************************)
EXTENDS Store

\* WHERE status IN ('REQUESTED', 'IN_PROGRESS')
Completable(s) == service[s].status \in {"REQUESTED", "IN_PROGRESS"}

\* Mutant: complete checks the order first and writes it unconditionally.
OrderNeverLocked(s) == FALSE

\* An open complete transaction holds the lock of the order's row.
ServiceLocked(s) ==
  \E w \in Worker : req[w].op = "complete" /\ req[w].service = s

Create(p, s) ==
  /\ service[s] = Absent
  /\ status[p] \in PieceStatus \ {"RETIRED"}
  /\ service' = [service EXCEPT ![s] = [status |-> "REQUESTED", piece |-> p]]
  /\ UNCHANGED <<status, sale, claim, rows, transfer, incident, req>>

Start(s) ==
  LET p == service[s].piece IN
  /\ ~ServiceLocked(s)
  /\ service[s].status = "REQUESTED"
  /\ service' = [service EXCEPT ![s].status = "IN_PROGRESS"]
  /\ status' = [status EXCEPT ![p] =
       IF @ \in {"IN_STOCK", "AVAILABLE"} THEN "IN_SERVICE" ELSE @]
  /\ UNCHANGED <<sale, claim, rows, transfer, incident, req>>

CompleteExec(w, s) ==
  /\ IsIdle(w)
  /\ ~ServiceLocked(s)
  /\ Completable(s)
  /\ Serve(w, [op |-> "complete", service |-> s,
               free |-> status[service[s].piece] = "IN_SERVICE"])
  /\ UNCHANGED <<status, sale, claim, rows, transfer, incident, service>>

CompleteCommit(w) ==
  LET s == req[w].service IN
  /\ req[w].op = "complete"
  /\ service' = [service EXCEPT ![s].status = "COMPLETED"]
  /\ status' = [status EXCEPT ![service[s].piece] =
       IF req[w].free THEN "AVAILABLE" ELSE @]
  /\ Finish(w)
  /\ UNCHANGED <<sale, claim, rows, transfer, incident>>

CancelOrder(s) ==
  /\ ~ServiceLocked(s)
  /\ service[s].status = "REQUESTED"
  /\ service' = [service EXCEPT ![s].status = "CANCELLED"]
  /\ UNCHANGED <<status, sale, claim, rows, transfer, incident, req>>

ServiceNext ==
  \/ \E s \in ServiceId :
       \/ \E p \in Piece : Create(p, s)
       \/ Start(s)
       \/ CancelOrder(s)
       \/ \E w \in Worker : CompleteExec(w, s)
  \/ \E w \in Worker : CompleteCommit(w)
=============================================================================
