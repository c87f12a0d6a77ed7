------------------------------ MODULE Transfers ------------------------------
(***************************************************************************)
(* api/src/transfers/transfers.service.ts: passing a piece on.  At most one *)
(* PENDING transfer per piece (partial unique index); accept runs in one    *)
(* transaction that holds the lock of the transfer's row.                   *)
(***************************************************************************)
EXTENDS Store

NonTransferable == {"RETIRED", "LOST", "REPORTED_STOLEN"}

\* WHERE status = 'PENDING' AND expires_at > now()
\* Mutant: the update does not repeat the check of the status.
AnswerableAny(t) == transfer[t] # Absent /\ ~transfer[t].overdue
Answerable(t) == transfer[t].status = "PENDING" /\ ~transfer[t].overdue

\* An open accept transaction holds the lock of the transfer's row.
\* Mutant: the transfer is read and accepted without a conditional update.
TransferNeverLocked(t) == FALSE
TransferLocked(t) ==
  \E w \in Worker : req[w].op = "accepting" /\ req[w].transfer = t

\* accept: the active owner is still the one who asked for the transfer.
\* Mutant: that there is an owner is enough.
AnyOwner(t) == OpenRows(transfer[t].piece) # {}
StillOwner(t) == IsOwner(transfer[t].piece, transfer[t].from)

\* WHERE status = 'PENDING', of a transfer whose expires_at has passed.
\* Mutant: the expiry does not repeat the check of the status.
LapsedAny(t) == transfer[t] # Absent /\ transfer[t].overdue
Lapsed(t) == transfer[t].status = "PENDING" /\ transfer[t].overdue

\* uq_ownership_transfers_one_pending_per_piece lets a transfer be added.
\* Mutant: no partial index.
NoIndex(p) == TRUE
IndexFree(p) == PendingOn(p) = {}

\* Mutant: superseded rows are deleted instead of closed.
Deleted(h, closes) == SelectSeq(h, LAMBDA r : ~r.open)

\* What the update of ownership_records does: end_date on the rows closes.
Closed(h, closes) ==
  [k \in 1..Len(h) |-> IF k \in closes THEN [h[k] EXCEPT !.open = FALSE]
                                       ELSE h[k]]

-----------------------------------------------------------------------------
(* request: the reads and checks, then the insert.  The caller is the owner *)
(* or staff acting for the owner, and may not name itself as recipient.     *)

RequestCheck(w, p, from, to) ==
  /\ IsIdle(w)
  /\ status[p] \in PieceStatus \ NonTransferable
  /\ ~HasOpenIncident(p)
  /\ IsOwner(p, from)
  /\ \E caller \in {from} \cup Staff : caller # to
  /\ Serve(w, [op |-> "request", piece |-> p, from |-> from, to |-> to])
  /\ UNCHANGED <<status, sale, claim, rows, transfer, incident, service>>

RequestCreate(w, t) ==
  /\ req[w].op = "request"
  /\ transfer[t] = Absent
  /\ IndexFree(req[w].piece)
  /\ transfer' = [transfer EXCEPT ![t] =
       [status |-> "PENDING", piece |-> req[w].piece, from |-> req[w].from,
        to |-> req[w].to, overdue |-> FALSE]]
  /\ Finish(w)
  /\ UNCHANGED <<status, sale, claim, rows, incident, service>>

\* Mutant: the handler retries until the index is free.
RequestRetries(w) ==
  /\ req[w].op = "request"
  /\ IndexFree(req[w].piece)
  /\ \A t \in TransferId : transfer[t] # Absent
  /\ Finish(w)
  /\ UNCHANGED <<status, sale, claim, rows, transfer, incident, service>>

\* P2002 on the partial index, once no open transaction can still free it; or
\* the index is free and the model has no identifier left (bound).
RequestConflict(w) ==
  /\ req[w].op = "request"
  /\ \/ \E t \in PendingOn(req[w].piece) : ~TransferLocked(t)
     \/ /\ IndexFree(req[w].piece)
        /\ \A t \in TransferId : transfer[t] # Absent
  /\ Finish(w)
  /\ UNCHANGED <<status, sale, claim, rows, transfer, incident, service>>

-----------------------------------------------------------------------------
(* accept: the statements of the transaction, then its commit. *)

AcceptExec(w, t) ==
  /\ IsIdle(w)
  /\ ~TransferLocked(t)
  /\ Answerable(t)
  /\ StillOwner(t)
  /\ Serve(w, [op |-> "accepting", transfer |-> t,
               closes |-> OpenRows(transfer[t].piece)])
  /\ UNCHANGED <<status, sale, claim, rows, transfer, incident, service>>

AcceptCommit(w) ==
  LET t == req[w].transfer
      p == transfer[t].piece
  IN
  /\ req[w].op = "accepting"
  /\ transfer' = [transfer EXCEPT ![t].status = "ACCEPTED"]
  /\ rows' = [rows EXCEPT ![p] =
       Append(Closed(@, req[w].closes),
              [owner |-> transfer[t].to, transfer |-> t, open |-> TRUE])]
  /\ Finish(w)
  /\ UNCHANGED <<status, sale, claim, incident, service>>

-----------------------------------------------------------------------------
(* reject and cancel: one conditional update that repeats the check of      *)
(* loadPending, so the whole handler is one step.                           *)

Settle(t, outcome) ==
  /\ ~TransferLocked(t)
  /\ Answerable(t)
  /\ transfer' = [transfer EXCEPT ![t].status = outcome]
  /\ UNCHANGED <<status, sale, claim, rows, incident, service, req>>

Reject(t) == Settle(t, "REJECTED")
Cancel(t) == Settle(t, "CANCELLED")

\* loadPending, in any of the three handlers and for any caller, marks an
\* overdue transfer EXPIRED.  Nothing else ever does.
Expire(t) ==
  /\ ~TransferLocked(t)
  /\ Lapsed(t)
  /\ transfer' = [transfer EXCEPT ![t].status = "EXPIRED"]
  /\ UNCHANGED <<status, sale, claim, rows, incident, service, req>>

\* Seven days pass.
TransferLapses(t) ==
  /\ Answerable(t)
  /\ transfer' = [transfer EXCEPT ![t].overdue = TRUE]
  /\ UNCHANGED <<status, sale, claim, rows, incident, service, req>>

TransferNext ==
  \/ \E w \in Worker :
       \/ \E p \in Piece, from, to \in User : RequestCheck(w, p, from, to)
       \/ \E t \in TransferId : RequestCreate(w, t) \/ AcceptExec(w, t)
       \/ RequestConflict(w)
       \/ AcceptCommit(w)
  \/ \E t \in TransferId : Reject(t) \/ Cancel(t) \/ Expire(t)
                           \/ TransferLapses(t)
=============================================================================
