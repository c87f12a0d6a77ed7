------------------------------- MODULE Claims --------------------------------
(***************************************************************************)
(* api/src/claims/claims.service.ts: the buyer redeems the claim code and   *)
(* becomes the first owner.  The checks run outside the transaction; the    *)
(* transaction flips the claim with a conditional update (taking the lock   *)
(* of its row) and inserts the ownership row past the trigger.              *)
(***************************************************************************)
EXTENDS Store

\* WHERE status = 'PENDING' AND expires_at > now()
Redeemable(p) == claim[p].status = "PENDING" /\ ~claim[p].overdue

ClaimLocked(p) ==
  \E w \in Worker : req[w].op = "redeeming" /\ req[w].piece = p

\* trg_enforce_single_active_owner takes no lock: it sees committed rows only.
TriggerPasses(p) == OpenRows(p) = {}

RedeemCheck(w, p) ==
  /\ IsIdle(w)
  /\ Redeemable(p)
  /\ status[p] = "SOLD"
  /\ PendingOn(p) = {}
  /\ Serve(w, [op |-> "redeem", piece |-> p, actor |-> sale[p]])
  /\ UNCHANGED <<status, sale, claim, rows, transfer, incident, service>>

RedeemExec(w) ==
  LET p == req[w].piece IN
  /\ req[w].op = "redeem"
  /\ ~ClaimLocked(p)
  /\ Redeemable(p)
  /\ TriggerPasses(p)
  /\ Serve(w, [req[w] EXCEPT !.op = "redeeming"])
  /\ UNCHANGED <<status, sale, claim, rows, transfer, incident, service>>

\* The conditional update matches no row, or the trigger raises.
RedeemRefused(w) ==
  LET p == req[w].piece IN
  /\ req[w].op = "redeem"
  /\ ~ClaimLocked(p)
  /\ ~(Redeemable(p) /\ TriggerPasses(p))
  /\ Finish(w)
  /\ UNCHANGED <<status, sale, claim, rows, transfer, incident, service>>

RedeemCommit(w) ==
  LET p == req[w].piece IN
  /\ req[w].op = "redeeming"
  /\ claim' = [claim EXCEPT ![p].status = "USED"]
  /\ rows' = [rows EXCEPT ![p] =
       Append(@, [owner |-> req[w].actor, transfer |-> None, open |-> TRUE])]
  /\ Finish(w)
  /\ UNCHANGED <<status, sale, transfer, incident, service>>

\* Thirty days pass.
ClaimLapses(p) ==
  /\ claim[p].status = "PENDING" /\ ~claim[p].overdue
  /\ claim' = [claim EXCEPT ![p].overdue = TRUE]
  /\ UNCHANGED <<status, sale, rows, transfer, incident, service, req>>

ClaimNext ==
  \/ \E w \in Worker :
       \/ \E p \in Piece : RedeemCheck(w, p)
       \/ RedeemExec(w)
       \/ RedeemRefused(w)
       \/ RedeemCommit(w)
  \/ \E p \in Piece : ClaimLapses(p)
=============================================================================
