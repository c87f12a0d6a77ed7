-------------------------------- MODULE Sales --------------------------------
(***************************************************************************)
(* api/src/sales/sales.service.ts: selling a piece in the shop.  The sale   *)
(* does not make the buyer the owner; it issues the claim that will.        *)
(***************************************************************************)
EXTENDS Store

\* sales_piece_id_key lets the piece be sold.
\* Mutant: no unique index, only the status says whether it was sold.
UnsoldByStatus(p) == status[p] # "SOLD"
Unsold(p) == sale[p] = None

\* The reads of the transaction.
SaleCheck(w, p, u) ==
  /\ IsIdle(w)
  /\ status[p] \in {"IN_STOCK", "AVAILABLE"}
  /\ PendingOn(p) = {}
  /\ Serve(w, [op |-> "sale", piece |-> p, buyer |-> u])
  /\ UNCHANGED <<status, sale, claim, rows, transfer, incident, service>>

\* The claim expires 30 days after the saleDate the clerk typed in, which may
\* lie in the past: the claim can be born overdue.
SaleCommit(w) ==
  LET p == req[w].piece IN
  /\ req[w].op = "sale"
  /\ Unsold(p)
  /\ sale' = [sale EXCEPT ![p] = req[w].buyer]
  /\ \E late \in BOOLEAN :
       claim' = [claim EXCEPT ![p] = [status |-> "PENDING", overdue |-> late]]
  /\ status' = [status EXCEPT ![p] = "SOLD"]
  /\ Finish(w)
  /\ UNCHANGED <<rows, transfer, incident, service>>

\* P2002 on sales_piece_id_key: the transaction rolls back.
SaleConflict(w) ==
  /\ req[w].op = "sale"
  /\ ~Unsold(req[w].piece)
  /\ Finish(w)
  /\ UNCHANGED <<status, sale, claim, rows, transfer, incident, service>>

SaleNext ==
  \E w \in Worker :
    \/ \E p \in Piece, u \in User : SaleCheck(w, p, u)
    \/ SaleCommit(w)
    \/ SaleConflict(w)
=============================================================================
