------------------------------- MODULE Pieces --------------------------------
(***************************************************************************)
(* api/src/pieces/pieces.service.ts: registration and the status changes    *)
(* staff make by hand.  Both status handlers read the piece, check, and     *)
(* then write by primary key without repeating the check.                   *)
(***************************************************************************)
EXTENDS Store

AllowedTransitions ==
  [IN_STOCK |-> {"AVAILABLE", "IN_SERVICE", "RETIRED"},
   AVAILABLE |-> {"IN_STOCK", "IN_SERVICE", "RETIRED"},
   IN_SERVICE |-> {"IN_STOCK", "AVAILABLE"},
   SOLD |-> {}, REPORTED_STOLEN |-> {}, LOST |-> {}, RETIRED |-> {}]

Retirable == {"IN_STOCK", "AVAILABLE", "IN_SERVICE"}

\* The piece, its digital identity (ACTIVE for ever) and its first QR code are
\* created in one transaction.
Register(p) ==
  /\ status[p] = "UNREGISTERED"
  /\ status' = [status EXCEPT ![p] = "IN_STOCK"]
  /\ UNCHANGED <<sale, claim, rows, transfer, incident, service, req>>

UpdateStatusLoad(w, p, s) ==
  /\ IsIdle(w)
  /\ status[p] \in PieceStatus
  /\ s \in AllowedTransitions[status[p]]
  /\ Serve(w, [op |-> "setStatus", piece |-> p, target |-> s])
  /\ UNCHANGED <<status, sale, claim, rows, transfer, incident, service>>

RetireLoad(w, p) ==
  /\ IsIdle(w)
  /\ status[p] \in Retirable
  /\ Serve(w, [op |-> "setStatus", piece |-> p, target |-> "RETIRED"])
  /\ UNCHANGED <<status, sale, claim, rows, transfer, incident, service>>

\* The write of updateStatus and of retire: whatever the status is by now.
SetStatus(w) ==
  /\ req[w].op = "setStatus"
  /\ status' = [status EXCEPT ![req[w].piece] = req[w].target]
  /\ Finish(w)
  /\ UNCHANGED <<sale, claim, rows, transfer, incident, service>>

PieceNext ==
  \/ \E p \in Piece : Register(p)
  \/ \E w \in Worker, p \in Piece :
       \/ \E s \in PieceStatus : UpdateStatusLoad(w, p, s)
       \/ RetireLoad(w, p)
  \/ \E w \in Worker : SetStatus(w)
=============================================================================
