---------------------------- MODULE TitleRegistry ----------------------------
(***************************************************************************)
(* What the platform promises about title to a piece, with no requests, row *)
(* locks or transactions: a piece is sold once; its buyer becomes the first *)
(* holder; after that title moves only when the offer standing on the piece *)
(* is taken up, and only if the offer came from the present holder.         *)
(***************************************************************************)
EXTENDS Naturals, Sequences

CONSTANTS Piece, User, Nobody

VARIABLES
  buyer,     \* who bought the piece, or Nobody
  holders,   \* everyone who has held title, in order; the last one holds it
  offer      \* the standing offer of each piece: a set of at most one

registry == <<buyer, holders, offer>>

Offer == [from: User, to: User]

Init ==
  /\ buyer = [p \in Piece |-> Nobody]
  /\ holders = [p \in Piece |-> <<>>]
  /\ offer = [p \in Piece |-> {}]

Sell(p, u) ==
  /\ buyer[p] = Nobody
  /\ buyer' = [buyer EXCEPT ![p] = u]
  /\ UNCHANGED <<holders, offer>>

Claim(p) ==
  /\ buyer[p] # Nobody
  /\ holders[p] = <<>>
  /\ holders' = [holders EXCEPT ![p] = <<buyer[p]>>]
  /\ UNCHANGED <<buyer, offer>>

\* The offer may come from a former holder: the caller was checked against
\* the holder of a moment ago.
MakeOffer(p, o) ==
  /\ offer[p] = {}
  /\ \E k \in 1..Len(holders[p]) : holders[p][k] = o.from
  /\ offer' = [offer EXCEPT ![p] = {o}]
  /\ UNCHANGED <<buyer, holders>>

Withdraw(p) ==
  /\ offer[p] # {}
  /\ offer' = [offer EXCEPT ![p] = {}]
  /\ UNCHANGED <<buyer, holders>>

Convey(p) ==
  \E o \in offer[p] :
    /\ holders[p] # <<>>
    /\ o.from = holders[p][Len(holders[p])]
    /\ holders' = [holders EXCEPT ![p] = Append(@, o.to)]
    /\ offer' = [offer EXCEPT ![p] = {}]
    /\ UNCHANGED buyer

Next ==
  \E p \in Piece :
    \/ \E u \in User : Sell(p, u)
    \/ Claim(p)
    \/ \E o \in Offer : MakeOffer(p, o)
    \/ Withdraw(p)
    \/ Convey(p)

Spec == Init /\ [][Next]_registry
=============================================================================
