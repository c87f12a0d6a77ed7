-------------------------------- MODULE Outbox -------------------------------
(***************************************************************************)
(* What webhooks promise about their deliveries, with no runners, claims or *)
(* clocks: a delivery is entered once; it is sent by who has it in hand,    *)
(* one at a time, once for each time it is taken in hand; SUCCESS says that *)
(* the receiver accepted it, and is final.  What waits or has failed may be *)
(* taken in hand, again and again (webhooks.service.ts:185); nothing here   *)
(* says that it is.                                                         *)
(***************************************************************************)
EXTENDS Naturals

CONSTANT Delivery

VARIABLES
  log,       \* what the table says of each delivery
  taken,     \* in somebody's hand, and not sent in this attempt
  answered,  \* in somebody's hand, sent and accepted by the receiver
  failing,   \* in somebody's hand, and this attempt has failed
  sent,      \* how often each has been sent
  closed     \* the webhook is removed

outbox == <<log, taken, answered, failing, sent, closed>>
hands == <<taken, answered, failing>>

Init ==
  /\ log = [d \in Delivery |-> "absent"]
  /\ taken = {} /\ answered = {} /\ failing = {}
  /\ sent = [d \in Delivery |-> 0] /\ closed = FALSE

InHand == taken \cup answered \cup failing

Drop(d) ==
  taken' = taken \ {d} /\ answered' = answered \ {d} /\ failing' = failing \ {d}

Enter(d) ==
  /\ ~closed /\ log[d] = "absent"
  /\ log' = [log EXCEPT ![d] = "PENDING"]
  /\ UNCHANGED <<hands, sent, closed>>

Take(d) ==
  /\ log[d] \in {"PENDING", "FAILED"} /\ d \notin InHand
  /\ log' = [log EXCEPT ![d] = "DELIVERING"] /\ taken' = taken \cup {d}
  /\ UNCHANGED <<answered, failing, sent, closed>>

\* Also when the webhook was removed in the meantime.
Send(d) ==
  /\ d \in taken /\ taken' = taken \ {d}
  /\ \/ answered' = answered \cup {d} /\ UNCHANGED failing
     \/ failing' = failing \cup {d} /\ UNCHANGED answered
  /\ sent' = [sent EXCEPT ![d] = @ + 1]
  /\ UNCHANGED <<log, closed>>

\* The receiver is refused before it is sent anything, or its answer is lost.
Fail(d) ==
  /\ d \in taken \cup answered
  /\ taken' = taken \ {d} /\ answered' = answered \ {d}
  /\ failing' = failing \cup {d}
  /\ UNCHANGED <<log, sent, closed>>

Store(d) ==
  /\ log[d] = "DELIVERING"
  /\ \/ d \in taken /\ log' = [log EXCEPT ![d] = "CANCELLED"]
     \/ d \in answered /\ log' = [log EXCEPT ![d] = "SUCCESS"]
     \/ d \in failing /\ log' = [log EXCEPT ![d] = "FAILED"]
  /\ Drop(d)
  /\ UNCHANGED <<sent, closed>>

LetGo(d) ==
  /\ d \in InHand /\ Drop(d)
  /\ UNCHANGED <<log, sent, closed>>

\* Everything that waits, or has failed, is cancelled together.
Cancel ==
  /\ log' = [d \in Delivery |-> IF log[d] \in {"PENDING", "FAILED"}
                                  THEN "CANCELLED" ELSE log[d]]
  /\ UNCHANGED <<hands, sent, closed>>

Close ==
  /\ ~closed /\ closed' = TRUE /\ log' = [d \in Delivery |-> "absent"]
  /\ UNCHANGED <<hands, sent>>

Next ==
  \/ \E d \in Delivery :
       Enter(d) \/ Take(d) \/ Send(d) \/ Fail(d) \/ Store(d) \/ LetGo(d)
  \/ Cancel \/ Close

Spec == Init /\ [][Next]_outbox
=============================================================================
