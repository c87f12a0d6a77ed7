------------------------------ MODULE Webhooks -------------------------------
(***************************************************************************)
(* api/src/webhooks: the deliveries of one webhook.  The handler of an      *)
(* event creates a delivery and attempts it; a tick of the worker (or a     *)
(* call of the cron endpoint) and a request for the list of deliveries      *)
(* attempt what is due.  All of them run concurrently and claim a delivery  *)
(* by a conditional update.                                                 *)
(***************************************************************************)
EXTENDS Integers, FiniteSets

CONSTANTS
  MaxDeliveries,  \* bound: deliveries 1, 2, ... in order of creation
  Ticker,         \* runs of DeliveryWorker.tick, or of the cron endpoint
  Caller,         \* handlers of an event, and requests for the deliveries
  MaxFailures,    \* MAX_FAILURES_BEFORE_DISABLE
  MaxAttempts,    \* MAX_ATTEMPTS
  Batch,          \* how many due deliveries a flush takes
  MaxCrashes,     \* bound: attempts and flushes that break off
  MaxUpdates      \* bound: changes of isActive by the owner

ASSUME WebhooksAssumption ==
  /\ {MaxDeliveries, MaxCrashes, MaxUpdates} \subseteq Nat
  /\ {MaxFailures, MaxAttempts, Batch} \subseteq Nat \ {0}

VARIABLES
  delivery,  \* webhook_deliveries, or Absent
  active,    \* webhooks.is_active
  failures,  \* webhooks.failure_count
  removed,   \* the owner has deleted the webhook
  at,        \* where each runner is
  todo,      \* the deliveries a runner has yet to attempt
  disable,   \* what markFailed has decided
  posts,     \* history: how often a delivery has been sent
  crashes, updates

vars == <<delivery, active, failures, removed, at, todo, disable, posts,
          crashes, updates>>
hook == <<active, failures, removed>>
bounds == <<crashes, updates>>

Delivery == 1..MaxDeliveries
Runner == Ticker \cup Caller

\* next: nextAttemptAt is null, in the future, or past.
Row == [status: {"PENDING", "DELIVERING", "SUCCESS", "FAILED", "CANCELLED"},
        attempts: Nat, next: {"never", "later", "now"}]
Absent == [status |-> "absent"]

NewDelivery == [status |-> "PENDING", attempts |-> 0, next |-> "never"]

Status(d) == delivery[d].status

Init ==
  /\ delivery = [d \in Delivery |-> Absent]
  /\ active = TRUE /\ failures = 0 /\ removed = FALSE
  /\ at = [w \in Runner |-> "idle"]
  /\ todo = [w \in Runner |-> {}]
  /\ disable = [w \in Runner |-> FALSE]
  /\ posts = [d \in Delivery |-> 0]
  /\ crashes = 0 /\ updates = 0

Goto(w, label) == at' = [at EXCEPT ![w] = label]

\* The delivery a runner is at: the oldest it has yet to attempt.
Current(w, d) == d \in todo[w] /\ \A e \in todo[w] : d <= e

\* attempt returns: on to the next delivery.
Finish(w, d) ==
  /\ todo' = [todo EXCEPT ![w] = @ \ {d}]
  /\ Goto(w, IF todo[w] = {d} THEN "idle" ELSE "claim")

\* An exception leaves the loop; the other deliveries stay as they are.
BreakOff(w) ==
  /\ todo' = [todo EXCEPT ![w] = {}]
  /\ Goto(w, "idle")

-----------------------------------------------------------------------------
(* Who attempts what *)

\* enqueueDelivery: the active webhooks are read, then a delivery is created.
Publish(w) ==
  /\ w \in Caller /\ at[w] = "idle"
  /\ active /\ ~removed
  /\ \E d \in Delivery : delivery[d] = Absent
  /\ Goto(w, "create")
  /\ UNCHANGED <<delivery, hook, todo, disable, posts, bounds>>

Create(w, d) ==
  /\ at[w] = "create" /\ ~removed
  /\ delivery[d] = Absent /\ \A e \in 1..(d - 1) : delivery[e] # Absent
  /\ delivery' = [delivery EXCEPT ![d] = NewDelivery]
  /\ todo' = [todo EXCEPT ![w] = {d}]
  /\ Goto(w, "claim")
  /\ UNCHANGED <<hook, disable, posts, bounds>>

\* The webhook is gone (a foreign key error), or the bound is reached.
CreateFails(w) ==
  /\ at[w] = "create"
  /\ removed \/ \A d \in Delivery : delivery[d] # Absent
  /\ BreakOff(w)
  /\ UNCHANGED <<delivery, hook, disable, posts, bounds>>

\* Mutant: a delivery under way is cancelled too.
StaleAny == {"PENDING", "FAILED", "DELIVERING"}
Stale == {"PENDING", "FAILED"}

\* tick, flush: cancelStaleDeliveries first.
Tick(w) ==
  /\ w \in Ticker /\ at[w] = "idle"
  /\ delivery' = [d \in Delivery |->
       IF ~active /\ Status(d) \in Stale
       THEN [delivery[d] EXCEPT !.status = "CANCELLED"] ELSE delivery[d]]
  /\ Goto(w, "flush")
  /\ UNCHANGED <<hook, todo, disable, posts, bounds>>

\* deliveries: the list is preceded by a flush.
List(w) ==
  /\ w \in Caller /\ at[w] = "idle" /\ ~removed
  /\ Goto(w, "flush")
  /\ UNCHANGED <<delivery, hook, todo, disable, posts, bounds>>

Overdue(d) == Status(d) = "FAILED" /\ delivery[d].next = "now"

\* Mutant: only failed deliveries are due.
DueFailed == {d \in Delivery : active /\ Overdue(d)}
Due == {d \in Delivery : active /\ (Status(d) = "PENDING" \/ Overdue(d))}

\* flushDueDeliveries: the oldest that are due.
Select(w) ==
  /\ at[w] = "flush"
  /\ LET batch == {d \in Due : Cardinality({e \in Due : e <= d}) <= Batch}
     IN /\ todo' = [todo EXCEPT ![w] = batch]
        /\ Goto(w, IF batch = {} THEN "idle" ELSE "claim")
  /\ UNCHANGED <<delivery, hook, disable, posts, bounds>>

-----------------------------------------------------------------------------
(* attempt *)

\* Mutant: the row is claimed by id.
ClaimableAny(d) == delivery[d] # Absent
\* Mutant: a delivery somebody has claimed is taken over.
ClaimableStuck(d) == Status(d) \in {"PENDING", "DELIVERING"}
Claimable(d) == Status(d) = "PENDING"

Claim(w, d) ==
  /\ at[w] = "claim" /\ Current(w, d)
  /\ \/ /\ Claimable(d)
        /\ delivery' = [delivery EXCEPT ![d].status = "DELIVERING"]
        /\ Goto(w, "load")
        /\ UNCHANGED todo
     \/ /\ ~Claimable(d)
        /\ Finish(w, d)
        /\ UNCHANGED delivery
  /\ UNCHANGED <<hook, disable, posts, bounds>>

\* Mutant: isActive is not looked at again.
LoadAnyway(w, d) ==
  /\ at[w] = "load" /\ Current(w, d) /\ ~removed
  /\ Goto(w, "post")
  /\ UNCHANGED <<delivery, hook, todo, disable, posts, bounds>>

Load(w, d) ==
  /\ at[w] = "load" /\ Current(w, d)
  /\ \/ /\ active
        /\ Goto(w, "post")
        /\ UNCHANGED <<delivery, todo>>
     \/ /\ ~active /\ ~removed
        /\ delivery' = [delivery EXCEPT ![d].status = "CANCELLED"]
        /\ Finish(w, d)
     \/ /\ removed
        /\ Finish(w, d)
        /\ UNCHANGED delivery
  /\ UNCHANGED <<hook, disable, posts, bounds>>

\* The target is refused, or the request is sent and answered 2xx, answered
\* otherwise, or not answered in time.
Post(w, d) ==
  /\ at[w] = "post" /\ Current(w, d)
  /\ \/ Goto(w, "failed") /\ UNCHANGED posts
     \/ \E result \in {"sent", "failed"} :
          Goto(w, result) /\ posts' = [posts EXCEPT ![d] = @ + 1]
  /\ UNCHANGED <<delivery, hook, todo, disable, bounds>>

\* Mutant: a success does not count as an attempt.
StoredUncounted(d) ==
  [status |-> "SUCCESS", attempts |-> delivery[d].attempts, next |-> "never"]
Stored(d) ==
  [status |-> "SUCCESS", attempts |-> delivery[d].attempts + 1, next |-> "never"]

\* The outcome is stored; when that throws, the catch marks it failed.
Succeed(w, d) ==
  /\ at[w] = "sent" /\ Current(w, d)
  /\ \/ /\ ~removed
        /\ delivery' = [delivery EXCEPT ![d] = Stored(d)]
        /\ failures' = 0
        /\ Finish(w, d)
     \/ /\ Goto(w, "failed")
        /\ UNCHANGED <<delivery, failures, todo>>
  /\ UNCHANGED <<active, removed, disable, posts, bounds>>

\* markFailed: the failure is counted first; the attempts of a claimed
\* delivery are nobody else's to change.
CountFailure(w, d) ==
  /\ at[w] = "failed" /\ Current(w, d)
  /\ \/ /\ ~removed
        /\ failures' = failures + 1
        /\ disable' = [disable EXCEPT ![w] =
             failures + 1 >= MaxFailures \/ delivery[d].attempts + 1 >= MaxAttempts]
        /\ Goto(w, "mark")
        /\ UNCHANGED todo
     \/ /\ removed
        /\ BreakOff(w)
        /\ UNCHANGED <<failures, disable>>
  /\ UNCHANGED <<delivery, active, removed, posts, bounds>>

MarkFailed(w, d) ==
  /\ at[w] = "mark" /\ Current(w, d)
  /\ \/ /\ ~removed
        /\ delivery' = [delivery EXCEPT ![d] =
             [status |-> "FAILED", attempts |-> @.attempts + 1,
              next |-> IF disable[w] THEN "never" ELSE "later"]]
        /\ active' = ~disable[w]
        /\ Finish(w, d)
     \/ /\ removed
        /\ BreakOff(w)
        /\ UNCHANGED <<delivery, active>>
  /\ UNCHANGED <<failures, removed, disable, posts, bounds>>

-----------------------------------------------------------------------------
(* The owner, the clock, and failures *)

\* update; url, events and secret change nothing here.
Update ==
  /\ ~removed /\ updates < MaxUpdates
  /\ active' = ~active /\ updates' = updates + 1
  /\ UNCHANGED <<delivery, failures, removed, at, todo, disable, posts, crashes>>

\* remove: the deliveries go with the webhook.
Remove ==
  /\ ~removed
  /\ removed' = TRUE /\ active' = FALSE
  /\ delivery' = [d \in Delivery |-> Absent]
  /\ UNCHANGED <<failures, at, todo, disable, posts, bounds>>

\* The back-off of a failed delivery is over.
Elapse(d) ==
  /\ Status(d) = "FAILED" /\ delivery[d].next = "later"
  /\ delivery' = [delivery EXCEPT ![d].next = "now"]
  /\ UNCHANGED <<hook, at, todo, disable, posts, bounds>>

\* The process dies, or a database error leaves the loop.
Crash(w) ==
  /\ at[w] # "idle" /\ crashes < MaxCrashes
  /\ BreakOff(w) /\ crashes' = crashes + 1
  /\ UNCHANGED <<delivery, hook, disable, posts, updates>>

Attempt(w) ==
  \E d \in Delivery : Claim(w, d) \/ Load(w, d) \/ Post(w, d) \/ Succeed(w, d)
                      \/ CountFailure(w, d) \/ MarkFailed(w, d)

Proceed(w) == \/ \E d \in Delivery : Create(w, d)
              \/ CreateFails(w) \/ Select(w) \/ Attempt(w)

Next == \/ \E w \in Runner : Proceed(w) \/ Publish(w) \/ Tick(w) \/ List(w)
                             \/ Crash(w)
        \/ \E d \in Delivery : Elapse(d)
        \/ Update \/ Remove

Spec == Init /\ [][Next]_vars

\* Continuations run, and the timer (or the cron) fires.
FairSpec ==
  /\ Spec
  /\ \A w \in Runner : WF_vars(Proceed(w))
  /\ \A w \in Ticker : WF_vars(Tick(w))

-----------------------------------------------------------------------------
(* Properties *)

\* Every delivery, runner and counter is well formed.
TypeOK ==
  /\ delivery \in [Delivery -> Row \cup {Absent}]
  /\ active \in BOOLEAN /\ removed \in BOOLEAN /\ failures \in Nat
  /\ at \in [Runner -> {"idle", "create", "flush", "claim", "load", "post",
                         "sent", "failed", "mark"}]
  /\ todo \in [Runner -> SUBSET Delivery]
  /\ disable \in [Runner -> BOOLEAN]
  /\ posts \in [Delivery -> Nat]
  /\ crashes \in Nat /\ updates \in Nat

\* A runner that has claimed its delivery and is not done with it.
Delivers(w, d) ==
  at[w] \in {"load", "post", "sent", "failed", "mark"} /\ Current(w, d)

\* Two runners never deliver the same delivery at a time: the receiver does not
\* get an event twice because the event's handler, the worker and a request
\* for the list met.
OneSender ==
  \A d \in Delivery, v, w \in Runner : Delivers(v, d) /\ Delivers(w, d) => v = w

\* What was sent is on record: a delivery was sent once for each attempt it
\* counts, and once more at most while an attempt is under way or broke off.
\* So a delivery that waits to be sent was never sent without a trace.
PostsAreCounted ==
  \A d \in Delivery : delivery[d] # Absent =>
    posts[d] <= delivery[d].attempts + (IF Status(d) = "DELIVERING" THEN 1 ELSE 0)

\* A delivery that has succeeded or was cancelled stays so, whoever comes late,
\* until the webhook is deleted.
OutcomeIsFinal ==
  [][\A d \in Delivery : Status(d) \in {"SUCCESS", "CANCELLED"} =>
       delivery'[d] = delivery[d] \/ removed']_vars

\* The deliveries in the hand of a runner that is at one of labels.
Held(labels) ==
  {d \in Delivery : \E w \in Runner : Delivers(w, d) /\ at[w] \in labels}

Promise == INSTANCE Outbox WITH
  log <- [d \in Delivery |-> Status(d)],
  taken <- Held({"load", "post"}),
  answered <- Held({"sent"}),
  failing <- Held({"failed", "mark"}),
  sent <- posts, closed <- removed

\* However event handlers, ticks, lists, the owner and crashes interleave, a
\* delivery is in one hand at a time, sent once in it at most, marked SUCCESS
\* only if the receiver accepted it in that hand, and then settled for good
\* (the conditional update of attempt, webhooks.service.ts:216).
ImplementsOutbox == Promise!Spec

\* A full batch of older failures whose back-off is over stands before d.
Crowded(d) == Cardinality({e \in 1..(d - 1) : Overdue(e)}) >= Batch

\* What waits is attempted or cancelled in the end, also when the handler that
\* created it died before it claimed it, unless a full batch of older failures
\* is due: flushDueDeliveries takes the oldest (lines 193-194) and attempt
\* claims none of them (line 217), so nothing behind them is reached.
OnlyFailuresStarve ==
  \A d \in Delivery :
    Status(d) = "PENDING" ~> Status(d) # "PENDING" \/ Crowded(d)

\* "Reintenta entregas PENDING o FAILED con backoff vencido" (line 185): what
\* is due is attempted, or stops being due.
DueIsAttempted == \A d \in Delivery : d \in Due ~> d \notin Due

\* The webhook is off and nobody is past the check of attempt (line 226).
Quiet ==
  ~active /\ \A w \in Runner : at[w] \notin {"post", "sent", "failed", "mark"}

\* A webhook that is off and quiet stays off and quiet until its owner turns it
\* on: no tick, list or event sends anything or brings it back.  Until it is
\* quiet an attempt under way may bring it back, for markFailed writes
\* isActive: true when the limits are not reached (line 314).
StaysQuiet == [][Quiet => Quiet' \/ updates' # updates]_vars

\* Why: a delivery somebody delivers is DELIVERING, which keeps others out, and
\* has not been sent in this attempt before it is posted.
ClaimGuards ==
  \A d \in Delivery, w \in Runner :
    /\ Delivers(w, d) => removed \/ Status(d) = "DELIVERING"
    /\ Delivers(w, d) /\ at[w] \in {"load", "post"} /\ ~removed =>
         posts[d] <= delivery[d].attempts

\* The inductive invariant.
DeliveryInv ==
  /\ TypeOK /\ OneSender /\ PostsAreCounted /\ ClaimGuards
  /\ \A d \in Delivery : removed => delivery[d] = Absent
  /\ \A d \in Delivery : delivery[d] = Absent => removed \/ posts[d] = 0
=============================================================================
