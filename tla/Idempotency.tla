----------------------------- MODULE Idempotency -----------------------------
(***************************************************************************)
(* api/src/common/interceptors/idempotency.interceptor.ts: requests that    *)
(* carry one Idempotency-Key of one user for one path.  The first to insert *)
(* the row of the key (the slot) runs the handler; the others wait for its  *)
(* answer and replay it.                                                    *)
(***************************************************************************)
EXTENDS Naturals, FiniteSets

CONSTANTS
  Request,   \* the client's request and its retries
  None       \* nobody

ASSUME RequestAssumption == None \notin Request

VARIABLES
  row,       \* the row of the key in idempotency_keys, or NoRow
  pc,        \* where each request is in intercept
  seen,      \* the row a request is about to purge, named by its creator
  held,      \* requests whose insert of a slot succeeded
  effect,    \* what the handler did for each request
  answer,    \* whose execution answered each request
  gaveUp,    \* history: requests that went on without waiting for an answer
  freed,     \* history: requests that waited and found the slot gone
  lapsed     \* history: a slot has outlived its 24 hours

vars == <<row, pc, seen, held, effect, answer, gaveUp, freed, lapsed>>

\* A request inserts at most one row, so its creator identifies a row.
\* done: responseStatus holds a 2xx status, not IN_PROGRESS.
Row == [by: Request, done: BOOLEAN, overdue: BOOLEAN]
NoRow == [by |-> None, done |-> FALSE, overdue |-> FALSE]

NewRow(r) == [by |-> r, done |-> FALSE, overdue |-> FALSE]

InProgress == row # NoRow /\ ~row.done

Goto(r, label) == pc' = [pc EXCEPT ![r] = label]

\* replay: the stored answer, without running the handler.
Replay(r) ==
  /\ answer' = [answer EXCEPT ![r] = row.by]
  /\ Goto(r, "done")

Init ==
  /\ row = NoRow
  /\ pc = [r \in Request |-> "start"]
  /\ seen = [r \in Request |-> None]
  /\ held = {}
  /\ effect = [r \in Request |-> "none"]
  /\ answer = [r \in Request |-> None]
  /\ gaveUp = {} /\ freed = {} /\ lapsed = FALSE

-----------------------------------------------------------------------------
(* The first look at the row *)

ReadRow(r) ==
  /\ pc[r] = "start"
  /\ \/ /\ row # NoRow /\ row.overdue
        /\ seen' = [seen EXCEPT ![r] = row.by]
        /\ Goto(r, "purge")
        /\ UNCHANGED answer
     \/ /\ row # NoRow /\ row.done /\ ~row.overdue
        /\ Replay(r)
        /\ UNCHANGED seen
     \/ /\ row = NoRow \/ (~row.done /\ ~row.overdue)
        /\ Goto(r, "reserve")
        /\ UNCHANGED <<seen, answer>>
  /\ UNCHANGED <<row, held, effect, gaveUp, freed, lapsed>>

\* delete by id: when another request has purged the row already Prisma
\* throws, and the request goes on without a slot.
Purge(r) ==
  /\ pc[r] = "purge"
  /\ \/ /\ row # NoRow /\ row.by = seen[r]
        /\ row' = NoRow
        /\ Goto(r, "reserve")
        /\ UNCHANGED gaveUp
     \/ /\ row = NoRow \/ row.by # seen[r]
        /\ Goto(r, "handle")
        /\ gaveUp' = gaveUp \cup {r}
        /\ UNCHANGED row
  /\ UNCHANGED <<seen, held, effect, answer, freed, lapsed>>

-----------------------------------------------------------------------------
(* Reserving the slot *)

\* Mutant: an upsert takes the slot over.
ReserveUpsert(r) ==
  /\ pc[r] = "reserve"
  /\ row' = NewRow(r) /\ held' = held \cup {r}
  /\ Goto(r, "handle")
  /\ UNCHANGED <<seen, effect, answer, gaveUp, freed, lapsed>>

Reserve(r) ==
  /\ pc[r] = "reserve"
  /\ \/ /\ row = NoRow
        /\ row' = NewRow(r) /\ held' = held \cup {r}
        /\ Goto(r, "handle")
     \/ /\ row # NoRow
        /\ Goto(r, "poll")
        /\ UNCHANGED <<row, held>>
  /\ UNCHANGED <<seen, effect, answer, gaveUp, freed, lapsed>>

\* pollForResult: the winner has answered, or its row is gone.
Poll(r) ==
  /\ pc[r] = "poll"
  /\ \/ /\ row # NoRow /\ row.done
        /\ Replay(r)
        /\ UNCHANGED freed
     \/ /\ row = NoRow
        /\ Goto(r, "release")
        /\ freed' = freed \cup {r}
        /\ UNCHANGED answer
  /\ UNCHANGED <<row, seen, held, effect, gaveUp, lapsed>>

\* Mutant: the poll has no deadline.
PollForever(r) == pc[r] = "poll" /\ InProgress /\ UNCHANGED vars

\* Five seconds have passed.
PollTimeout(r) ==
  /\ pc[r] = "poll" /\ InProgress
  /\ Goto(r, "release")
  /\ gaveUp' = gaveUp \cup {r}
  /\ UNCHANGED <<row, seen, held, effect, answer, freed, lapsed>>

\* Mutant: the row goes whatever its status.
ReleaseAny(r) ==
  /\ pc[r] = "release"
  /\ row' = NoRow
  /\ Goto(r, "again")
  /\ UNCHANGED <<seen, held, effect, answer, gaveUp, freed, lapsed>>

\* deleteMany of the key's row in progress, whoever is working on it.
Release(r) ==
  /\ pc[r] = "release"
  /\ row' = IF InProgress THEN NoRow ELSE row
  /\ Goto(r, "again")
  /\ UNCHANGED <<seen, held, effect, answer, gaveUp, freed, lapsed>>

\* The second insert; when it fails too the handler runs without a slot.
ReserveAgain(r) ==
  /\ pc[r] = "again"
  /\ \/ row = NoRow /\ row' = NewRow(r) /\ held' = held \cup {r}
     \/ row # NoRow /\ UNCHANGED <<row, held>>
  /\ Goto(r, "handle")
  /\ UNCHANGED <<seen, effect, answer, gaveUp, freed, lapsed>>

\* Any other error of the database: on without deduplication.
Bypass(r) ==
  /\ pc[r] \in {"start", "purge", "reserve"}
  /\ Goto(r, "handle")
  /\ gaveUp' = gaveUp \cup {r}
  /\ UNCHANGED <<row, seen, held, effect, answer, freed, lapsed>>

-----------------------------------------------------------------------------
(* The handler and the end of the response *)

Handle(r) ==
  /\ pc[r] = "handle"
  /\ \E e \in {"ok", "failed"} : effect' = [effect EXCEPT ![r] = e]
  /\ Goto(r, "store")
  /\ UNCHANGED <<row, seen, held, answer, gaveUp, freed, lapsed>>

MySlot(r) == r \in held /\ InProgress /\ row.by = r

\* Mutant: failures are stored too.
StoreAnyway(r) == [row EXCEPT !.done = TRUE]

\* Mutant: a 2xx answer frees the row as well.
Freed(r) == NoRow

\* A 2xx answer is stored in the row; any other frees it.
Outcome(r) == IF effect[r] = "ok" THEN [row EXCEPT !.done = TRUE] ELSE NoRow

\* The listener of response 'finish'.
Store(r) ==
  /\ pc[r] = "store"
  /\ row' = IF MySlot(r) THEN Outcome(r) ELSE row
  /\ answer' = [answer EXCEPT ![r] = r]
  /\ Goto(r, "done")
  /\ UNCHANGED <<seen, held, effect, gaveUp, freed, lapsed>>

\* The process dies, the client hangs up and 'finish' is never emitted, or a
\* database error later than the first insert ends the request.
Die(r) ==
  /\ pc[r] \notin {"start", "done", "dead"}
  /\ Goto(r, "dead")
  /\ UNCHANGED <<row, seen, held, effect, answer, gaveUp, freed, lapsed>>

\* Twenty-four hours pass; no request lives that long.
Lapse ==
  /\ row # NoRow /\ ~row.overdue
  /\ \A r \in Request : pc[r] \in {"start", "done", "dead"}
  /\ row' = [row EXCEPT !.overdue = TRUE]
  /\ lapsed' = TRUE
  /\ UNCHANGED <<pc, seen, held, effect, answer, gaveUp, freed>>

Proceed(r) ==
  \/ ReadRow(r) \/ Purge(r) \/ Reserve(r) \/ Poll(r) \/ PollTimeout(r)
  \/ Release(r) \/ ReserveAgain(r) \/ Handle(r) \/ Store(r)

Next == \/ \E r \in Request : Proceed(r) \/ Bypass(r) \/ Die(r)
        \/ Lapse

Spec == Init /\ [][Next]_vars

\* The event loop runs every continuation, and the poll has a deadline.
FairSpec == Spec /\ \A r \in Request : WF_vars(Proceed(r))

-----------------------------------------------------------------------------
(* Properties *)

\* The row is well formed and every request is at a point of intercept.
TypeOK ==
  /\ row \in Row \cup {NoRow}
  /\ pc \in [Request -> {"start", "purge", "reserve", "poll", "release",
                         "again", "handle", "store", "done", "dead"}]
  /\ seen \in [Request -> Request \cup {None}]
  /\ held \subseteq Request
  /\ effect \in [Request -> {"none", "ok", "failed"}]
  /\ answer \in [Request -> Request \cup {None}]
  /\ gaveUp \subseteq Request
  /\ freed \subseteq Request
  /\ lapsed \in BOOLEAN

Succeeded == {r \in Request : effect[r] = "ok"}

\* Only the answer of an execution that took effect is stored, and a replay
\* answers with nothing else: no request is told that work was done which was
\* rolled back or is still under way.
ReplayIsReal ==
  /\ (row # NoRow /\ row.done) => row.by \in Succeeded
  /\ \A r \in Request : answer[r] \notin {None, r} => answer[r] \in Succeeded

\* The slot has been taken away before an answer was stored in it: a waiter or
\* a request without a slot went on, the answer lapsed, or an attempt failed.
Disturbed ==
  \/ gaveUp # {} \/ lapsed
  \/ \E f \in Request : effect[f] = "failed"

\* The work is done twice only if somebody went on without waiting, the answer
\* has lapsed, or a first attempt failed while another request waited for it.
\* The last is not what the comment at lines 29-32 calls the point of
\* serialisation: the waiter's deleteMany (line 95) removes any slot in
\* progress, the one that a third request has inserted since as well, and both
\* run the handler.  A failure nobody waited for, and a race for the slot, do
\* not lead to it.
TwiceHasACause ==
  \A r, s \in Succeeded :
    r # s => \/ gaveUp # {} \/ lapsed
             \/ freed # {} /\ \E f \in Request : effect[f] = "failed"

\* A stored answer stays until it has lapsed: a waiter that gave up, or a
\* holder that comes late, does not take it away.
StoredStays ==
  [][row # NoRow /\ row.done /\ ~row.overdue =>
       row' \in {row, [row EXCEPT !.overdue = TRUE]}]_vars

\* Every request is answered, unless it dies: nobody waits for ever for a
\* holder that died.
RetryIsAnswered ==
  \A r \in Request : pc[r] # "start" ~> pc[r] \in {"done", "dead"}

\* Why: until somebody gives up, finds the slot gone or the answer lapses, a
\* request whose handler runs, or has taken effect, holds the row, which keeps
\* the others out.
SlotGuards ==
  gaveUp = {} /\ freed = {} /\ ~lapsed =>
    \A r \in Request :
      /\ pc[r] \notin {"release", "again"}
      /\ pc[r] \in {"handle", "store"} \/ effect[r] = "ok" =>
           r \in held /\ row.by = r

\* A slot that was there and is gone has been disturbed, so a waiter finds it
\* gone only then.
GoneIsDisturbed ==
  /\ freed # {} \/ (row = NoRow /\ held # {}) => Disturbed
  /\ \A r \in Request : pc[r] = "poll" => held # {}

\* A request inserts one row in its life, and only a row that has lapsed is
\* purged.
RowsAreNamed ==
  /\ row # NoRow => row.by \in held
  /\ row.overdue => lapsed
  /\ \A r \in Request :
       /\ effect[r] # "none" => pc[r] \in {"store", "done", "dead"}
       /\ pc[r] = "store" => effect[r] # "none"
       /\ r \in held => pc[r] \in {"handle", "store", "done", "dead"}
       /\ seen[r] # None => seen[r] \in held
       /\ pc[r] = "purge" => seen[r] # None /\ lapsed
       /\ pc[r] = "purge" /\ row.by = seen[r] => row.overdue

\* The inductive invariant.
SlotInv ==
  TypeOK /\ ReplayIsReal /\ SlotGuards /\ GoneIsDisturbed /\ RowsAreNamed
=============================================================================
