------------------------- MODULE IdempotencyProofs --------------------------
(***************************************************************************)
(* Proofs about Idempotency, for every set of requests.                     *)
(***************************************************************************)
EXTENDS Idempotency, TLAPS

\* NoRow belongs to nobody, so it is none of the rows requests insert.
LEMMA Rows ==
  /\ NoRow \notin Row /\ NoRow.by = None /\ ~NoRow.done /\ ~NoRow.overdue
  /\ \A r \in Request : NewRow(r) \in Row /\ NewRow(r) # NoRow
  /\ \A x \in Row : /\ x # NoRow /\ x.by \in Request /\ x.by # None
                    /\ [x EXCEPT !.done = TRUE] \in Row
                    /\ [x EXCEPT !.overdue = TRUE] \in Row
<1>1. \A x \in Row : x.by \in Request
  BY DEF Row
<1>2. NoRow.by = None /\ ~NoRow.done /\ ~NoRow.overdue
  BY DEF NoRow
<1>3. NoRow \notin Row
  BY <1>1, <1>2, RequestAssumption
<1>4. \A r \in Request : NewRow(r) \in Row
  BY DEF NewRow, Row
<1>5. \A x \in Row : /\ [x EXCEPT !.done = TRUE] \in Row
                      /\ [x EXCEPT !.overdue = TRUE] \in Row
  BY DEF Row
<1> QED  BY <1>1, <1>2, <1>3, <1>4, <1>5, RequestAssumption

\* Types are kept by every step.
LEMMA TypeStep == TypeOK /\ [Next]_vars => TypeOK'
<1> SUFFICES ASSUME TypeOK, [Next]_vars PROVE TypeOK'
  OBVIOUS
<1> USE DEF TypeOK, Goto
<1>1. ASSUME NEW r \in Request, ReadRow(r)  PROVE TypeOK'
  BY <1>1, Rows DEF ReadRow, Replay, Row
<1>2. ASSUME NEW r \in Request, Purge(r)  PROVE TypeOK'
  BY <1>2 DEF Purge
<1>3. ASSUME NEW r \in Request, Reserve(r)  PROVE TypeOK'
  BY <1>3, Rows DEF Reserve
<1>4. ASSUME NEW r \in Request, Poll(r)  PROVE TypeOK'
  BY <1>4, Rows DEF Poll, Replay, Row
<1>5. ASSUME NEW r \in Request, PollTimeout(r)  PROVE TypeOK'
  BY <1>5 DEF PollTimeout
<1>6. ASSUME NEW r \in Request, Release(r)  PROVE TypeOK'
  BY <1>6 DEF Release
<1>7. ASSUME NEW r \in Request, ReserveAgain(r)  PROVE TypeOK'
  BY <1>7, Rows DEF ReserveAgain
<1>8. ASSUME NEW r \in Request, Bypass(r)  PROVE TypeOK'
  BY <1>8 DEF Bypass
<1>9. ASSUME NEW r \in Request, Handle(r)  PROVE TypeOK'
  BY <1>9 DEF Handle
<1>10. ASSUME NEW r \in Request, Store(r)  PROVE TypeOK'
  <2>1. row' \in Row \cup {NoRow}
    BY <1>10, Rows DEF Store, MySlot, InProgress, Outcome
  <2> QED  BY <1>10, <2>1 DEF Store
<1>11. ASSUME NEW r \in Request, Die(r)  PROVE TypeOK'
  BY <1>11 DEF Die
<1>12. CASE Lapse
  BY <1>12, Rows DEF Lapse
<1>13. CASE UNCHANGED vars
  BY <1>13 DEF vars
<1> QED
  BY <1>1, <1>2, <1>3, <1>4, <1>5, <1>6, <1>7, <1>8, <1>9, <1>10, <1>11,
     <1>12, <1>13 DEF Next, Proceed

\* Each action keeps the three parts of SlotInv on who runs and what is stored.
LEMMA SlotStep ==
  ASSUME SlotInv, [Next]_vars
  PROVE ReplayIsReal' /\ SlotGuards' /\ RowsAreNamed'
<1> USE DEF SlotInv, TypeOK, ReplayIsReal, SlotGuards, RowsAreNamed,
           Succeeded, Goto
<1>1. ASSUME NEW r \in Request, ReadRow(r)
      PROVE ReplayIsReal' /\ SlotGuards' /\ RowsAreNamed'
  <2>1. ReplayIsReal'
    BY <1>1, Rows DEF ReadRow, Replay
  <2>2. SlotGuards'
    BY <1>1, Rows DEF ReadRow, Replay
  <2>3. RowsAreNamed'
    <3>1. CASE row # NoRow /\ row.overdue
      <4>1. row \in Row /\ row.by \in held /\ lapsed
        BY <3>1
      <4>2. /\ seen' = [seen EXCEPT ![r] = row.by]
            /\ pc' = [pc EXCEPT ![r] = "purge"]
            /\ UNCHANGED <<row, held, effect, lapsed>>
        BY <1>1, <3>1, Rows DEF ReadRow, Replay
      <4>3. pc[r] = "start" /\ r \notin held /\ effect[r] = "none"
        BY <1>1 DEF ReadRow
      <4> QED  BY <3>1, <4>1, <4>2, <4>3, Rows
    <3>2. CASE ~(row # NoRow /\ row.overdue)
      BY <1>1, <3>2, Rows DEF ReadRow, Replay
    <3> QED  BY <3>1, <3>2
  <2> QED  BY <2>1, <2>2, <2>3
<1>2. ASSUME NEW r \in Request, Purge(r)
      PROVE ReplayIsReal' /\ SlotGuards' /\ RowsAreNamed'
  <2>1. ReplayIsReal'
    BY <1>2, Rows DEF Purge
  <2>2. SlotGuards'
    BY <1>2, Rows DEF Purge
  <2>3. RowsAreNamed'
    BY <1>2, Rows DEF Purge
  <2> QED  BY <2>1, <2>2, <2>3
<1>3. ASSUME NEW r \in Request, Reserve(r)
      PROVE ReplayIsReal' /\ SlotGuards' /\ RowsAreNamed'
  <2>1. ReplayIsReal'
    BY <1>3, Rows DEF Reserve, NewRow
  <2>2. SlotGuards'
    <3>1. CASE row = NoRow
      <4>1. /\ row' = NewRow(r) /\ held' = held \cup {r}
            /\ pc' = [pc EXCEPT ![r] = "handle"]
            /\ UNCHANGED <<effect, gaveUp, freed, lapsed>>
        BY <1>3, <3>1 DEF Reserve
      <4>2. NewRow(r).by = r
        BY DEF NewRow
      <4>3. gaveUp = {} /\ freed = {} /\ ~lapsed => \A q \in Request :
              pc[q] \notin {"handle", "store"} /\ effect[q] # "ok"
        BY <3>1, Rows, RequestAssumption
      <4> QED  BY <4>1, <4>2, <4>3
    <3>2. CASE row # NoRow
      BY <1>3, <3>2 DEF Reserve
    <3> QED  BY <3>1, <3>2
  <2>3. RowsAreNamed'
    BY <1>3, Rows DEF Reserve, NewRow
  <2> QED  BY <2>1, <2>2, <2>3
<1>4. ASSUME NEW r \in Request, Poll(r)
      PROVE ReplayIsReal' /\ SlotGuards' /\ RowsAreNamed'
  <2>1. ReplayIsReal'
    BY <1>4, Rows DEF Poll, Replay
  <2>2. SlotGuards'
    BY <1>4, Rows DEF Poll, Replay
  <2>3. RowsAreNamed'
    BY <1>4, Rows DEF Poll, Replay
  <2> QED  BY <2>1, <2>2, <2>3
<1>5. ASSUME NEW r \in Request, PollTimeout(r)
      PROVE ReplayIsReal' /\ SlotGuards' /\ RowsAreNamed'
  <2>1. ReplayIsReal'
    BY <1>5, Rows DEF PollTimeout
  <2>2. SlotGuards'
    BY <1>5, Rows DEF PollTimeout
  <2>3. RowsAreNamed'
    BY <1>5, Rows DEF PollTimeout
  <2> QED  BY <2>1, <2>2, <2>3
<1>6. ASSUME NEW r \in Request, Release(r)
      PROVE ReplayIsReal' /\ SlotGuards' /\ RowsAreNamed'
  <2>1. ReplayIsReal'
    BY <1>6, Rows DEF Release, InProgress
  <2>2. SlotGuards'
    BY <1>6, Rows DEF Release, InProgress
  <2>3. RowsAreNamed'
    BY <1>6, Rows DEF Release, InProgress
  <2> QED  BY <2>1, <2>2, <2>3
<1>7. ASSUME NEW r \in Request, ReserveAgain(r)
      PROVE ReplayIsReal' /\ SlotGuards' /\ RowsAreNamed'
  <2>1. ReplayIsReal'
    BY <1>7, Rows DEF ReserveAgain, NewRow
  <2>2. SlotGuards'
    BY <1>7, Rows DEF ReserveAgain, NewRow
  <2>3. RowsAreNamed'
    BY <1>7, Rows DEF ReserveAgain, NewRow
  <2> QED  BY <2>1, <2>2, <2>3
<1>8. ASSUME NEW r \in Request, Bypass(r)
      PROVE ReplayIsReal' /\ SlotGuards' /\ RowsAreNamed'
  <2>1. ReplayIsReal'
    BY <1>8, Rows DEF Bypass
  <2>2. SlotGuards'
    BY <1>8, Rows DEF Bypass
  <2>3. RowsAreNamed'
    BY <1>8, Rows DEF Bypass
  <2> QED  BY <2>1, <2>2, <2>3
<1>9. ASSUME NEW r \in Request, Handle(r)
      PROVE ReplayIsReal' /\ SlotGuards' /\ RowsAreNamed'
  <2>1. ReplayIsReal'
    BY <1>9, Rows DEF Handle
  <2>2. SlotGuards'
    BY <1>9, Rows DEF Handle
  <2>3. RowsAreNamed'
    BY <1>9, Rows DEF Handle
  <2> QED  BY <2>1, <2>2, <2>3
<1>10. ASSUME NEW r \in Request, Store(r)
      PROVE ReplayIsReal' /\ SlotGuards' /\ RowsAreNamed'
  <2>1. ReplayIsReal'
    BY <1>10, Rows DEF Store, MySlot, InProgress, Outcome
  <2>2. SlotGuards'
    BY <1>10, Rows DEF Store, MySlot, InProgress, Outcome
  <2>3. RowsAreNamed'
    BY <1>10, Rows DEF Store, MySlot, InProgress, Outcome
  <2> QED  BY <2>1, <2>2, <2>3
<1>11. ASSUME NEW r \in Request, Die(r)
      PROVE ReplayIsReal' /\ SlotGuards' /\ RowsAreNamed'
  <2>1. ReplayIsReal'
    BY <1>11, Rows DEF Die
  <2>2. SlotGuards'
    BY <1>11, Rows DEF Die
  <2>3. RowsAreNamed'
    BY <1>11, Rows DEF Die
  <2> QED  BY <2>1, <2>2, <2>3
<1>12. CASE Lapse
  <2>1. ReplayIsReal'
    BY <1>12, Rows DEF Lapse
  <2>2. SlotGuards' /\ RowsAreNamed'
    BY <1>12, Rows DEF Lapse
  <2> QED  BY <2>1, <2>2
<1>13. CASE UNCHANGED vars
  BY <1>13 DEF vars
<1> QED
  BY <1>1, <1>2, <1>3, <1>4, <1>5, <1>6, <1>7, <1>8, <1>9, <1>10, <1>11,
     <1>12, <1>13 DEF Next, Proceed

\* What has disturbed the slot stays in the history.
LEMMA DisturbedStays ==
  ASSUME SlotInv, [Next]_vars, Disturbed
  PROVE Disturbed'
<1> USE DEF SlotInv, TypeOK, Goto
<1>1. gaveUp \subseteq gaveUp' /\ (lapsed => lapsed')
  BY DEF Next, Proceed, ReadRow, Purge, Reserve, Poll, PollTimeout, Release,
         ReserveAgain, Bypass, Handle, Store, Die, Lapse, vars
<1>2. ASSUME NEW f \in Request, effect[f] = "failed"  PROVE effect'[f] = "failed"
  <2>1. ASSUME NEW r \in Request, Handle(r)  PROVE effect'[f] = "failed"
    BY <1>2, <2>1 DEF Handle, RowsAreNamed
  <2> QED
    BY <1>2, <2>1
       DEF Next, Proceed, ReadRow, Purge, Reserve, Poll, PollTimeout, Release,
           ReserveAgain, Bypass, Store, Die, Lapse, vars
<1> QED  BY <1>1, <1>2 DEF Disturbed

\* A slot goes by the end of a failed attempt, by a waiter that went on or by a
\* purge, each of which has disturbed it; a waiter has seen a slot.
LEMMA GoneStep ==
  ASSUME SlotInv, [Next]_vars
  PROVE GoneIsDisturbed'
<1> USE DEF SlotInv, TypeOK, Goto
<1>1. held \subseteq held'
  BY DEF Next, Proceed, ReadRow, Purge, Reserve, Poll, PollTimeout, Release,
         ReserveAgain, Bypass, Handle, Store, Die, Lapse, vars
<1>2. ASSUME NEW r \in Request, pc'[r] = "poll"  PROVE held' # {}
  <2>1. CASE pc[r] = "poll"
    BY <1>1, <2>1 DEF GoneIsDisturbed
  <2>2. CASE pc[r] # "poll"
    <3>1. PICK q \in Request : Reserve(q) /\ row # NoRow
      BY <1>2, <2>2
         DEF Next, Proceed, ReadRow, Replay, Purge, Reserve, Poll, PollTimeout,
             Release, ReserveAgain, Bypass, Handle, Store, Die, Lapse, vars
    <3> QED  BY <1>1, <3>1 DEF RowsAreNamed
  <2> QED  BY <2>1, <2>2
<1>3. ASSUME freed' # {}, freed = {}  PROVE Disturbed
  <2>1. PICK r \in Request : Poll(r) /\ row = NoRow
    BY <1>3 DEF Next, Proceed, ReadRow, Purge, Reserve, Poll, PollTimeout,
                Release, ReserveAgain, Bypass, Handle, Store, Die, Lapse, vars
  <2> QED  BY <2>1 DEF Poll, GoneIsDisturbed
<1>4. ASSUME row' = NoRow, held' # {}, row # NoRow  PROVE Disturbed
  <2>1. ASSUME NEW r \in Request, Purge(r)  PROVE Disturbed
    BY <2>1 DEF Purge, RowsAreNamed, Disturbed
  <2>2. ASSUME NEW r \in Request, Release(r)  PROVE Disturbed
    BY <2>2 DEF Release, SlotGuards, GoneIsDisturbed, Disturbed
  <2>3. ASSUME NEW r \in Request, Store(r)  PROVE Disturbed
    <3>1. MySlot(r) /\ Outcome(r) = NoRow
      BY <1>4, <2>3 DEF Store
    <3>2. row \in Row /\ [row EXCEPT !.done = TRUE] # NoRow
      BY <1>4, Rows
    <3>3. effect[r] = "failed"
      BY <2>3, <3>1, <3>2 DEF Store, Outcome, RowsAreNamed
    <3> QED  BY <3>3 DEF Disturbed
  <2>4. ASSUME NEW r \in Request, Reserve(r) \/ ReserveAgain(r)  PROVE FALSE
    BY <1>4, <2>4, Rows DEF Reserve, ReserveAgain
  <2>5. CASE Lapse
    BY <1>4, <2>5, Rows DEF Lapse
  <2> QED
    BY <1>4, <2>1, <2>2, <2>3, <2>4, <2>5
       DEF Next, Proceed, ReadRow, Poll, PollTimeout, Bypass, Handle, Die, vars
<1>5. ASSUME row' = NoRow, held' # {}, row = NoRow, held = {}  PROVE FALSE
  <2>1. PICK r \in Request : Reserve(r) \/ ReserveAgain(r)
    BY <1>5 DEF Next, Proceed, ReadRow, Purge, Reserve, Poll, PollTimeout,
                Release, ReserveAgain, Bypass, Handle, Store, Die, Lapse, vars
  <2> QED  BY <1>5, <2>1, Rows DEF Reserve, ReserveAgain
<1>6. freed' # {} \/ (row' = NoRow /\ held' # {}) => Disturbed
  BY <1>3, <1>4, <1>5 DEF GoneIsDisturbed
<1> QED  BY <1>2, <1>6, DisturbedStays DEF GoneIsDisturbed

LEMMA SlotInit == Init => SlotInv
<1> SUFFICES ASSUME Init PROVE SlotInv
  OBVIOUS
<1>1. TypeOK
  BY DEF Init, TypeOK
<1>2. ReplayIsReal /\ SlotGuards /\ GoneIsDisturbed /\ RowsAreNamed
  BY Rows DEF Init, ReplayIsReal, SlotGuards, GoneIsDisturbed, RowsAreNamed
<1> QED  BY <1>1, <1>2 DEF SlotInv

\* SlotInv is inductive, so it holds for every number of requests of one
\* Idempotency-Key: the slot of interceptor.intercept guards the handler until
\* somebody gives up, finds the slot gone after a failure, or the answer lapses.
THEOREM SlotInvariant == Spec => []SlotInv
<1>1. SlotInv /\ [Next]_vars => SlotInv'
  BY TypeStep, SlotStep, GoneStep DEF SlotInv
<1> QED  BY SlotInit, <1>1, PTL DEF Spec

\* Replays answer with the stored result of an execution that took effect.
THEOREM ReplaysAreReal == Spec => []ReplayIsReal
<1>1. SlotInv => ReplayIsReal
  BY DEF SlotInv
<1> QED  BY SlotInvariant, <1>1, PTL

\* The handler of intercept takes effect twice only after somebody went on
\* without waiting, after a lapse, or after a failed attempt that somebody
\* waited for: the row belongs to one request only.
THEOREM TwiceNeedsACause == Spec => []TwiceHasACause
<1>1. SlotInv => TwiceHasACause
  <2> SUFFICES ASSUME SlotInv, NEW r \in Succeeded, NEW s \in Succeeded, r # s,
                      gaveUp = {}, ~lapsed
               PROVE freed # {} /\ \E f \in Request : effect[f] = "failed"
    BY DEF TwiceHasACause
  <2>1. CASE freed = {}
    <3>1. row.by = r /\ row.by = s
      BY <2>1 DEF SlotInv, SlotGuards, Succeeded
    <3> QED  BY <3>1
  <2>2. CASE freed # {}
    BY <2>2 DEF SlotInv, GoneIsDisturbed, Disturbed
  <2> QED  BY <2>1, <2>2
<1> QED  BY SlotInvariant, <1>1, PTL

\* No step takes away a stored answer that has not lapsed: the second delete of
\* a waiter and the late end of a former holder leave it alone.
THEOREM StoredAnswersStay == Spec => StoredStays
<1> DEFINE Stays == row # NoRow /\ row.done /\ ~row.overdue =>
                      row' \in {row, [row EXCEPT !.overdue = TRUE]}
<1>1. SlotInv /\ [Next]_vars => [Stays]_vars
  <2> SUFFICES ASSUME SlotInv, [Next]_vars,
                      row # NoRow, row.done, ~row.overdue
               PROVE row' \in {row, [row EXCEPT !.overdue = TRUE]}
    OBVIOUS
  <2>1. ASSUME NEW r \in Request, Proceed(r) \/ Bypass(r) \/ Die(r)
        PROVE row' = row
    <3>1. ~InProgress
      BY DEF InProgress
    <3>2. CASE Purge(r)
      BY <3>2 DEF Purge, SlotInv, RowsAreNamed
    <3>3. CASE Release(r)
      BY <3>1, <3>3 DEF Release
    <3>4. CASE Store(r)
      BY <3>1, <3>4 DEF Store, MySlot
    <3>5. CASE Reserve(r) \/ ReserveAgain(r)
      BY <3>5 DEF Reserve, ReserveAgain
    <3> QED
      BY <2>1, <3>2, <3>3, <3>4, <3>5
         DEF Proceed, ReadRow, Poll, PollTimeout, Bypass, Handle, Die
  <2>2. CASE Lapse
    BY <2>2 DEF Lapse
  <2> QED  BY <2>1, <2>2 DEF Next, vars
<1> QED  BY SlotInvariant, <1>1, PTL DEF Spec, StoredStays
=============================================================================
