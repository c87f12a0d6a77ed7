--------------------------- MODULE WebhooksProofs ---------------------------
(***************************************************************************)
(* Proofs about Webhooks, for every number of deliveries, every set of      *)
(* runners, and every limit.                                                *)
(***************************************************************************)
EXTENDS Webhooks, TLAPS

\* Absent is no row, and what the handlers write is a row.
LEMMA Rows ==
  /\ Absent \notin Row /\ Absent.status = "absent"
  /\ NewDelivery \in Row /\ NewDelivery.status = "PENDING"
  /\ NewDelivery.attempts = 0
  /\ \A x \in Row :
       /\ x.attempts \in Nat /\ x.status # "absent"
       /\ \A s \in {"DELIVERING", "CANCELLED"} :
            /\ [x EXCEPT !.status = s] \in Row
            /\ [x EXCEPT !.status = s].status = s
            /\ [x EXCEPT !.status = s].attempts = x.attempts
       /\ [x EXCEPT !.next = "now"] \in Row
       /\ [x EXCEPT !.next = "now"].status = x.status
       /\ [x EXCEPT !.next = "now"].attempts = x.attempts
<1>1. Absent.status = "absent" /\ \A x \in Row : x.status # "absent"
  BY DEF Absent, Row
<1>2. /\ NewDelivery \in Row /\ NewDelivery.status = "PENDING"
      /\ NewDelivery.attempts = 0
  BY DEF NewDelivery, Row
<1>3. ASSUME NEW x \in Row
      PROVE /\ x.attempts \in Nat
            /\ \A s \in {"DELIVERING", "CANCELLED"} :
                 /\ [x EXCEPT !.status = s] \in Row
                 /\ [x EXCEPT !.status = s].status = s
                 /\ [x EXCEPT !.status = s].attempts = x.attempts
            /\ [x EXCEPT !.next = "now"] \in Row
            /\ [x EXCEPT !.next = "now"].status = x.status
            /\ [x EXCEPT !.next = "now"].attempts = x.attempts
  BY DEF Row
<1> QED  BY <1>1, <1>2, <1>3

\* The rows the two ends of an attempt write.
LEMMA Outcomes ==
  ASSUME NEW d \in Delivery, delivery[d] \in Row, NEW n \in {"never", "later"}
  PROVE /\ Stored(d) \in Row /\ Stored(d).status = "SUCCESS"
        /\ Stored(d).attempts = delivery[d].attempts + 1
        /\ [status |-> "FAILED", attempts |-> delivery[d].attempts + 1,
            next |-> n] \in Row
  BY DEF Stored, Row

\* A runner is at one delivery only.
LEMMA OneCurrent ==
  ASSUME TypeOK, NEW w \in Runner, NEW d \in Delivery, NEW e \in Delivery,
         Current(w, d), Current(w, e)
  PROVE d = e
  BY WebhooksAssumption DEF Current, Delivery

\* Types are kept by every step.
LEMMA TypeStep ==
  ASSUME DeliveryInv, [Next]_vars
  PROVE TypeOK'
<1> USE DEF TypeOK, Goto, hook, bounds
<1>0. TypeOK /\ ClaimGuards
  BY DEF DeliveryInv
<1>1. ASSUME NEW w \in Runner, Publish(w)  PROVE TypeOK'
  BY <1>0, <1>1 DEF Publish
<1>2. ASSUME NEW w \in Runner, NEW d \in Delivery, Create(w, d)  PROVE TypeOK'
  BY <1>0, <1>2, Rows DEF Create
<1>3. ASSUME NEW w \in Runner, CreateFails(w)  PROVE TypeOK'
  BY <1>0, <1>3 DEF CreateFails, BreakOff
<1>4. ASSUME NEW w \in Runner, Tick(w)  PROVE TypeOK'
  <2>1. \A d \in Delivery : Status(d) \in Stale => delivery[d] \in Row
    BY <1>0, Rows DEF Status, Stale
  <2>2. delivery' \in [Delivery -> Row \cup {Absent}]
    BY <1>0, <1>4, <2>1, Rows DEF Tick
  <2> QED  BY <1>0, <1>4, <2>2 DEF Tick
<1>5. ASSUME NEW w \in Runner, List(w) \/ Select(w)  PROVE TypeOK'
  <2>1. CASE List(w)
    BY <1>0, <2>1 DEF List
  <2>2. CASE Select(w)
    <3>1. PICK b \in SUBSET Delivery : todo' = [todo EXCEPT ![w] = b]
      BY <2>2 DEF Select, Due
    <3>2. at' = [at EXCEPT ![w] = "idle"] \/ at' = [at EXCEPT ![w] = "claim"]
      BY <2>2 DEF Select
    <3> QED  BY <1>0, <2>2, <3>1, <3>2 DEF Select
  <2> QED  BY <1>5, <2>1, <2>2
<1>6. ASSUME NEW w \in Runner, NEW d \in Delivery, Claim(w, d)  PROVE TypeOK'
  <2>1. Claimable(d) => delivery[d] \in Row
    BY <1>0, Rows DEF Claimable, Status
  <2>2. delivery' \in [Delivery -> Row \cup {Absent}]
    <3>1. \/ delivery' = delivery
          \/ /\ delivery[d] \in Row
             /\ delivery' = [delivery EXCEPT ![d] = [@ EXCEPT !.status = "DELIVERING"]]
      BY <1>6, <2>1 DEF Claim
    <3>2. delivery[d] \in Row => [delivery[d] EXCEPT !.status = "DELIVERING"] \in Row
      BY Rows
    <3> QED  BY <1>0, <3>1, <3>2
  <2> QED  BY <1>0, <1>6, <2>2 DEF Claim, Finish
<1>7. ASSUME NEW w \in Runner, NEW d \in Delivery, Load(w, d)  PROVE TypeOK'
  <2>1. ~removed => delivery[d] \in Row
    BY <1>0, <1>7, Rows DEF Load, ClaimGuards, Delivers, Status
  <2>2. delivery' \in [Delivery -> Row \cup {Absent}]
    <3>1. \/ delivery' = delivery
          \/ /\ delivery[d] \in Row
             /\ delivery' = [delivery EXCEPT ![d] = [@ EXCEPT !.status = "CANCELLED"]]
      BY <1>7, <2>1 DEF Load
    <3>2. delivery[d] \in Row => [delivery[d] EXCEPT !.status = "CANCELLED"] \in Row
      BY Rows
    <3> QED  BY <1>0, <3>1, <3>2
  <2> QED  BY <1>0, <1>7, <2>2 DEF Load, Finish
<1>8. ASSUME NEW w \in Runner, NEW d \in Delivery, Post(w, d)  PROVE TypeOK'
  BY <1>0, <1>8 DEF Post
<1>9. ASSUME NEW w \in Runner, NEW d \in Delivery, Succeed(w, d)  PROVE TypeOK'
  <2>1. ~removed => delivery[d] \in Row
    BY <1>0, <1>9, Rows DEF Succeed, ClaimGuards, Delivers, Status
  <2>2. ~removed => Stored(d) \in Row
    BY <2>1, Outcomes
  <2> QED  BY <1>0, <1>9, <2>2 DEF Succeed, Finish
<1>10. ASSUME NEW w \in Runner, NEW d \in Delivery, CountFailure(w, d)
       PROVE TypeOK'
  <2>1. disable' \in [Runner -> BOOLEAN]
    <3> DEFINE verdict == failures + 1 >= MaxFailures
                            \/ delivery[d].attempts + 1 >= MaxAttempts
    <3>1. disable' = [disable EXCEPT ![w] = verdict] \/ disable' = disable
      BY <1>10 DEF CountFailure
    <3>2. verdict \in BOOLEAN
      OBVIOUS
    <3> HIDE DEF verdict
    <3> QED  BY <1>0, <3>1, <3>2
  <2> QED  BY <1>0, <1>10, <2>1 DEF CountFailure, BreakOff
<1>11. ASSUME NEW w \in Runner, NEW d \in Delivery, MarkFailed(w, d)
       PROVE TypeOK'
  <2>1. ~removed => delivery[d] \in Row
    BY <1>0, <1>11, Rows DEF MarkFailed, ClaimGuards, Delivers, Status
  <2>2. ~removed => delivery' \in [Delivery -> Row \cup {Absent}]
    BY <1>0, <1>11, <2>1, Outcomes DEF MarkFailed
  <2>3. active' \in BOOLEAN
    BY <1>0, <1>11 DEF MarkFailed
  <2>4. removed => delivery' = delivery
    BY <1>11 DEF MarkFailed
  <2> QED  BY <1>0, <1>11, <2>2, <2>3, <2>4 DEF MarkFailed, Finish, BreakOff
<1>12. CASE Update \/ Remove
  <2>1. active' \in BOOLEAN /\ removed' \in BOOLEAN
    BY <1>0, <1>12 DEF Update, Remove
  <2>2. delivery' \in [Delivery -> Row \cup {Absent}]
    BY <1>0, <1>12 DEF Update, Remove
  <2>3. updates' \in Nat
    BY <1>0, <1>12 DEF Update, Remove
  <2> QED  BY <1>0, <1>12, <2>1, <2>2, <2>3 DEF Update, Remove
<1>13. ASSUME NEW d \in Delivery, Elapse(d)  PROVE TypeOK'
  <2>1. delivery[d] \in Row
    BY <1>0, <1>13, Rows DEF Elapse, Status
  <2> QED  BY <1>0, <1>13, <2>1, Rows DEF Elapse
<1>14. ASSUME NEW w \in Runner, Crash(w)  PROVE TypeOK'
  BY <1>0, <1>14 DEF Crash, BreakOff
<1>15. CASE UNCHANGED vars
  BY <1>0, <1>15 DEF vars
<1> QED
  BY <1>1, <1>2, <1>3, <1>4, <1>5, <1>6, <1>7, <1>8, <1>9, <1>10, <1>11,
     <1>12, <1>13, <1>14, <1>15 DEF Next, Proceed, Attempt

-----------------------------------------------------------------------------
(* The guards of a claim *)

\* DeliveryInv but for the types.
Guarded ==
  /\ OneSender /\ PostsAreCounted /\ ClaimGuards
  /\ \A d \in Delivery : removed => delivery[d] = Absent
  /\ \A d \in Delivery : delivery[d] = Absent => removed \/ posts[d] = 0

\* A step of one runner moves no other.
LEMMA Others ==
  ASSUME TypeOK, NEW w \in Runner, NEW l, Goto(w, l),
         \/ todo' = todo
         \/ \E t : todo' = [todo EXCEPT ![w] = t]
  PROVE \A v \in Runner \ {w}, d \in Delivery :
          at'[v] = at[v] /\ (Delivers(v, d)' <=> Delivers(v, d))
<1>1. \A v \in Runner \ {w} : at'[v] = at[v] /\ todo'[v] = todo[v]
  BY DEF TypeOK, Goto
<1> QED  BY <1>1 DEF Delivers, Current

\* A runner that is done, or has not claimed anything yet, delivers nothing.
LEMMA NotDelivering ==
  ASSUME TypeOK, NEW w \in Runner, NEW l, Goto(w, l),
         l \notin {"load", "post", "sent", "failed", "mark"}
  PROVE \A d \in Delivery : ~Delivers(w, d)'
  BY DEF TypeOK, Goto, Delivers

\* A step of a runner that leaves all rows alone but the one it delivers, or
\* one that nobody delivers, keeps the guards if it keeps them for that row.
LEMMA OneRowStep ==
  ASSUME DeliveryInv, NEW w \in Runner, NEW d \in Delivery,
         \A v \in Runner \ {w}, e \in Delivery :
           at'[v] = at[v] /\ (Delivers(v, e)' <=> Delivers(v, e)),
         removed' = removed,
         \A e \in Delivery \ {d} :
           delivery'[e] = delivery[e] /\ posts'[e] = posts[e],
         \A e \in Delivery : Delivers(w, e)' => e = d,
         Delivers(w, d) \/ \A v \in Runner : ~Delivers(v, d),
         removed => delivery'[d] = Absent,
         delivery'[d] = Absent => removed \/ posts'[d] = 0,
         delivery'[d] # Absent =>
           posts'[d] <= delivery'[d].attempts
                          + (IF delivery'[d].status = "DELIVERING" THEN 1 ELSE 0),
         Delivers(w, d)' =>
           \/ removed
           \/ /\ delivery'[d].status = "DELIVERING"
              /\ at'[w] \in {"load", "post"} => posts'[d] <= delivery'[d].attempts
  PROVE Guarded'
<1> USE DEF DeliveryInv, Status
<1>1. \A v \in Runner : Delivers(v, d)' => v = w
  BY DEF OneSender
<1>2. OneSender'
  BY <1>1 DEF OneSender
<1>3. PostsAreCounted'
  BY DEF PostsAreCounted
<1>4. ClaimGuards'
  <2> SUFFICES ASSUME NEW e \in Delivery, NEW v \in Runner, Delivers(v, e)'
               PROVE /\ removed' \/ delivery'[e].status = "DELIVERING"
                     /\ at'[v] \in {"load", "post"} /\ ~removed' =>
                          posts'[e] <= delivery'[e].attempts
    BY DEF ClaimGuards
  <2>1. CASE e = d
    BY <1>1, <2>1
  <2>2. CASE e # d
    <3>1. v # w /\ Delivers(v, e) /\ at'[v] = at[v]
      BY <2>2
    <3> QED  BY <2>2, <3>1 DEF ClaimGuards
  <2> QED  BY <2>1, <2>2
<1> QED  BY <1>2, <1>3, <1>4 DEF Guarded

\* A step of a runner that delivers nothing afterwards and leaves the rows
\* alone keeps the guards.
LEMMA IdleStep ==
  ASSUME DeliveryInv, NEW w \in Runner,
         \A v \in Runner \ {w}, e \in Delivery :
           at'[v] = at[v] /\ (Delivers(v, e)' <=> Delivers(v, e)),
         UNCHANGED <<delivery, removed, posts>>,
         \A e \in Delivery : ~Delivers(w, e)'
  PROVE Guarded'
<1> USE DEF DeliveryInv, Status
<1>1. OneSender'
  BY DEF OneSender
<1>2. PostsAreCounted'
  BY DEF PostsAreCounted
<1>3. ClaimGuards'
  BY DEF ClaimGuards
<1> QED  BY <1>1, <1>2, <1>3 DEF Guarded

\* Every step keeps the guards.
LEMMA GuardStep ==
  ASSUME DeliveryInv, [Next]_vars
  PROVE Guarded'
<1> USE DEF hook, bounds
<1>0. TypeOK /\ TypeOK' /\ ClaimGuards
  BY TypeStep DEF DeliveryInv
<1>1. ASSUME NEW w \in Runner,
             Publish(w) \/ CreateFails(w) \/ List(w) \/ Select(w) \/ Crash(w)
      PROVE Guarded'
  <2>1. PICK l \in {"create", "idle", "flush", "claim"} : Goto(w, l)
    BY <1>1 DEF Publish, CreateFails, List, Select, Crash, BreakOff
  <2>2. todo' = todo \/ \E t : todo' = [todo EXCEPT ![w] = t]
    BY <1>1 DEF Publish, CreateFails, List, Select, Crash, BreakOff
  <2>3. UNCHANGED <<delivery, removed, posts>>
    BY <1>1 DEF Publish, CreateFails, List, Select, Crash
  <2> QED  BY <1>0, <2>1, <2>2, <2>3, Others, NotDelivering, IdleStep
<1>2. ASSUME NEW w \in Runner, NEW d \in Delivery, Create(w, d)
      PROVE Guarded'
  <2>1. /\ Goto(w, "claim") /\ todo' = [todo EXCEPT ![w] = {d}]
        /\ delivery[d] = Absent /\ ~removed /\ removed' = removed
        /\ delivery' = [delivery EXCEPT ![d] = NewDelivery] /\ posts' = posts
    BY <1>2 DEF Create
  <2>2. delivery'[d] = NewDelivery /\ posts'[d] = 0
    BY <1>0, <2>1 DEF TypeOK, DeliveryInv
  <2>3. \A v \in Runner : ~Delivers(v, d)
    BY <1>0, <2>1, Rows DEF ClaimGuards, Status
  <2>4. \A e \in Delivery : ~Delivers(w, e)'
    BY <1>0, <2>1, NotDelivering
  <2>5. \A v \in Runner \ {w}, e \in Delivery :
          at'[v] = at[v] /\ (Delivers(v, e)' <=> Delivers(v, e))
    BY <1>0, <2>1, Others
  <2>6. \A e \in Delivery \ {d} : delivery'[e] = delivery[e] /\ posts'[e] = posts[e]
    BY <1>0, <2>1 DEF TypeOK
  <2> QED  BY <2>1, <2>2, <2>3, <2>4, <2>5, <2>6, Rows, OneRowStep
<1>3. ASSUME NEW w \in Runner, Tick(w)
      PROVE Guarded'
  <2>1. /\ Goto(w, "flush") /\ todo' = todo /\ removed' = removed
        /\ posts' = posts
    BY <1>3 DEF Tick
  <2>2. \A e \in Delivery : ~Delivers(w, e)'
    BY <1>0, <2>1, NotDelivering
  <2>3. \A v \in Runner \ {w}, e \in Delivery :
          at'[v] = at[v] /\ (Delivers(v, e)' <=> Delivers(v, e))
    BY <1>0, <2>1, Others
  <2>4. ASSUME NEW e \in Delivery
        PROVE \/ delivery'[e] = delivery[e]
              \/ /\ Status(e) # "DELIVERING" /\ delivery[e] \in Row
                 /\ delivery'[e] \in Row
                 /\ delivery'[e].attempts = delivery[e].attempts
                 /\ delivery'[e].status = "CANCELLED"
    <3>1. delivery'[e] = IF ~active /\ Status(e) \in Stale
                         THEN [delivery[e] EXCEPT !.status = "CANCELLED"]
                         ELSE delivery[e]
      BY <1>3 DEF Tick
    <3>2. Status(e) \in Stale => delivery[e] \in Row
      BY <1>0, Rows DEF TypeOK, Status, Stale
    <3>3. Status(e) \in Stale => Status(e) # "DELIVERING"
      BY DEF Stale
    <3>4. CASE ~active /\ Status(e) \in Stale
      <4>1. delivery[e] \in Row /\ Status(e) # "DELIVERING"
        BY <3>2, <3>3, <3>4
      <4>2. delivery'[e] = [delivery[e] EXCEPT !.status = "CANCELLED"]
        BY <3>1, <3>4
      <4> QED  BY <4>1, <4>2, Rows
    <3>5. CASE ~(~active /\ Status(e) \in Stale)
      BY <3>1, <3>5
    <3> QED  BY <3>4, <3>5
  <2>5. OneSender'
    BY <2>2, <2>3 DEF DeliveryInv, OneSender
  <2>6. PostsAreCounted'
    BY <2>1, <2>4, Rows DEF DeliveryInv, PostsAreCounted, Status
  <2>7. ClaimGuards'
    <3> SUFFICES ASSUME NEW e \in Delivery, NEW v \in Runner, Delivers(v, e)'
                 PROVE /\ removed' \/ Status(e)' = "DELIVERING"
                       /\ at'[v] \in {"load", "post"} /\ ~removed' =>
                            posts'[e] <= delivery'[e].attempts
      BY DEF ClaimGuards
    <3>1. v # w /\ Delivers(v, e) /\ at'[v] = at[v]
      BY <2>2, <2>3
    <3>2. removed \/ delivery'[e] = delivery[e]
      BY <1>0, <2>4, <3>1 DEF ClaimGuards
    <3> QED  BY <1>0, <2>1, <3>1, <3>2 DEF ClaimGuards, Status
  <2>8. \A e \in Delivery : /\ removed' => delivery'[e] = Absent
                            /\ delivery'[e] = Absent => removed' \/ posts'[e] = 0
    BY <2>1, <2>4, Rows DEF DeliveryInv
  <2> QED  BY <2>5, <2>6, <2>7, <2>8 DEF Guarded
<1>4. ASSUME NEW w \in Runner, NEW d \in Delivery, Claim(w, d)
      PROVE Guarded'
  <2>1. CASE ~Claimable(d)
    <3>1. PICK l \in {"idle", "claim"} : Goto(w, l)
      BY <1>4, <2>1 DEF Claim, Finish
    <3>2. /\ \E t : todo' = [todo EXCEPT ![w] = t]
          /\ UNCHANGED <<delivery, removed, posts>>
      BY <1>4, <2>1 DEF Claim, Finish
    <3> QED  BY <1>0, <3>1, <3>2, Others, NotDelivering, IdleStep
  <2>2. CASE Claimable(d)
    <3>1. /\ Goto(w, "load") /\ todo' = todo /\ removed' = removed
          /\ posts' = posts /\ Current(w, d)
          /\ delivery' = [delivery EXCEPT ![d] = [@ EXCEPT !.status = "DELIVERING"]]
      BY <1>4, <2>2 DEF Claim
    <3>2. delivery[d] \in Row /\ Status(d) = "PENDING"
      BY <1>0, <2>2, Rows DEF Claimable, Status, TypeOK
    <3>3. /\ delivery'[d] \in Row /\ delivery'[d].status = "DELIVERING"
          /\ delivery'[d].attempts = delivery[d].attempts
      BY <1>0, <3>1, <3>2, Rows DEF TypeOK
    <3>4. ~removed /\ posts[d] <= delivery[d].attempts
      <4>1. delivery[d] # Absent
        BY <3>2, Rows
      <4>2. ~removed
        BY <4>1 DEF DeliveryInv
      <4>3. posts[d] <= delivery[d].attempts + 0
        BY <3>2, <4>1 DEF DeliveryInv, PostsAreCounted, Status
      <4>4. delivery[d].attempts \in Nat
        BY <3>2, Rows
      <4> QED  BY <4>2, <4>3, <4>4
    <3>5. \A v \in Runner : ~Delivers(v, d)
      BY <1>0, <3>2, <3>4 DEF ClaimGuards
    <3>6. \A v \in Runner \ {w}, e \in Delivery :
            at'[v] = at[v] /\ (Delivers(v, e)' <=> Delivers(v, e))
      BY <1>0, <3>1, Others
    <3>7. \A e \in Delivery : Delivers(w, e)' => e = d
      BY <1>0, <3>1, OneCurrent DEF Delivers, Current
    <3>8. \A e \in Delivery \ {d} :
            delivery'[e] = delivery[e] /\ posts'[e] = posts[e]
      BY <1>0, <3>1 DEF TypeOK
    <3>9. posts[d] \in Nat /\ delivery[d].attempts \in Nat
      BY <1>0, <3>2, Rows DEF TypeOK
    <3> QED  BY <3>1, <3>3, <3>4, <3>5, <3>6, <3>7, <3>8, <3>9, Rows, OneRowStep
  <2> QED  BY <2>1, <2>2
<1>5. ASSUME NEW w \in Runner, NEW d \in Delivery,
             Load(w, d) \/ Post(w, d) \/ Succeed(w, d) \/ CountFailure(w, d)
               \/ MarkFailed(w, d)
      PROVE Guarded'
  <2>1. Delivers(w, d) /\ removed' = removed
    BY <1>5 DEF Load, Post, Succeed, CountFailure, MarkFailed, Delivers
  <2>2. PICK l : Goto(w, l)
    BY <1>5 DEF Load, Post, Succeed, CountFailure, MarkFailed, Finish, BreakOff
  <2>3. todo' = todo \/ \E t : todo' = [todo EXCEPT ![w] = t]
    BY <1>5 DEF Load, Post, Succeed, CountFailure, MarkFailed, Finish, BreakOff
  <2>4. \A v \in Runner \ {w}, e \in Delivery :
          at'[v] = at[v] /\ (Delivers(v, e)' <=> Delivers(v, e))
    BY <1>0, <2>2, <2>3, Others
  <2>5. \A e \in Delivery \ {d} : delivery'[e] = delivery[e] /\ posts'[e] = posts[e]
    BY <1>0, <1>5 DEF Load, Post, Succeed, CountFailure, MarkFailed, TypeOK
  <2>6. \A e \in Delivery : Delivers(w, e)' => e = d
    <3>1. CASE todo' = todo
      BY <1>0, <2>1, <3>1, OneCurrent DEF Delivers, Current
    <3>2. CASE todo' # todo
      <4>1. PICK k \in {"idle", "claim"} : Goto(w, k)
        BY <1>5, <3>2 DEF Load, Post, Succeed, CountFailure, MarkFailed,
           Finish, BreakOff
      <4> QED  BY <1>0, <4>1, NotDelivering
    <3> QED  BY <3>1, <3>2
  <2>7. /\ removed => delivery[d] = Absent
        /\ delivery[d] = Absent => removed \/ posts[d] = 0
        /\ ~removed => /\ Status(d) = "DELIVERING" /\ delivery[d] \in Row
                       /\ posts[d] \in Nat /\ delivery[d].attempts \in Nat
                       /\ posts[d] <= delivery[d].attempts + 1
                       /\ at[w] \in {"load", "post"} =>
                            posts[d] <= delivery[d].attempts
    <3>1. ~removed => Status(d) = "DELIVERING" /\ delivery[d] # Absent
      BY <2>1, Rows DEF ClaimGuards, DeliveryInv, Status
    <3>2. ~removed => delivery[d] \in Row
      BY <1>0, <3>1 DEF TypeOK
    <3> QED  BY <1>0, <2>1, <3>1, <3>2, Rows
             DEF ClaimGuards, PostsAreCounted, DeliveryInv, TypeOK
  <2>8. /\ removed => delivery'[d] = Absent
        /\ delivery'[d] = Absent => removed \/ posts'[d] = 0
        /\ ~removed =>
             /\ posts'[d] <= delivery'[d].attempts
                  + (IF delivery'[d].status = "DELIVERING" THEN 1 ELSE 0)
             /\ Delivers(w, d)' =>
                  /\ delivery'[d].status = "DELIVERING"
                  /\ at'[w] \in {"load", "post"} =>
                       posts'[d] <= delivery'[d].attempts
    <3>1. CASE Load(w, d)
      <4>1. CASE delivery' = delivery
        BY <2>7, <3>1, <4>1 DEF Load, Status
      <4>2. CASE delivery' # delivery
        <5>1. /\ ~removed /\ posts' = posts
              /\ delivery' = [delivery EXCEPT ![d] = [@ EXCEPT !.status = "CANCELLED"]]
              /\ \A e \in Delivery : ~Delivers(w, e)'
          BY <1>0, <3>1, <4>2, NotDelivering DEF Load, Finish
        <5>2. /\ delivery'[d] \in Row /\ delivery'[d].status = "CANCELLED"
              /\ delivery'[d].attempts = delivery[d].attempts
          BY <1>0, <2>7, <5>1, Rows DEF TypeOK
        <5>3. at[w] = "load"
          BY <3>1 DEF Load
        <5> QED  BY <2>7, <5>1, <5>2, <5>3, Rows
      <4> QED  BY <4>1, <4>2
    <3>2. CASE Post(w, d)
      <4>1. /\ at[w] = "post" /\ delivery' = delivery
            /\ posts'[d] \in {posts[d], posts[d] + 1}
            /\ at'[w] \in {"sent", "failed"}
        BY <1>0, <3>2 DEF Post, Goto, TypeOK
      <4>2. removed => delivery'[d] = Absent
        BY <2>7, <4>1
      <4>3. ~removed => delivery[d] # Absent
        BY <2>7, Rows
      <4> QED  BY <2>7, <4>1, <4>2, <4>3 DEF Status
    <3>3. CASE Succeed(w, d)
      <4>1. CASE delivery' = delivery
        <5>1. posts' = posts /\ at'[w] \notin {"load", "post"}
          BY <1>0, <3>3 DEF Succeed, Finish, Goto, TypeOK
        <5> QED  BY <2>7, <4>1, <5>1 DEF Status
      <4>2. CASE delivery' # delivery
        <5>1. /\ ~removed /\ posts' = posts
              /\ delivery' = [delivery EXCEPT ![d] = Stored(d)]
              /\ \A e \in Delivery : ~Delivers(w, e)'
          BY <1>0, <3>3, <4>2, NotDelivering DEF Succeed, Finish
        <5>2. delivery'[d] = Stored(d)
          BY <1>0, <5>1 DEF TypeOK
        <5>3. /\ delivery'[d].status = "SUCCESS"
              /\ delivery'[d].attempts = delivery[d].attempts + 1
          BY <5>2 DEF Stored
        <5>4. delivery'[d] # Absent
          BY <5>3, Rows
        <5> QED  BY <2>7, <5>1, <5>3, <5>4
      <4> QED  BY <4>1, <4>2
    <3>4. CASE CountFailure(w, d)
      <4>1. /\ delivery' = delivery /\ posts' = posts
            /\ at'[w] \notin {"load", "post"}
        BY <1>0, <3>4 DEF CountFailure, BreakOff, Goto, TypeOK
      <4> QED  BY <2>7, <4>1 DEF Status
    <3>5. CASE MarkFailed(w, d)
      <4>1. CASE removed
        BY <2>7, <3>5, <4>1 DEF MarkFailed
      <4>2. CASE ~removed
        <5>1. PICK n \in {"never", "later"} :
                delivery' = [delivery EXCEPT ![d] =
                  [status |-> "FAILED", attempts |-> @.attempts + 1, next |-> n]]
          BY <3>5, <4>2 DEF MarkFailed
        <5>2. delivery'[d] = [status |-> "FAILED",
                              attempts |-> delivery[d].attempts + 1, next |-> n]
          BY <1>0, <5>1 DEF TypeOK
        <5>3. posts' = posts /\ \A e \in Delivery : ~Delivers(w, e)'
          BY <1>0, <3>5, <4>2, NotDelivering DEF MarkFailed, Finish
        <5>4. delivery'[d] \in Row
          BY <2>7, <4>2, <5>2, Outcomes
        <5> QED  BY <2>7, <4>2, <5>2, <5>3, <5>4, Rows
      <4> QED  BY <4>1, <4>2
    <3> QED  BY <1>5, <3>1, <3>2, <3>3, <3>4, <3>5
  <2> QED  BY <2>1, <2>4, <2>5, <2>6, <2>8, OneRowStep
<1>6. ASSUME NEW d \in Delivery, Elapse(d)
      PROVE Guarded'
  <2>1. /\ UNCHANGED <<at, todo, removed, posts>> /\ Status(d) = "FAILED"
        /\ delivery' = [delivery EXCEPT ![d] = [@ EXCEPT !.next = "now"]]
    BY <1>6 DEF Elapse
  <2>2. delivery[d] \in Row
    BY <1>0, <2>1, Rows DEF TypeOK, Status
  <2>3. /\ delivery'[d] \in Row /\ delivery'[d].status = delivery[d].status
        /\ delivery'[d].attempts = delivery[d].attempts
    BY <1>0, <2>1, <2>2, Rows DEF TypeOK
  <2>4. \A e \in Delivery \ {d} : delivery'[e] = delivery[e]
    BY <1>0, <2>1 DEF TypeOK
  <2>5. \A v \in Runner, e \in Delivery : Delivers(v, e)' <=> Delivers(v, e)
    BY <2>1 DEF Delivers, Current
  <2>6. OneSender'
    BY <2>5 DEF DeliveryInv, OneSender
  <2>7. PostsAreCounted'
    BY <2>1, <2>2, <2>3, <2>4, Rows DEF DeliveryInv, PostsAreCounted, Status
  <2>8. ClaimGuards'
    BY <1>0, <2>1, <2>3, <2>4, <2>5 DEF ClaimGuards, Status
  <2>9. \A e \in Delivery : /\ removed' => delivery'[e] = Absent
                            /\ delivery'[e] = Absent => removed' \/ posts'[e] = 0
    BY <2>1, <2>2, <2>3, <2>4, Rows DEF DeliveryInv
  <2> QED  BY <2>6, <2>7, <2>8, <2>9 DEF Guarded
<1>7. CASE Update \/ UNCHANGED vars
  <2>1. UNCHANGED <<delivery, removed, at, todo, posts>>
    BY <1>7 DEF Update, vars
  <2> QED
    BY <2>1 DEF Guarded, DeliveryInv, OneSender, PostsAreCounted, ClaimGuards,
       Delivers, Current, Status
<1>8. CASE Remove
  <2>1. /\ removed' /\ UNCHANGED <<at, todo, posts>>
        /\ \A d \in Delivery : delivery'[d] = Absent
    BY <1>8 DEF Remove
  <2>2. OneSender'
    BY <2>1 DEF DeliveryInv, OneSender, Delivers, Current
  <2> QED  BY <2>1, <2>2 DEF Guarded, PostsAreCounted, ClaimGuards
<1> QED
  BY <1>1, <1>2, <1>3, <1>4, <1>5, <1>6, <1>7, <1>8 DEF Next, Proceed, Attempt

-----------------------------------------------------------------------------
(* Theorems *)

LEMMA InitDelivery == Init => DeliveryInv
<1> SUFFICES ASSUME Init PROVE DeliveryInv
  OBVIOUS
<1>1. TypeOK
  BY WebhooksAssumption DEF Init, TypeOK
<1>2. \A w \in Runner, d \in Delivery : ~Delivers(w, d)
  BY DEF Init, Delivers
<1> QED
  BY <1>1, <1>2 DEF Init, DeliveryInv, OneSender, PostsAreCounted, ClaimGuards

\* DeliveryInv is inductive: the conditional update of attempt keeps everybody
\* else away from a delivery until its outcome is stored.
THEOREM DeliveryInvariant == Spec => []DeliveryInv
<1>1. Init => DeliveryInv
  BY InitDelivery
<1>2. DeliveryInv /\ [Next]_vars => DeliveryInv'
  BY TypeStep, GuardStep DEF DeliveryInv, Guarded
<1> QED  BY <1>1, <1>2, PTL DEF Spec

\* No two runners deliver the same delivery at a time.
THEOREM ClaimsAreExclusive == Spec => []OneSender
<1>1. DeliveryInv => OneSender
  BY DEF DeliveryInv
<1> QED  BY DeliveryInvariant, <1>1, PTL

\* A delivery is sent once for each attempt it counts, and once more at most
\* while an attempt is under way or broke off.
THEOREM EveryPostCounts == Spec => []PostsAreCounted
<1>1. DeliveryInv => PostsAreCounted
  BY DEF DeliveryInv
<1> QED  BY DeliveryInvariant, <1>1, PTL

\* SUCCESS and CANCELLED are final: no late runner, cancellation or failure
\* writes over them.
THEOREM OutcomesAreFinal == Spec => OutcomeIsFinal
<1> DEFINE Kept == \A d \in Delivery : Status(d) \in {"SUCCESS", "CANCELLED"} =>
                     delivery'[d] = delivery[d] \/ removed'
<1>1. DeliveryInv /\ [Next]_vars => [Kept]_vars
  <2> SUFFICES ASSUME DeliveryInv, [Next]_vars, NEW d \in Delivery,
                      Status(d) \in {"SUCCESS", "CANCELLED"}, ~removed'
               PROVE delivery'[d] = delivery[d]
    OBVIOUS
  <2>0. TypeOK /\ ClaimGuards
    BY DEF DeliveryInv
  <2>1. ASSUME NEW w \in Runner,
               Publish(w) \/ CreateFails(w) \/ List(w) \/ Select(w) \/ Crash(w)
        PROVE delivery' = delivery
    BY <2>1 DEF Publish, CreateFails, List, Select, Crash
  <2>2. ASSUME NEW w \in Runner, NEW e \in Delivery, Create(w, e)
        PROVE delivery'[d] = delivery[d]
    BY <2>0, <2>2, Rows DEF Create, TypeOK, Status
  <2>3. ASSUME NEW w \in Runner, Tick(w)  PROVE delivery'[d] = delivery[d]
    BY <2>3 DEF Tick, Stale
  <2>4. ASSUME NEW w \in Runner, NEW e \in Delivery, Claim(w, e)
        PROVE delivery'[d] = delivery[d]
    <3>1. CASE d = e
      BY <2>4, <3>1 DEF Claim, Claimable
    <3>2. CASE d # e
      BY <2>0, <2>4, <3>2 DEF Claim, TypeOK
    <3> QED  BY <3>1, <3>2
  <2>5. ASSUME NEW w \in Runner, NEW e \in Delivery,
               Load(w, e) \/ Post(w, e) \/ Succeed(w, e) \/ CountFailure(w, e)
                 \/ MarkFailed(w, e)
        PROVE delivery'[d] = delivery[d]
    <3>1. Delivers(w, e) /\ removed' = removed
      BY <2>5 DEF Load, Post, Succeed, CountFailure, MarkFailed, Delivers, hook
    <3>2. e # d
      BY <2>0, <3>1 DEF ClaimGuards
    <3> QED
      BY <2>0, <2>5, <3>2
         DEF Load, Post, Succeed, CountFailure, MarkFailed, TypeOK
  <2>6. ASSUME NEW e \in Delivery, Elapse(e)  PROVE delivery'[d] = delivery[d]
    <3>1. e # d
      BY <2>6 DEF Elapse
    <3> QED  BY <2>0, <2>6, <3>1 DEF Elapse, TypeOK
  <2>7. CASE Update \/ Remove
    BY <2>7 DEF Update, Remove
  <2> QED
    BY <2>1, <2>2, <2>3, <2>4, <2>5, <2>6, <2>7 DEF Next, Proceed, Attempt, vars
<1> QED  BY DeliveryInvariant, <1>1, PTL DEF Spec, OutcomeIsFinal

\* A webhook that is off, with nobody past the check of attempt, is quiet until
\* its owner turns it on: attempt (line 226) looks at isActive again after
\* its claim, and only an attempt past that check sends or writes isActive.
THEOREM DisabledIsQuiet == Spec => StaysQuiet
<1> DEFINE Late == {"post", "sent", "failed", "mark"}
<1>1. DeliveryInv /\ [Next]_vars => [Quiet => Quiet' \/ updates' # updates]_vars
  <2> SUFFICES ASSUME DeliveryInv, [Next]_vars, Quiet, updates' = updates
               PROVE Quiet'
    OBVIOUS
  <2>0. TypeOK /\ ~active /\ \A w \in Runner : at[w] \notin Late
    BY DEF DeliveryInv, Quiet
  <2>1. ASSUME NEW w \in Runner, NEW l, Goto(w, l), l \notin Late, active' = active
        PROVE Quiet'
    BY <2>0, <2>1 DEF Goto, TypeOK, Quiet
  <2>2. ASSUME NEW w \in Runner,
               Publish(w) \/ CreateFails(w) \/ Tick(w) \/ List(w) \/ Select(w)
                 \/ Crash(w)
        PROVE Quiet'
    <3>1. PICK l \in {"create", "idle", "flush", "claim"} : Goto(w, l)
      BY <2>2 DEF Publish, CreateFails, Tick, List, Select, Crash, BreakOff
    <3>2. active' = active
      BY <2>2 DEF Publish, CreateFails, Tick, List, Select, Crash, hook
    <3> QED  BY <2>1, <3>1, <3>2
  <2>3. ASSUME NEW w \in Runner, NEW d \in Delivery,
               Create(w, d) \/ Claim(w, d) \/ Load(w, d)
        PROVE Quiet'
    <3>1. PICK l \in {"idle", "claim", "load"} : Goto(w, l)
      BY <2>0, <2>3 DEF Create, Claim, Load, Finish
    <3>2. active' = active
      BY <2>3 DEF Create, Claim, Load, hook
    <3> QED  BY <2>1, <3>1, <3>2
  <2>4. ASSUME NEW w \in Runner, NEW d \in Delivery,
               Post(w, d) \/ Succeed(w, d) \/ CountFailure(w, d)
                 \/ MarkFailed(w, d)
        PROVE FALSE
    BY <2>0, <2>4 DEF Post, Succeed, CountFailure, MarkFailed
  <2>5. CASE Remove \/ UNCHANGED vars \/ \E d \in Delivery : Elapse(d)
    BY <2>0, <2>5 DEF Remove, vars, Elapse, hook, Quiet
  <2>6. ~Update
    BY <2>0 DEF Update, DeliveryInv, TypeOK
  <2> QED
    BY <2>2, <2>3, <2>4, <2>5, <2>6 DEF Next, Proceed, Attempt
<1> QED  BY DeliveryInvariant, <1>1, PTL DEF Spec, StaysQuiet

-----------------------------------------------------------------------------
(* Webhooks implements Outbox                                               *)

\* The refinement mapping, named.
Log == [d \in Delivery |-> Status(d)]
Taken == Held({"load", "post"})
Answered == Held({"sent"})
Failing == Held({"failed", "mark"})

\* A step of Outbox, or a stutter.
Mapped ==
  [Promise!Next]_<<Log, Taken, Answered, Failing, posts, removed>>

\* The steps of Outbox that one delivery makes, in the terms of Webhooks.
LEMMA Steps ==
  ASSUME NEW d \in Delivery,
         \/ /\ ~removed /\ Log[d] = "absent"
            /\ Log' = [Log EXCEPT ![d] = "PENDING"]
            /\ UNCHANGED <<Taken, Answered, Failing, posts, removed>>
         \/ /\ Log[d] = "PENDING" /\ d \notin Taken \cup Answered \cup Failing
            /\ Log' = [Log EXCEPT ![d] = "DELIVERING"]
            /\ Taken' = Taken \cup {d}
            /\ UNCHANGED <<Answered, Failing, posts, removed>>
         \/ /\ d \in Taken /\ Taken' = Taken \ {d}
            /\ \/ Answered' = Answered \cup {d} /\ UNCHANGED Failing
               \/ Failing' = Failing \cup {d} /\ UNCHANGED Answered
            /\ posts' = [posts EXCEPT ![d] = @ + 1]
            /\ UNCHANGED <<Log, removed>>
         \/ /\ d \in Taken \cup Answered
            /\ Taken' = Taken \ {d} /\ Answered' = Answered \ {d}
            /\ Failing' = Failing \cup {d}
            /\ UNCHANGED <<Log, posts, removed>>
         \/ /\ Log[d] = "DELIVERING"
            /\ \/ d \in Taken /\ Log' = [Log EXCEPT ![d] = "CANCELLED"]
               \/ d \in Answered /\ Log' = [Log EXCEPT ![d] = "SUCCESS"]
               \/ d \in Failing /\ Log' = [Log EXCEPT ![d] = "FAILED"]
            /\ Taken' = Taken \ {d} /\ Answered' = Answered \ {d}
            /\ Failing' = Failing \ {d}
            /\ UNCHANGED <<posts, removed>>
         \/ /\ d \in Taken \cup Answered \cup Failing
            /\ Taken' = Taken \ {d} /\ Answered' = Answered \ {d}
            /\ Failing' = Failing \ {d}
            /\ UNCHANGED <<Log, posts, removed>>
  PROVE Mapped
<1> USE DEF Log, Taken, Answered, Failing
<1>1. CASE /\ ~removed /\ Log[d] = "absent"
           /\ Log' = [Log EXCEPT ![d] = "PENDING"]
           /\ UNCHANGED <<Taken, Answered, Failing, posts, removed>>
  <2>1. Promise!Enter(d)
    BY <1>1 DEF Promise!Enter, Promise!hands
  <2> QED  BY <2>1 DEF Mapped, Promise!Next
<1>2. CASE /\ Log[d] = "PENDING" /\ d \notin Taken \cup Answered \cup Failing
           /\ Log' = [Log EXCEPT ![d] = "DELIVERING"]
           /\ Taken' = Taken \cup {d}
           /\ UNCHANGED <<Answered, Failing, posts, removed>>
  <2>1. Promise!Take(d)
    BY <1>2 DEF Promise!Take, Promise!InHand
  <2> QED  BY <2>1 DEF Mapped, Promise!Next
<1>3. CASE /\ d \in Taken /\ Taken' = Taken \ {d}
           /\ \/ Answered' = Answered \cup {d} /\ UNCHANGED Failing
              \/ Failing' = Failing \cup {d} /\ UNCHANGED Answered
           /\ posts' = [posts EXCEPT ![d] = @ + 1]
           /\ UNCHANGED <<Log, removed>>
  <2>1. Promise!Send(d)
    BY <1>3 DEF Promise!Send
  <2> QED  BY <2>1 DEF Mapped, Promise!Next
<1>4. CASE /\ d \in Taken \cup Answered
           /\ Taken' = Taken \ {d} /\ Answered' = Answered \ {d}
           /\ Failing' = Failing \cup {d}
           /\ UNCHANGED <<Log, posts, removed>>
  <2>1. Promise!Fail(d)
    BY <1>4 DEF Promise!Fail
  <2> QED  BY <2>1 DEF Mapped, Promise!Next
<1>5. CASE /\ Log[d] = "DELIVERING"
           /\ \/ d \in Taken /\ Log' = [Log EXCEPT ![d] = "CANCELLED"]
              \/ d \in Answered /\ Log' = [Log EXCEPT ![d] = "SUCCESS"]
              \/ d \in Failing /\ Log' = [Log EXCEPT ![d] = "FAILED"]
           /\ Taken' = Taken \ {d} /\ Answered' = Answered \ {d}
           /\ Failing' = Failing \ {d}
           /\ UNCHANGED <<posts, removed>>
  <2>1. Promise!Store(d)
    BY <1>5 DEF Promise!Store, Promise!Drop
  <2> QED  BY <2>1 DEF Mapped, Promise!Next
<1>6. CASE /\ d \in Taken \cup Answered \cup Failing
           /\ Taken' = Taken \ {d} /\ Answered' = Answered \ {d}
           /\ Failing' = Failing \ {d}
           /\ UNCHANGED <<Log, posts, removed>>
  <2>1. Promise!LetGo(d)
    BY <1>6 DEF Promise!LetGo, Promise!InHand, Promise!Drop
  <2> QED  BY <2>1 DEF Mapped, Promise!Next
<1> QED  BY <1>1, <1>2, <1>3, <1>4, <1>5, <1>6

\* Where the one delivery of runner w is, before its step and after it.
LEMMA HeldStep ==
  ASSUME DeliveryInv, NEW w \in Runner, NEW d \in Delivery, NEW labels,
         \A v \in Runner \ {w}, e \in Delivery :
           at'[v] = at[v] /\ (Delivers(v, e)' <=> Delivers(v, e)),
         \A e \in Delivery : Delivers(w, e) \/ Delivers(w, e)' => e = d,
         Delivers(w, d) \/ \A v \in Runner : ~Delivers(v, d)
  PROVE /\ d \in Held(labels) <=> Delivers(w, d) /\ at[w] \in labels
        /\ Held(labels)' = IF Delivers(w, d)' /\ at'[w] \in labels
                             THEN Held(labels) \cup {d} ELSE Held(labels) \ {d}
<1>1. \A v \in Runner \ {w} : ~Delivers(v, d)
  BY DEF DeliveryInv, OneSender
<1>2. d \in Held(labels) <=> Delivers(w, d) /\ at[w] \in labels
  BY <1>1 DEF Held
<1>3. Held(labels)' = {e \in Delivery : \E v \in Runner :
                         Delivers(v, e)' /\ at'[v] \in labels}
  BY DEF Held
<1>4. ASSUME NEW e \in Delivery, e # d
      PROVE e \in Held(labels)' <=> e \in Held(labels)
  BY <1>3, <1>4 DEF Held
<1>5. d \in Held(labels)' <=> Delivers(w, d)' /\ at'[w] \in labels
  BY <1>1, <1>3
<1>6. Held(labels) \subseteq Delivery /\ Held(labels)' \subseteq Delivery
  BY <1>3 DEF Held
<1> QED  BY <1>2, <1>4, <1>5, <1>6

\* A step of a runner with nothing in hand before it or after.
LEMMA HeldKept ==
  ASSUME NEW w \in Runner,
         \A v \in Runner \ {w}, e \in Delivery :
           at'[v] = at[v] /\ (Delivers(v, e)' <=> Delivers(v, e)),
         \A e \in Delivery : ~Delivers(w, e) /\ ~Delivers(w, e)'
  PROVE UNCHANGED <<Taken, Answered, Failing>>
<1>1. ASSUME NEW labels  PROVE Held(labels)' = Held(labels)
  <2>1. \A e \in Delivery :
          (\E v \in Runner : Delivers(v, e)' /\ at'[v] \in labels)
            <=> (\E v \in Runner : Delivers(v, e) /\ at[v] \in labels)
    OBVIOUS
  <2> QED  BY <2>1 DEF Held
<1> QED  BY <1>1 DEF Taken, Answered, Failing

LEMMA LogStep ==
  ASSUME NEW d \in Delivery,
         \A e \in Delivery \ {d} : delivery'[e] = delivery[e]
  PROVE /\ Log[d] = Status(d)
        /\ Log' = [Log EXCEPT ![d] = delivery'[d].status]
  BY DEF Log, Status

\* A step of a runner that has nothing in hand.
LEMMA IdleMaps ==
  ASSUME DeliveryInv, NEW w \in Runner, NEW l,
         at[w] \notin {"load", "post", "sent", "failed", "mark"},
         Goto(w, l), l \notin {"load", "post", "sent", "failed", "mark"},
         todo' = todo \/ \E t : todo' = [todo EXCEPT ![w] = t]
  PROVE /\ UNCHANGED <<Taken, Answered, Failing>>
        /\ UNCHANGED <<delivery, posts, removed>> => Mapped
<1>1. TypeOK
  BY DEF DeliveryInv
<1>2. \A v \in Runner \ {w}, e \in Delivery :
        at'[v] = at[v] /\ (Delivers(v, e)' <=> Delivers(v, e))
  BY <1>1, Others
<1>3. \A e \in Delivery : ~Delivers(w, e) /\ ~Delivers(w, e)'
  BY <1>1, NotDelivering DEF Delivers
<1>4. UNCHANGED <<Taken, Answered, Failing>>
  BY <1>2, <1>3, HeldKept
<1>5. ASSUME UNCHANGED <<delivery, posts, removed>>  PROVE Mapped
  <2>1. Log' = Log
    BY <1>5 DEF Log, Status
  <2> QED  BY <1>4, <1>5, <2>1 DEF Mapped
<1> QED  BY <1>4, <1>5

\* Where the delivery in the hand of w is while w has it.
LEMMA InHandOf ==
  ASSUME DeliveryInv, NEW w \in Runner, NEW d \in Delivery, Delivers(w, d)
  PROVE /\ d \in Taken <=> at[w] \in {"load", "post"}
        /\ d \in Answered <=> at[w] = "sent"
        /\ d \in Failing <=> at[w] \in {"failed", "mark"}
        /\ d \in Taken \cup Answered \cup Failing
        /\ removed \/ Log[d] = "DELIVERING"
<1>1. \A v \in Runner : Delivers(v, d) => v = w
  BY DEF DeliveryInv, OneSender
<1>2. \A labels : d \in Held(labels) <=> at[w] \in labels
  BY <1>1 DEF Held
<1>3. removed \/ Log[d] = "DELIVERING"
  BY DEF DeliveryInv, ClaimGuards, Log
<1>4. at[w] \in {"load", "post", "sent", "failed", "mark"}
  BY DEF Delivers
<1> QED  BY <1>2, <1>3, <1>4 DEF Taken, Answered, Failing

\* A runner goes on with the delivery that it has in hand.
LEMMA StayMaps ==
  ASSUME DeliveryInv, NEW w \in Runner, NEW d \in Delivery, NEW l,
         Delivers(w, d), Goto(w, l), todo' = todo,
         l \in {"load", "post", "sent", "failed", "mark"},
         delivery' = delivery, removed' = removed,
         \/ posts' = posts /\ l = at[w]
         \/ posts' = posts /\ at[w] = "load" /\ l = "post"
         \/ posts' = posts /\ at[w] = "failed" /\ l = "mark"
         \/ posts' = posts /\ at[w] \in {"post", "sent"} /\ l = "failed"
         \/ /\ posts' = [posts EXCEPT ![d] = @ + 1]
            /\ at[w] = "post" /\ l \in {"sent", "failed"}
  PROVE Mapped
<1>1. TypeOK
  BY DEF DeliveryInv
<1>2. \A v \in Runner \ {w}, e \in Delivery :
        at'[v] = at[v] /\ (Delivers(v, e)' <=> Delivers(v, e))
  BY <1>1, Others
<1>3. at'[w] = l /\ Delivers(w, d)'
  BY <1>1 DEF Goto, TypeOK, Delivers, Current
<1>4. \A e \in Delivery : Delivers(w, e) \/ Delivers(w, e)' => e = d
  BY <1>1, OneCurrent DEF Delivers, Current
<1>5. /\ Taken' = IF l \in {"load", "post"} THEN Taken \cup {d} ELSE Taken \ {d}
      /\ Answered' = IF l = "sent" THEN Answered \cup {d} ELSE Answered \ {d}
      /\ Failing' = IF l \in {"failed", "mark"}
                      THEN Failing \cup {d} ELSE Failing \ {d}
  <2>1. ASSUME NEW labels
        PROVE Held(labels)' = IF l \in labels THEN Held(labels) \cup {d}
                                              ELSE Held(labels) \ {d}
    BY <1>2, <1>3, <1>4, HeldStep
  <2> QED  BY <2>1 DEF Taken, Answered, Failing
<1>6. Log' = Log
  BY DEF Log, Status
<1>7. /\ d \in Taken <=> at[w] \in {"load", "post"}
      /\ d \in Answered <=> at[w] = "sent"
      /\ d \in Failing <=> at[w] \in {"failed", "mark"}
  BY InHandOf
<1>8. CASE /\ posts' = posts
           /\ \/ l = at[w] \/ (at[w] = "load" /\ l = "post")
              \/ (at[w] = "failed" /\ l = "mark")
  <2>1. UNCHANGED <<Taken, Answered, Failing>>
    BY <1>5, <1>7, <1>8
  <2> QED  BY <1>6, <1>8, <2>1 DEF Mapped
<1>9. CASE posts' = posts /\ at[w] \in {"post", "sent"} /\ l = "failed"
  <2>1. /\ d \in Taken \cup Answered /\ Taken' = Taken \ {d}
        /\ Answered' = Answered \ {d} /\ Failing' = Failing \cup {d}
    BY <1>5, <1>7, <1>9
  <2> QED  BY <1>6, <1>9, <2>1, Steps
<1>10. CASE /\ posts' = [posts EXCEPT ![d] = @ + 1]
            /\ at[w] = "post" /\ l \in {"sent", "failed"}
  <2>1. /\ d \in Taken /\ Taken' = Taken \ {d}
        /\ \/ Answered' = Answered \cup {d} /\ Failing' = Failing
           \/ Failing' = Failing \cup {d} /\ Answered' = Answered
    BY <1>5, <1>7, <1>10
  <2> QED  BY <1>6, <1>10, <2>1, Steps
<1> QED  BY <1>8, <1>9, <1>10

\* A runner lets go of the delivery that it has in hand, and may write its row.
LEMMA DoneMaps ==
  ASSUME DeliveryInv, NEW w \in Runner, NEW d \in Delivery, NEW l, NEW x,
         Delivers(w, d), Goto(w, l), \E t : todo' = [todo EXCEPT ![w] = t],
         l \notin {"load", "post", "sent", "failed", "mark"},
         removed' = removed, posts' = posts,
         \/ delivery' = delivery
         \/ /\ ~removed /\ delivery' = [delivery EXCEPT ![d] = x]
            /\ \/ at[w] = "load" /\ x.status = "CANCELLED"
               \/ at[w] = "sent" /\ x.status = "SUCCESS"
               \/ at[w] = "mark" /\ x.status = "FAILED"
  PROVE Mapped
<1>1. TypeOK
  BY DEF DeliveryInv
<1>2. \A v \in Runner \ {w}, e \in Delivery :
        at'[v] = at[v] /\ (Delivers(v, e)' <=> Delivers(v, e))
  BY <1>1, Others
<1>3. \A e \in Delivery : ~Delivers(w, e)'
  BY <1>1, NotDelivering
<1>4. \A e \in Delivery : Delivers(w, e) \/ Delivers(w, e)' => e = d
  BY <1>1, <1>3, OneCurrent DEF Delivers
<1>5. /\ Taken' = Taken \ {d} /\ Answered' = Answered \ {d}
      /\ Failing' = Failing \ {d}
  <2>1. ASSUME NEW labels  PROVE Held(labels)' = Held(labels) \ {d}
    BY <1>2, <1>3, <1>4, HeldStep
  <2> QED  BY <2>1 DEF Taken, Answered, Failing
<1>6. /\ d \in Taken <=> at[w] \in {"load", "post"}
      /\ d \in Answered <=> at[w] = "sent"
      /\ d \in Failing <=> at[w] \in {"failed", "mark"}
      /\ d \in Taken \cup Answered \cup Failing
      /\ removed \/ Log[d] = "DELIVERING"
  BY InHandOf
<1>7. CASE delivery' = delivery
  <2>1. Log' = Log
    BY <1>7 DEF Log, Status
  <2> QED  BY <1>5, <1>6, <2>1, Steps
<1>8. CASE /\ ~removed /\ delivery' = [delivery EXCEPT ![d] = x]
           /\ \/ at[w] = "load" /\ x.status = "CANCELLED"
              \/ at[w] = "sent" /\ x.status = "SUCCESS"
              \/ at[w] = "mark" /\ x.status = "FAILED"
  <2>1. /\ delivery'[d] = x /\ \A e \in Delivery \ {d} : delivery'[e] = delivery[e]
    BY <1>1, <1>8 DEF TypeOK
  <2>2. Log[d] = "DELIVERING" /\ Log' = [Log EXCEPT ![d] = x.status]
    BY <1>6, <1>8, <2>1, LogStep
  <2>3. \/ d \in Taken /\ Log' = [Log EXCEPT ![d] = "CANCELLED"]
        \/ d \in Answered /\ Log' = [Log EXCEPT ![d] = "SUCCESS"]
        \/ d \in Failing /\ Log' = [Log EXCEPT ![d] = "FAILED"]
    BY <1>6, <1>8, <2>2
  <2> QED  BY <1>5, <2>2, <2>3, Steps
<1> QED  BY <1>7, <1>8

\* Creating a delivery and taking one in hand.
LEMMA EnterMaps ==
  ASSUME DeliveryInv, NEW w \in Runner, NEW d \in Delivery, Create(w, d)
  PROVE Mapped
<1>0. TypeOK
  BY DEF DeliveryInv
<1>1. /\ Goto(w, "claim") /\ \E t : todo' = [todo EXCEPT ![w] = t]
      /\ delivery[d] = Absent /\ ~removed /\ removed' = removed
      /\ delivery' = [delivery EXCEPT ![d] = NewDelivery] /\ posts' = posts
      /\ at[w] = "create"
  BY DEF Create, hook
<1>2. UNCHANGED <<Taken, Answered, Failing>>
  BY <1>1, IdleMaps
<1>3. /\ delivery'[d] = NewDelivery
      /\ \A e \in Delivery \ {d} : delivery'[e] = delivery[e]
  BY <1>0, <1>1 DEF TypeOK
<1>4. Log[d] = "absent" /\ Log' = [Log EXCEPT ![d] = "PENDING"]
  BY <1>1, <1>3, LogStep, Rows DEF Status
<1> QED  BY <1>1, <1>2, <1>4, Steps

LEMMA TakeMaps ==
  ASSUME DeliveryInv, NEW w \in Runner, NEW d \in Delivery, Claim(w, d),
         Claimable(d)
  PROVE Mapped
<1>0. TypeOK
  BY DEF DeliveryInv
<1>1. /\ Goto(w, "load") /\ todo' = todo /\ removed' = removed
      /\ posts' = posts /\ Current(w, d) /\ at[w] = "claim"
      /\ delivery' = [delivery EXCEPT ![d] = [@ EXCEPT !.status = "DELIVERING"]]
  BY DEF Claim, hook
<1>2. Status(d) = "PENDING" /\ delivery[d] \in Row
  BY <1>0, Rows DEF Claimable, Status, TypeOK
<1>3. \A v \in Runner \ {w}, e \in Delivery :
        at'[v] = at[v] /\ (Delivers(v, e)' <=> Delivers(v, e))
  BY <1>0, <1>1, Others
<1>4. /\ delivery'[d].status = "DELIVERING"
      /\ \A e \in Delivery \ {d} : delivery'[e] = delivery[e]
  BY <1>0, <1>1, <1>2, Rows DEF TypeOK
<1>5. /\ at'[w] = "load" /\ Delivers(w, d)'
      /\ \A e \in Delivery : ~Delivers(w, e)
      /\ \A e \in Delivery : Delivers(w, e)' => e = d
  <2>1. at'[w] = "load" /\ \A e \in Delivery : ~Delivers(w, e)
    BY <1>0, <1>1 DEF Goto, TypeOK, Delivers
  <2>2. \A e \in Delivery : Delivers(w, e)' <=> Current(w, e)
    BY <1>1, <2>1 DEF Delivers, Current
  <2> QED  BY <1>0, <1>1, <2>1, <2>2, OneCurrent
<1>6. Log[d] = "PENDING" /\ Log' = [Log EXCEPT ![d] = "DELIVERING"]
  BY <1>2, <1>4, LogStep
<1>7. \A v \in Runner : ~Delivers(v, d)
  <2>1. ~removed /\ Status(d) # "DELIVERING"
    BY <1>2, Rows DEF DeliveryInv
  <2> QED  BY <2>1 DEF DeliveryInv, ClaimGuards
<1>8. /\ d \notin Taken \cup Answered \cup Failing
      /\ Taken' = Taken \cup {d} /\ UNCHANGED <<Answered, Failing>>
  <2>1. ASSUME NEW labels  PROVE d \notin Held(labels)
    BY <1>7 DEF Held
  <2>2. ASSUME NEW labels
        PROVE Held(labels)' = IF "load" \in labels THEN Held(labels) \cup {d}
                                                   ELSE Held(labels) \ {d}
    BY <1>3, <1>5, <1>7, HeldStep
  <2>3. Taken' = Taken \cup {d}
    BY <2>2 DEF Taken
  <2>4. UNCHANGED <<Answered, Failing>>
    BY <2>1, <2>2 DEF Answered, Failing
  <2> QED  BY <2>1, <2>3, <2>4 DEF Taken, Answered, Failing
<1> QED  BY <1>1, <1>6, <1>8, Steps

\* A runner and the delivery it has in hand: Send, Fail, Store, LetGo or nothing.
LEMMA AttemptMaps ==
  ASSUME DeliveryInv, NEW w \in Runner, NEW d \in Delivery,
         Load(w, d) \/ Post(w, d) \/ Succeed(w, d) \/ CountFailure(w, d)
           \/ MarkFailed(w, d)
  PROVE Mapped
<1> USE DEF hook
<1>0. TypeOK
  BY DEF DeliveryInv
<1>1. Delivers(w, d) /\ removed' = removed
  BY DEF Load, Post, Succeed, CountFailure, MarkFailed, Delivers
<1>2. ASSUME Finish(w, d) \/ BreakOff(w)
      PROVE \E l \in {"idle", "claim"} :
              Goto(w, l) /\ \E t : todo' = [todo EXCEPT ![w] = t]
  BY <1>2 DEF Finish, BreakOff
<1>3. CASE Load(w, d)
  <2>0. at[w] = "load" /\ posts' = posts
    BY <1>3 DEF Load
  <2>1. CASE Goto(w, "post") /\ UNCHANGED <<delivery, todo>>
    BY <1>1, <2>0, <2>1, StayMaps
  <2>2. CASE ~active /\ ~removed /\ ~UNCHANGED delivery
    <3>1. PICK x : x = [delivery[d] EXCEPT !.status = "CANCELLED"]
      OBVIOUS
    <3>2. delivery[d] \in Row
      BY <1>0, <1>1, <2>2, Rows DEF DeliveryInv, ClaimGuards, Status, TypeOK
    <3>3. x.status = "CANCELLED"
      BY <3>1, <3>2, Rows
    <3>4. delivery' = [delivery EXCEPT ![d] = x] /\ Finish(w, d)
      BY <1>3, <2>2, <3>1 DEF Load
    <3> QED  BY <1>1, <1>2, <2>0, <2>2, <3>3, <3>4, DoneMaps
  <2>3. CASE Finish(w, d) /\ UNCHANGED delivery
    BY <1>1, <1>2, <2>0, <2>3, DoneMaps
  <2> QED  BY <1>3, <2>1, <2>2, <2>3 DEF Load
<1>4. CASE Post(w, d)
  <2>0. at[w] = "post" /\ UNCHANGED <<delivery, todo>>
    BY <1>4 DEF Post
  <2>1. CASE Goto(w, "failed") /\ UNCHANGED posts
    BY <1>1, <2>0, <2>1, StayMaps
  <2>2. CASE \E result \in {"sent", "failed"} :
               Goto(w, result) /\ posts' = [posts EXCEPT ![d] = @ + 1]
    BY <1>1, <2>0, <2>2, StayMaps
  <2> QED  BY <1>4, <2>1, <2>2 DEF Post
<1>5. CASE Succeed(w, d)
  <2>0. at[w] = "sent" /\ posts' = posts
    BY <1>5 DEF Succeed
  <2>1. CASE Goto(w, "failed") /\ UNCHANGED <<delivery, failures, todo>>
    BY <1>1, <2>0, <2>1, StayMaps
  <2>2. CASE /\ ~removed /\ Finish(w, d)
             /\ delivery' = [delivery EXCEPT ![d] = Stored(d)]
    <3>1. PICK x : x = Stored(d)
      OBVIOUS
    <3>2. x.status = "SUCCESS"
      BY <3>1 DEF Stored
    <3>3. delivery' = [delivery EXCEPT ![d] = x]
      BY <2>2, <3>1
    <3> QED  BY <1>1, <1>2, <2>0, <2>2, <3>2, <3>3, DoneMaps
  <2> QED  BY <1>5, <2>1, <2>2 DEF Succeed
<1>6. CASE CountFailure(w, d)
  <2>0. at[w] = "failed" /\ UNCHANGED <<delivery, posts>>
    BY <1>6 DEF CountFailure
  <2>1. CASE removed /\ BreakOff(w)
    BY <1>1, <1>2, <2>0, <2>1, DoneMaps
  <2>2. CASE Goto(w, "mark") /\ UNCHANGED todo
    BY <1>1, <2>0, <2>2, StayMaps
  <2> QED  BY <1>6, <2>1, <2>2 DEF CountFailure
<1>7. CASE MarkFailed(w, d)
  <2>0. at[w] = "mark" /\ posts' = posts
    BY <1>7 DEF MarkFailed
  <2>1. CASE removed /\ BreakOff(w) /\ UNCHANGED delivery
    BY <1>1, <1>2, <2>0, <2>1, DoneMaps
  <2>2. CASE ~removed /\ Finish(w, d)
    <3>1. PICK x : x = [status |-> "FAILED", attempts |-> delivery[d].attempts + 1,
                        next |-> IF disable[w] THEN "never" ELSE "later"]
      OBVIOUS
    <3>2. x.status = "FAILED"
      BY <3>1
    <3>3. delivery' = [delivery EXCEPT ![d] = x]
      BY <1>7, <2>2, <3>1 DEF MarkFailed
    <3> QED  BY <1>1, <1>2, <2>0, <2>2, <3>2, <3>3, DoneMaps
  <2> QED  BY <1>7, <2>1, <2>2 DEF MarkFailed
<1> QED  BY <1>3, <1>4, <1>5, <1>6, <1>7

\* A tick that finds the webhook disabled cancels what waits or has failed.
LEMMA CancelMaps ==
  ASSUME DeliveryInv, NEW w \in Runner, Tick(w)
  PROVE Mapped
<1>0. TypeOK
  BY DEF DeliveryInv
<1>1. /\ Goto(w, "flush") /\ todo' = todo /\ at[w] = "idle"
      /\ posts' = posts /\ removed' = removed
  BY DEF Tick, hook
<1>2. UNCHANGED <<Taken, Answered, Failing>>
  BY <1>1, IdleMaps
<1>3. ASSUME NEW e \in Delivery
      PROVE Status(e)' = IF ~active /\ Status(e) \in Stale
                           THEN "CANCELLED" ELSE Status(e)
  <2>1. delivery'[e] = IF ~active /\ Status(e) \in Stale
                       THEN [delivery[e] EXCEPT !.status = "CANCELLED"]
                       ELSE delivery[e]
    BY DEF Tick
  <2>2. CASE ~active /\ Status(e) \in Stale
    <3>1. delivery[e] \in Row
      BY <1>0, <2>2, Rows DEF TypeOK, Status, Stale
    <3> QED  BY <2>1, <2>2, <3>1, Rows DEF Status
  <2>3. CASE ~(~active /\ Status(e) \in Stale)
    BY <2>1, <2>3 DEF Status
  <2> QED  BY <2>2, <2>3
<1>4. Log' = [e \in Delivery |-> Status(e)']
  BY DEF Log
<1>5. CASE active
  <2>1. Log' = Log
    BY <1>3, <1>4, <1>5 DEF Log
  <2> QED  BY <1>1, <1>2, <2>1 DEF Mapped
<1>6. CASE ~active
  <2>1. Log' = [e \in Delivery |-> IF Log[e] \in {"PENDING", "FAILED"}
                                     THEN "CANCELLED" ELSE Log[e]]
    BY <1>3, <1>4, <1>6 DEF Log, Stale
  <2>2. Promise!Cancel
    BY <1>1, <1>2, <2>1
       DEF Promise!Cancel, Promise!hands, Log, Taken, Answered, Failing
  <2> QED  BY <2>2 DEF Mapped, Promise!Next
<1> QED  BY <1>5, <1>6

\* What moves no runner: the owner, and the clock.
LEMMA QuietMaps ==
  ASSUME DeliveryInv,
         \/ Update \/ Remove \/ UNCHANGED vars
         \/ \E d \in Delivery : Elapse(d)
  PROVE Mapped
<1>0. TypeOK
  BY DEF DeliveryInv
<1>1. UNCHANGED <<at, todo, posts>>
  BY DEF Update, Remove, vars, Elapse, bounds
<1>2. UNCHANGED <<Taken, Answered, Failing>>
  BY <1>1 DEF Taken, Answered, Failing, Held, Delivers, Current
<1>3. CASE Remove
  <2>1. Log' = [e \in Delivery |-> "absent"]
    BY <1>3, Rows DEF Remove, Log, Status
  <2>2. Promise!Close
    BY <1>1, <1>2, <1>3, <2>1
       DEF Remove, Promise!Close, Promise!hands, Log, Taken, Answered, Failing
  <2> QED  BY <2>2 DEF Mapped, Promise!Next
<1>4. CASE ~Remove
  <2>1. removed' = removed
    BY <1>4 DEF Update, vars, Elapse, hook
  <2>2. \A e \in Delivery : Status(e)' = Status(e)
    <3>1. CASE delivery' = delivery
      BY <3>1 DEF Status
    <3>2. CASE \E d \in Delivery : Elapse(d)
      <4>1. PICK d \in Delivery : Elapse(d)
        BY <3>2
      <4>2. delivery[d] \in Row
        BY <1>0, <4>1, Rows DEF Elapse, Status, TypeOK
      <4>3. delivery' = [delivery EXCEPT ![d] = [@ EXCEPT !.next = "now"]]
        BY <4>1 DEF Elapse
      <4> QED  BY <1>0, <4>2, <4>3, Rows DEF Status, TypeOK
    <3> QED  BY <1>4, <3>1, <3>2 DEF Update, vars
  <2>3. Log' = Log
    BY <2>2 DEF Log
  <2> QED  BY <1>1, <1>2, <2>1, <2>3 DEF Mapped
<1> QED  BY <1>3, <1>4

\* Every step of Webhooks is a step of Outbox or a stutter.
LEMMA OutboxStep ==
  ASSUME DeliveryInv, [Next]_vars
  PROVE Mapped
<1>1. ASSUME NEW w \in Runner,
             Publish(w) \/ CreateFails(w) \/ List(w) \/ Select(w)
      PROVE Mapped
  <2>1. PICK l \in {"create", "idle", "flush", "claim"} : Goto(w, l)
    BY <1>1 DEF Publish, CreateFails, List, Select, BreakOff
  <2>2. /\ todo' = todo \/ \E t : todo' = [todo EXCEPT ![w] = t]
        /\ at[w] \in {"idle", "create", "flush"}
        /\ UNCHANGED <<delivery, removed, posts>>
    BY <1>1 DEF Publish, CreateFails, List, Select, BreakOff, hook
  <2> QED  BY <2>1, <2>2, IdleMaps
<1>2. ASSUME NEW w \in Runner, NEW d \in Delivery, Claim(w, d)
      PROVE Mapped
  <2>1. CASE ~Claimable(d)
    <3>1. PICK l \in {"idle", "claim"} : Goto(w, l)
      BY <1>2, <2>1 DEF Claim, Finish
    <3>2. /\ \E t : todo' = [todo EXCEPT ![w] = t]
          /\ at[w] = "claim" /\ UNCHANGED <<delivery, removed, posts>>
      BY <1>2, <2>1 DEF Claim, Finish, hook
    <3> QED  BY <3>1, <3>2, IdleMaps
  <2> QED  BY <1>2, <2>1, TakeMaps
<1>3. ASSUME NEW w \in Runner, Crash(w)
      PROVE Mapped
  <2>1. /\ Goto(w, "idle") /\ \E t : todo' = [todo EXCEPT ![w] = t]
        /\ UNCHANGED <<delivery, removed, posts>>
    BY <1>3 DEF Crash, BreakOff, hook
  <2>2. CASE \E d \in Delivery : Delivers(w, d)
    BY <2>1, <2>2, DoneMaps
  <2>3. CASE \A d \in Delivery : ~Delivers(w, d)
    <3>0. TypeOK
      BY DEF DeliveryInv
    <3>1. \A v \in Runner \ {w}, e \in Delivery :
            at'[v] = at[v] /\ (Delivers(v, e)' <=> Delivers(v, e))
      BY <2>1, <3>0, Others
    <3>2. \A e \in Delivery : ~Delivers(w, e)'
      BY <2>1, <3>0, NotDelivering
    <3>3. UNCHANGED <<Taken, Answered, Failing>> /\ Log' = Log
      BY <2>1, <2>3, <3>1, <3>2, HeldKept DEF Log, Status
    <3> QED  BY <2>1, <3>3 DEF Mapped
  <2> QED  BY <2>2, <2>3
<1> QED
  BY <1>1, <1>2, <1>3, EnterMaps, CancelMaps, AttemptMaps, QuietMaps
     DEF Next, Proceed, Attempt

LEMMA InitOutbox == Init => Promise!Init
<1> SUFFICES ASSUME Init PROVE Promise!Init
  OBVIOUS
<1>1. Log = [d \in Delivery |-> "absent"]
  BY Rows DEF Init, Log, Status
<1>2. \A labels : Held(labels) = {}
  BY DEF Init, Held, Delivers
<1> QED  BY <1>1, <1>2 DEF Init, Promise!Init, Log

\* The conditional update of attempt makes one outbox of all the runners: a
\* delivery enters once, is in one hand at a time and sent by that hand once,
\* and what is stored is what became of it there; claims, batches, crashes and
\* the owner's switch are invisible in it.
THEOREM WebhooksAreAnOutbox == Spec => ImplementsOutbox
<1>1. DeliveryInv /\ [Next]_vars => [Promise!Next]_(Promise!outbox)
  <2>1. Promise!outbox = <<Log, Taken, Answered, Failing, posts, removed>>
    BY DEF Promise!outbox, Log, Taken, Answered, Failing
  <2> QED
    BY <2>1, OutboxStep
       DEF Mapped, Promise!outbox, Log, Taken, Answered, Failing
<1> QED
  BY DeliveryInvariant, <1>1, InitOutbox, PTL
     DEF Spec, ImplementsOutbox, Promise!Spec
=============================================================================
