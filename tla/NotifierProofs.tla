---------------------------- MODULE NotifierProofs -----------------------------
(***************************************************************************)
(* Proofs about Notifier for any subscriptions, destinations, outcomes and *)
(* bounds. The inductive invariant says where a row stands between its     *)
(* listing and its marking (Ids, Copies), what the listing of a cycle      *)
(* still has in common with the tables (Overtaking, Waiting), and what a   *)
(* subscription that fails has left (Counting).                            *)
(***************************************************************************)
EXTENDS Notifier, TLAPS

USE NotifierAssumption, NoneAssumption

-------------------------------------------------------------------------------
(* Types, and what the actions do to one subscription *)

LEMMA SubscriptionFields ==
  ASSUME NEW sub \in Subscription
  PROVE  /\ sub.value \in Value /\ sub.dest \in Dest /\ sub.disabled \in BOOLEAN
         /\ sub.failures \in 0..MaxFailures /\ sub.wait \in 0..BackoffMax
         /\ sub.age \in 0..BackoffMax
BY DEF Subscription

LEMMA Aged ==
  ASSUME NEW sub \in Subscription \cup {None}, NEW e \in Nat
  PROVE  /\ Later(sub, e) \in Subscription \cup {None}
         /\ sub = None => Later(sub, e) = None
         /\ sub # None => /\ Later(sub, e) \in Subscription
                          /\ Later(sub, e).failures = sub.failures
                          /\ Later(sub, e).disabled = sub.disabled
                          /\ \/ Later(sub, e).age = BackoffMax
                             \/ Later(sub, e).wait + Later(sub, e).age >= sub.wait + sub.age
<1>1. CASE sub = None
  BY <1>1 DEF Later
<1>2. CASE sub # None
  <2> DEFINE w == IF sub.wait > e THEN sub.wait - e ELSE 0
             a == IF sub.age + e < BackoffMax THEN sub.age + e ELSE BackoffMax
  <2>1. /\ w \in 0..BackoffMax /\ a \in 0..BackoffMax
        /\ a = BackoffMax \/ w + a >= sub.wait + sub.age
    BY <1>2, SubscriptionFields
  <2>2. Later(sub, e) = [sub EXCEPT !.wait = w, !.age = a]
    BY <1>2 DEF Later, Subscription
  <2> HIDE DEF w, a
  <2> QED BY <1>2, <2>1, <2>2 DEF Subscription
<1> QED BY <1>1, <1>2

\* A step that changes the subscription s only, to sub.
Becomes(s, sub) ==
  /\ subs' \in [SubId -> Subscription \cup {None}] /\ subs'[s] = sub
  /\ \A t \in SubId \ {s} : subs'[t] = subs[t]

LEMMA Becoming ==
  ASSUME TypeOK, NEW s \in SubId, NEW sub \in Subscription \cup {None},
         subs' = [subs EXCEPT ![s] = sub]
  PROVE  Becomes(s, sub)
BY DEF TypeOK, Becomes

LEMMA Redirected ==
  ASSUME TypeOK, NEW s \in SubId, NEW v \in Value, NEW d \in Dest, EditSubscription(s, v, d)
  PROVE  /\ subs[s] # None
         /\ \E sub \in Subscription : /\ Becomes(s, sub) /\ sub.failures = subs[s].failures
                                      /\ sub.disabled = subs[s].disabled
                                      /\ sub.wait = subs[s].wait /\ sub.age = subs[s].age
<1> DEFINE sub == [subs[s] EXCEPT !.value = v, !.dest = d]
<1>1. subs[s] # None /\ subs[s] \in Subscription /\ subs' = [subs EXCEPT ![s].value = v, ![s].dest = d]
  BY DEF EditSubscription, TypeOK
<1>2. subs' = [subs EXCEPT ![s] = sub]
  BY <1>1 DEF TypeOK
<1>3. /\ sub \in Subscription /\ sub.failures = subs[s].failures /\ sub.disabled = subs[s].disabled
      /\ sub.wait = subs[s].wait /\ sub.age = subs[s].age
  BY <1>1 DEF Subscription
<1> HIDE DEF sub
<1> QED BY <1>1, <1>2, <1>3, Becoming

LEMMA Switched ==
  ASSUME TypeOK, NEW s \in SubId, NEW b \in BOOLEAN, subs[s] # None,
         subs' = [subs EXCEPT ![s].disabled = b]
  PROVE  \E sub \in Subscription : /\ Becomes(s, sub) /\ sub.failures = subs[s].failures
                                   /\ sub.disabled = b
                                   /\ sub.value = subs[s].value /\ sub.dest = subs[s].dest
                                   /\ sub.wait = subs[s].wait /\ sub.age = subs[s].age
<1> DEFINE sub == [subs[s] EXCEPT !.disabled = b]
<1>1. subs[s] \in Subscription
  BY DEF TypeOK
<1>2. subs' = [subs EXCEPT ![s] = sub]
  BY <1>1 DEF TypeOK
<1>3. /\ sub \in Subscription /\ sub.failures = subs[s].failures /\ sub.disabled = b
      /\ sub.value = subs[s].value /\ sub.dest = subs[s].dest
      /\ sub.wait = subs[s].wait /\ sub.age = subs[s].age
  BY <1>1 DEF Subscription
<1> HIDE DEF sub
<1> QED BY <1>2, <1>3, Becoming

LEMMA Counted ==
  ASSUME TypeOK, NEW s \in SubId, NEW f \in 0..MaxFailures,
         NEW w \in 0..BackoffMax, NEW a \in 0..BackoffMax, subs[s] # None,
         subs' = [subs EXCEPT ![s].failures = f, ![s].wait = w, ![s].age = a]
  PROVE  /\ subs'[s] \in Subscription /\ Becomes(s, subs'[s])
         /\ subs'[s].failures = f /\ subs'[s].wait = w /\ subs'[s].age = a
         /\ subs'[s].disabled = subs[s].disabled
         /\ subs'[s].value = subs[s].value /\ subs'[s].dest = subs[s].dest
<1> DEFINE sub == [subs[s] EXCEPT !.failures = f, !.wait = w, !.age = a]
<1>1. subs[s] \in Subscription
  BY DEF TypeOK
<1>2. subs' = [subs EXCEPT ![s] = sub]
  BY <1>1 DEF TypeOK
<1>3. /\ sub \in Subscription /\ sub.failures = f /\ sub.disabled = subs[s].disabled
      /\ sub.wait = w /\ sub.age = a
      /\ sub.value = subs[s].value /\ sub.dest = subs[s].dest
  BY <1>1 DEF Subscription
<1> HIDE DEF sub
<1>4. Becomes(s, sub)
  BY <1>2, <1>3, Becoming
<1> QED BY <1>3, <1>4 DEF Becomes

\* Where the notifier is at work, and for whom.
Busy == pc \in {"mark", "success", "failed", "disable"}

Working ==
  /\ Busy => current \in SubId /\ current \notin todo
  /\ ~Busy => current = None /\ batch = {}
  /\ pc \in {"monitor", "down"} => todo = {}
  /\ \A s \in todo : view[s] \in Subscription

LEMMA Succeeded ==
  ASSUME TypeOK, Working, RecordSuccess
  PROVE  \/ subs' = subs /\ subs[current] = None
         \/ /\ subs[current] # None
            /\ \E sub \in Subscription : /\ Becomes(current, sub) /\ sub.failures = 0
                                         /\ sub.disabled = subs[current].disabled
                                         /\ sub.value = subs[current].value
                                         /\ sub.dest = subs[current].dest
<1>1. current \in SubId
  BY DEF Working, Busy, RecordSuccess
<1>2. CASE subs[current] = None
  BY <1>2 DEF RecordSuccess
<1>3. CASE subs[current] # None
  <2>1. subs' = [subs EXCEPT ![current].failures = 0, ![current].wait = 0, ![current].age = BackoffMax]
    BY <1>3 DEF RecordSuccess
  <2>2. 0 \in 0..MaxFailures /\ 0 \in 0..BackoffMax /\ BackoffMax \in 0..BackoffMax
    OBVIOUS
  <2>3. /\ subs'[current] \in Subscription /\ Becomes(current, subs'[current])
        /\ subs'[current].failures = 0 /\ subs'[current].disabled = subs[current].disabled
        /\ subs'[current].value = subs[current].value /\ subs'[current].dest = subs[current].dest
    BY <1>1, <1>3, <2>1, <2>2, Counted
  <2> QED BY <1>3, <2>3
<1> QED BY <1>2, <1>3

LEMMA Failed ==
  ASSUME TypeOK, Working, RecordFailure
  PROVE  /\ current \in SubId /\ subs[current] # None /\ subs[current] \in Subscription
         /\ \E sub \in Subscription :
              /\ Becomes(current, sub) /\ sub.disabled = subs[current].disabled
              /\ sub.value = subs[current].value /\ sub.dest = subs[current].dest
              /\ sub.failures = IF subs[current].failures < MaxFailures
                                THEN subs[current].failures + 1 ELSE MaxFailures
              /\ sub.age = 0
              /\ sub.wait \in BackoffWithJitter(IF view[current].failures < MaxFailures
                                               THEN view[current].failures + 1 ELSE MaxFailures)
              /\ \/ /\ sub.failures = MaxFailures /\ pc' = "disable"
                    /\ UNCHANGED <<matches, lastId, memVars, receiverVars, tries, stale, edits>>
                 \/ sub.failures < MaxFailures /\ DeliveryDone
<1>1. current \in SubId /\ subs[current] # None /\ subs[current] \in Subscription
  BY DEF Working, Busy, RecordFailure, TypeOK
<1> DEFINE f == IF subs[current].failures < MaxFailures THEN subs[current].failures + 1 ELSE MaxFailures
           listed == IF view[current].failures < MaxFailures THEN view[current].failures + 1 ELSE MaxFailures
<1>2. f \in 0..MaxFailures
  BY <1>1, SubscriptionFields
<1>3. PICK d \in BackoffWithJitter(listed) :
        subs' = [subs EXCEPT ![current].failures = f, ![current].wait = d, ![current].age = 0]
  BY DEF RecordFailure
<1>4. d \in 0..BackoffMax /\ 0 \in 0..BackoffMax
  BY DEF BackoffWithJitter
<1>5. IF f >= MaxFailures
      THEN /\ pc' = "disable"
           /\ UNCHANGED <<matches, lastId, memVars, receiverVars, tries, stale, edits>>
      ELSE DeliveryDone
  BY DEF RecordFailure
<1> HIDE DEF f, listed
<1>6. /\ subs'[current] \in Subscription /\ Becomes(current, subs'[current])
      /\ subs'[current].failures = f /\ subs'[current].wait = d /\ subs'[current].age = 0
      /\ subs'[current].disabled = subs[current].disabled
      /\ subs'[current].value = subs[current].value /\ subs'[current].dest = subs[current].dest
  BY <1>1, <1>2, <1>3, <1>4, Counted
<1>7. f = MaxFailures \/ f < MaxFailures
  BY <1>2
<1>8. f = MaxFailures => f >= MaxFailures
  BY <1>2
<1>9. f < MaxFailures => ~(f >= MaxFailures)
  BY <1>2
<1> QED BY <1>1, <1>5, <1>6, <1>7, <1>8, <1>9 DEF f, listed

LEMMA Disabled ==
  ASSUME TypeOK, Working, DisableFailing
  PROVE  \/ subs' = subs /\ subs[current] = None
         \/ /\ subs[current] # None
            /\ \E sub \in Subscription : /\ Becomes(current, sub) /\ sub.disabled
                                         /\ sub.failures = subs[current].failures
                                         /\ sub.wait = subs[current].wait
                                         /\ sub.age = subs[current].age
                                         /\ sub.value = subs[current].value
                                         /\ sub.dest = subs[current].dest
<1>1. current \in SubId
  BY DEF Working, Busy, DisableFailing
<1>2. CASE subs[current] = None
  BY <1>2 DEF DisableFailing
<1>3. CASE subs[current] # None
  <2>1. subs' = [subs EXCEPT ![current].disabled = TRUE]
    BY <1>3 DEF DisableFailing
  <2> QED BY <1>1, <1>3, <2>1, Switched
<1> QED BY <1>2, <1>3

\* A batch consists of listed rows of its subscription.
LEMMA Delivered ==
  ASSUME TypeOK, Working, NEW s \in SubId, Deliver(s)
  PROVE  /\ pc = "cycle" /\ s \in todo /\ ~view[s].disabled /\ view[s].wait = 0
         /\ todo' = todo \ {s} /\ current' = s
         /\ sentTo' \in [Dest -> 0..Burst]
         /\ batch' \in SUBSET RowId
         /\ \A i \in batch' : \E r \in pending : r.id = i /\ r.sub = s
         /\ \E outcome \in {"accepted", "lost", "refused"} :
              /\ pc' = IF outcome = "accepted" THEN "mark" ELSE "failed"
              /\ copies' = [i \in RowId |-> IF outcome # "refused" /\ i \in batch'
                                            THEN copies[i] + 1 ELSE copies[i]]
              /\ unmarked' = [i \in RowId |-> IF outcome = "lost" /\ i \in batch'
                                              THEN unmarked[i] + 1 ELSE unmarked[i]]
              /\ tries' = [tries EXCEPT ![s] = IF outcome = "accepted" THEN 0 ELSE @ + 1]
              /\ slack' = IF outcome = "accepted" THEN [slack EXCEPT ![s] = 0] ELSE slack
         /\ faults' \in 0..MaxFaults
         /\ stale' = IF Outdated(s) THEN [stale EXCEPT ![s] = @ + 1] ELSE stale
         /\ UNCHANGED <<dbVars, view, pending, edits>>
<1>1. pc = "cycle" /\ s \in todo /\ ~view[s].disabled /\ view[s].wait = 0
  BY DEF Deliver, Due
<1>2. view[s].dest \in Dest
  BY <1>1, SubscriptionFields DEF Working
<1>3. sentTo' \in [Dest -> 0..Burst]
  <2>1. CASE sentTo' = sentTo
    BY <2>1 DEF TypeOK
  <2>2. CASE sentTo[view[s].dest] # Burst /\ sentTo' = [sentTo EXCEPT ![view[s].dest] = @ + 1]
    <3>1. sentTo[view[s].dest] + 1 \in 0..Burst
      BY <1>2, <2>2 DEF TypeOK
    <3> QED BY <2>2, <3>1 DEF TypeOK
  <2> QED BY <2>1, <2>2 DEF Deliver, RateLimited
<1>4. PICK rows \in OldestFirst(s), outcome \in Outcomes[view[s].dest] :
        LET ids == {r.id : r \in rows}
            received == outcome # "refused"
        IN  /\ batch' = ids
            /\ pc' = IF outcome = "accepted" THEN "mark" ELSE "failed"
            /\ copies' = [i \in RowId |-> IF received /\ i \in ids THEN copies[i] + 1 ELSE copies[i]]
            /\ unmarked' = [i \in RowId |-> IF outcome = "lost" /\ i \in ids
                                            THEN unmarked[i] + 1 ELSE unmarked[i]]
            /\ tries' = [tries EXCEPT ![s] = IF outcome = "accepted" THEN 0 ELSE @ + 1]
            /\ slack' = IF outcome = "accepted" THEN [slack EXCEPT ![s] = 0] ELSE slack
            /\ IF outcome = "lost" THEN Fault ELSE UNCHANGED faults
  BY Zenon DEF Deliver
<1>5. outcome \in {"accepted", "lost", "refused"}
  BY <1>2
<1>6. faults' \in 0..MaxFaults
  BY <1>4 DEF Fault, TypeOK
<1>7. rows \subseteq pending /\ \A r \in rows : r.sub = s
  BY DEF OldestFirst
<1>8. batch' \in SUBSET RowId /\ \A i \in batch' : \E r \in pending : r.id = i /\ r.sub = s
  BY <1>4, <1>7 DEF TypeOK, Match
<1>9. /\ todo' = todo \ {s} /\ current' = s
      /\ stale' = IF Outdated(s) THEN [stale EXCEPT ![s] = @ + 1] ELSE stale
      /\ UNCHANGED <<dbVars, view, pending, edits>>
  BY DEF Deliver
<1>10. /\ pc' = IF outcome = "accepted" THEN "mark" ELSE "failed"
       /\ copies' = [i \in RowId |-> IF outcome # "refused" /\ i \in batch'
                                     THEN copies[i] + 1 ELSE copies[i]]
       /\ unmarked' = [i \in RowId |-> IF outcome = "lost" /\ i \in batch'
                                       THEN unmarked[i] + 1 ELSE unmarked[i]]
       /\ tries' = [tries EXCEPT ![s] = IF outcome = "accepted" THEN 0 ELSE @ + 1]
       /\ slack' = IF outcome = "accepted" THEN [slack EXCEPT ![s] = 0] ELSE slack
  BY <1>4
<1> HIDE DEF Outdated
<1> QED BY <1>1, <1>3, <1>5, <1>6, <1>8, <1>9, <1>10

LEMMA Marked ==
  ASSUME TypeOK, MarkNotified
  PROVE  /\ matches' \in SUBSET Match
         /\ \A q \in matches' : \E r \in matches :
              /\ q.id = r.id /\ q.sub = r.sub
              /\ IF r.id \in batch THEN q.notified ELSE q = r
<1>1. \A q \in matches' : \E r \in matches : q = IF r.id \in batch THEN [r EXCEPT !.notified = TRUE] ELSE r
  BY DEF MarkNotified
<1>2. ASSUME NEW r \in matches
      PROVE  /\ [r EXCEPT !.notified = TRUE] \in Match /\ [r EXCEPT !.notified = TRUE].notified
             /\ [r EXCEPT !.notified = TRUE].id = r.id /\ [r EXCEPT !.notified = TRUE].sub = r.sub
             /\ r \in Match
  <2>1. r \in Match
    BY DEF TypeOK
  <2> QED BY <2>1 DEF Match
<1>3. ASSUME NEW q \in matches'
      PROVE  /\ q \in Match
             /\ \E r \in matches : /\ q.id = r.id /\ q.sub = r.sub
                                   /\ IF r.id \in batch THEN q.notified ELSE q = r
  <2>1. PICK r \in matches : q = IF r.id \in batch THEN [r EXCEPT !.notified = TRUE] ELSE r
    BY <1>1
  <2>2. CASE r.id \in batch
    <3>1. q = [r EXCEPT !.notified = TRUE]
      BY <2>1, <2>2
    <3> QED BY <1>2, <2>2, <3>1
  <2>3. CASE r.id \notin batch
    BY <1>2, <2>1, <2>3
  <2> QED BY <2>2, <2>3
<1> QED BY <1>3

LEMMA Recorded ==
  ASSUME TypeOK, NEW s \in SubId, RecordMatch(s)
  PROVE  \E n \in Match : /\ n.id = lastId + 1 /\ n.sub = s /\ ~n.notified
                          /\ matches' \subseteq matches \cup {n}
<1>1. PICK c \in 0..lastId :
        matches' \subseteq matches \cup {[id |-> lastId + 1, sub |-> s, created |-> c, notified |-> FALSE]}
  BY DEF RecordMatch
<1> DEFINE n == [id |-> lastId + 1, sub |-> s, created |-> c, notified |-> FALSE]
<1>2. lastId + 1 \in RowId /\ c \in Nat
  BY DEF RecordMatch, TypeOK, RowId
<1>3. n \in Match /\ n.id = lastId + 1 /\ n.sub = s /\ ~n.notified
  BY <1>2 DEF Match
<1> HIDE DEF n
<1> QED BY <1>1, <1>3 DEF n

LEMMA Aging ==
  ASSUME TypeOK, NEW e \in Elapsed, subs' = [s \in SubId |-> Later(subs[s], e)]
  PROVE  /\ subs' \in [SubId -> Subscription \cup {None}]
         /\ \A s \in SubId : subs[s] = None => subs'[s] = None
         /\ \A s \in SubId : subs[s] # None => /\ subs'[s] \in Subscription
                                               /\ subs'[s].failures = subs[s].failures
                                               /\ subs'[s].disabled = subs[s].disabled
                                               /\ \/ subs'[s].age = BackoffMax
                                                  \/ subs'[s].wait + subs'[s].age >= subs[s].wait + subs[s].age
<1>1. e \in Nat
  OBVIOUS
<1>2. \A s \in SubId : subs[s] \in Subscription \cup {None}
  BY DEF TypeOK
<1>3. \A s \in SubId : Later(subs[s], e) \in Subscription \cup {None}
  BY <1>1, <1>2, Aged
<1>4. \A s \in SubId : subs'[s] = Later(subs[s], e)
  OBVIOUS
<1> QED BY <1>1, <1>2, <1>3, <1>4, Aged

LEMMA InitType == Init => TypeOK
<1> SUFFICES ASSUME Init PROVE TypeOK
  OBVIOUS
<1>1. \A v \in Value, d \in Dest : NewSubscription(v, d) \in Subscription
  BY DEF NewSubscription, Subscription
<1>2. subs \in [SubId -> Subscription \cup {None}]
  BY <1>1 DEF Init
<1>3. view \in [SubId -> Subscription \cup {None}]
  BY DEF Init, Idle
<1>4. /\ copies \in [RowId -> Nat] /\ unmarked \in [RowId -> Nat] /\ sentTo \in [Dest -> 0..Burst]
      /\ tries \in [SubId -> Nat] /\ slack \in [SubId -> Nat] /\ stale \in [SubId -> Nat]
  BY DEF Init
<1> QED BY <1>2, <1>3, <1>4 DEF Init, TypeOK

LEMMA UnmarkType ==
  ASSUME TypeOK, Unmark(batch)
  PROVE  /\ unmarked' \in [RowId -> Nat]
         /\ \A i \in RowId : unmarked'[i] = IF i \in batch THEN unmarked[i] + 1 ELSE unmarked[i]
BY DEF TypeOK, Unmark

LEMMA Raised ==
  ASSUME NEW f \in [SubId -> Nat], NEW s \in SubId
  PROVE  /\ [f EXCEPT ![s] = @ + 1] \in [SubId -> Nat] /\ [f EXCEPT ![s] = 0] \in [SubId -> Nat]
         /\ [f EXCEPT ![s] = @ + 1][s] = f[s] + 1 /\ [f EXCEPT ![s] = 0][s] = 0
         /\ \A t \in SubId \ {s} : [f EXCEPT ![s] = @ + 1][t] = f[t] /\ [f EXCEPT ![s] = 0][t] = f[t]
OBVIOUS

LEMMA TypeStep == ASSUME TypeOK, Working, Next PROVE TypeOK'
<1> USE DEF dbVars, memVars, receiverVars, failureVars
<1>1. ASSUME NEW s \in SubId, NEW v \in Value, NEW d \in Dest, EditSubscription(s, v, d) PROVE TypeOK'
  <2>1. subs' \in [SubId -> Subscription \cup {None}]
    BY <1>1, Redirected DEF Becomes
  <2>2. stale' \in [SubId -> Nat]
    BY <1>1, Raised DEF EditSubscription, TypeOK
  <2>3. edits' \in 0..MaxEdits
    BY <1>1 DEF EditSubscription, Edited, TypeOK
  <2> QED BY <1>1, <2>1, <2>2, <2>3 DEF EditSubscription, NoEdit, TypeOK
<1>2. ASSUME NEW s \in SubId, EnableSubscription(s) \/ DisableSubscription(s) PROVE TypeOK'
  <2>1. subs' \in [SubId -> Subscription \cup {None}]
    BY <1>2, Switched DEF EnableSubscription, DisableSubscription, Becomes
  <2>2. stale' \in [SubId -> Nat] /\ slack' \in [SubId -> Nat]
    BY <1>2, Raised DEF EnableSubscription, DisableSubscription, TypeOK
  <2>3. edits' \in 0..MaxEdits
    BY <1>2 DEF EnableSubscription, DisableSubscription, Edited, TypeOK
  <2> QED BY <1>2, <2>1, <2>2, <2>3 DEF EnableSubscription, DisableSubscription, NoEdit, TypeOK
<1>3. ASSUME NEW s \in SubId, DeleteSubscription(s) PROVE TypeOK'
  <2>1. subs' \in [SubId -> Subscription \cup {None}] /\ matches' \in SUBSET Match
    BY <1>3 DEF DeleteSubscription, TypeOK
  <2>2. stale' \in [SubId -> Nat]
    BY <1>3, Raised DEF DeleteSubscription, TypeOK
  <2>3. edits' \in 0..MaxEdits
    BY <1>3 DEF DeleteSubscription, Edited, TypeOK
  <2> QED BY <1>3, <2>1, <2>2, <2>3 DEF DeleteSubscription, TypeOK
<1>4. ASSUME NEW s \in SubId, RecordMatch(s) PROVE TypeOK'
  <2>1. matches' \in SUBSET Match
    BY <1>4, Recorded DEF TypeOK
  <2>2. lastId' \in 0..MaxRows
    BY <1>4 DEF RecordMatch, TypeOK
  <2> QED BY <1>4, <2>1, <2>2 DEF RecordMatch, TypeOK
<1>5. CASE StartCycle
  <2>1. subs' \in [SubId -> Subscription \cup {None}]
    BY <1>5, Aging DEF StartCycle
  <2>2. pending' \in SUBSET Match /\ todo' \in SUBSET SubId
    BY <1>5 DEF StartCycle, PendingMatches, TypeOK, Match
  <2>3. sentTo' \in [Dest -> 0..Burst]
    BY <1>5 DEF StartCycle
  <2> QED BY <1>5, <2>1, <2>2, <2>3 DEF StartCycle, TypeOK
<1>6. CASE ListFails
  <2>1. subs' \in [SubId -> Subscription \cup {None}]
    BY <1>6, Aging DEF ListFails
  <2>2. faults' \in 0..MaxFaults
    BY <1>6 DEF ListFails, Fault, TypeOK
  <2> QED BY <1>6, <2>1, <2>2 DEF ListFails, TypeOK
<1>7. ASSUME NEW s \in SubId, Skip(s) \/ Defer(s) PROVE TypeOK'
  BY <1>7 DEF Skip, Defer, TypeOK
<1>8. ASSUME NEW s \in SubId, Deliver(s) PROVE TypeOK'
  <2>1. PICK outcome \in {"accepted", "lost", "refused"} :
              /\ pc' = IF outcome = "accepted" THEN "mark" ELSE "failed"
              /\ copies' = [i \in RowId |-> IF outcome # "refused" /\ i \in batch'
                                            THEN copies[i] + 1 ELSE copies[i]]
              /\ unmarked' = [i \in RowId |-> IF outcome = "lost" /\ i \in batch'
                                              THEN unmarked[i] + 1 ELSE unmarked[i]]
              /\ tries' = [tries EXCEPT ![s] = IF outcome = "accepted" THEN 0 ELSE @ + 1]
              /\ slack' = IF outcome = "accepted" THEN [slack EXCEPT ![s] = 0] ELSE slack
    BY <1>8, Delivered
  <2>2. copies' \in [RowId -> Nat] /\ unmarked' \in [RowId -> Nat]
    BY <2>1 DEF TypeOK
  <2>3. tries' \in [SubId -> Nat] /\ slack' \in [SubId -> Nat]
    BY <2>1, Raised DEF TypeOK
  <2>4. stale' \in [SubId -> Nat]
    <3> HIDE DEF Outdated
    <3> QED BY <1>8, Raised, Delivered DEF TypeOK
  <2>5. /\ batch' \in SUBSET RowId /\ sentTo' \in [Dest -> 0..Burst] /\ faults' \in 0..MaxFaults
        /\ todo' = todo \ {s} /\ current' = s /\ UNCHANGED <<subs, matches, lastId, view, pending, edits>>
    BY <1>8, Delivered
  <2> QED BY <2>1, <2>2, <2>3, <2>4, <2>5 DEF TypeOK
<1>9. CASE MarkNotified
  BY <1>9, Marked DEF MarkNotified, TypeOK
<1>10. CASE MarkNotifiedFails
  <2>1. unmarked' \in [RowId -> Nat] /\ faults' \in 0..MaxFaults
    BY <1>10, UnmarkType DEF MarkNotifiedFails, Fault, TypeOK
  <2> QED BY <1>10, <2>1 DEF MarkNotifiedFails, TypeOK
<1>11. ASSUME DeliveryDone, subs' \in [SubId -> Subscription \cup {None}], slack' \in [SubId -> Nat],
              faults' \in 0..MaxFaults
       PROVE  TypeOK'
  BY <1>11 DEF DeliveryDone, TypeOK
<1>12. CASE RecordSuccess
  <2>1. subs' \in [SubId -> Subscription \cup {None}]
    BY <1>12, Succeeded DEF Becomes, TypeOK
  <2> QED BY <1>11, <1>12, <2>1 DEF RecordSuccess, TypeOK
<1>13. CASE RecordSuccessFails
  BY <1>11, <1>13 DEF RecordSuccessFails, Fault, TypeOK
<1>14. CASE RecordFailure
  <2>1. subs' \in [SubId -> Subscription \cup {None}]
    BY <1>14, Failed DEF Becomes
  <2>2. slack' = slack /\ faults' = faults
    BY <1>14 DEF RecordFailure
  <2>3. CASE DeliveryDone
    BY <1>11, <2>1, <2>2, <2>3 DEF TypeOK
  <2>4. CASE pc' = "disable" /\ UNCHANGED <<matches, lastId, memVars, receiverVars, tries, stale, edits>>
    BY <2>1, <2>2, <2>4 DEF TypeOK
  <2> QED BY <1>14, <2>3, <2>4, Failed
<1>15. CASE RecordFailureFails
  <2>1. current \in SubId
    BY <1>15 DEF RecordFailureFails, Working, Busy
  <2>2. slack' \in [SubId -> Nat] /\ faults' \in 0..MaxFaults
    BY <1>15, <2>1, Raised DEF RecordFailureFails, Fault, TypeOK
  <2> QED BY <1>11, <1>15, <2>2 DEF RecordFailureFails, TypeOK
<1>16. CASE DisableFailing
  <2>1. subs' \in [SubId -> Subscription \cup {None}]
    BY <1>16, Disabled DEF Becomes, TypeOK
  <2> QED BY <1>11, <1>16, <2>1 DEF DisableFailing, TypeOK
<1>17. CASE DisableFailingFails
  <2>1. current \in SubId
    BY <1>17 DEF DisableFailingFails, Working, Busy
  <2>2. slack' \in [SubId -> Nat] /\ faults' \in 0..MaxFaults
    BY <1>17, <2>1, Raised DEF DisableFailingFails, Fault, TypeOK
  <2> QED BY <1>11, <1>17, <2>2 DEF DisableFailingFails, TypeOK
<1>18. CASE FinishCycle \/ Restart
  BY <1>18 DEF FinishCycle, Restart, Idle, TypeOK
<1>19. CASE Crash
  <2>1. slack' \in [SubId -> Nat]
    BY <1>19, Raised DEF Crash, Working, Busy, TypeOK
  <2>2. unmarked' \in [RowId -> Nat] /\ faults' \in 0..MaxFaults
    BY <1>19, UnmarkType DEF Crash, Fault, TypeOK
  <2>3. view' \in [SubId -> Subscription \cup {None}] /\ sentTo' \in [Dest -> 0..Burst]
    BY <1>19 DEF Crash, Idle
  <2> QED BY <1>19, <2>1, <2>2, <2>3 DEF Crash, TypeOK
<1> QED BY <1>1, <1>2, <1>3, <1>4, <1>5, <1>6, <1>7, <1>8, <1>9, <1>10, <1>12, <1>13, <1>14, <1>15,
           <1>16, <1>17, <1>18, <1>19 DEF Next, Owner, Cycle, Failure

-------------------------------------------------------------------------------
(* The invariant *)

\* A row id belongs to one subscription, and to nothing before it is handed out.
Ids ==
  /\ \A r \in matches \cup pending : r.id <= lastId
  /\ \A r, q \in matches : r.id = q.id => r.sub = q.sub
  /\ \A r, q \in pending : r.id = q.id => r.sub = q.sub
  /\ \A i \in batch : i <= lastId
  /\ \A i \in RowId : i > lastId => copies[i] = 0 /\ unmarked[i] = 0
  /\ \A r \in matches : subs[r.sub] # None

\* A row that still waits has been received as often as it was not marked.
Copies ==
  /\ \A r \in matches : ~r.notified => copies[r.id] = unmarked[r.id] \/ (pc = "mark" /\ r.id \in batch)
  /\ \A r \in matches : r.notified => copies[r.id] > unmarked[r.id] /\ ~(pc = "mark" /\ r.id \in batch)
  /\ \A r \in pending : r.sub \in todo => copies[r.id] = unmarked[r.id] /\ r.id \notin batch
  /\ pc = "mark" => \A i \in batch : copies[i] = unmarked[i] + 1
  /\ \A i \in RowId : copies[i] <= 1 + unmarked[i]

\* A subscription that an outdated delivery went to is not due with an outdated listing again.
Overtaking ==
  /\ \A s \in SubId : stale[s] <= 1
  /\ \A s \in todo : stale[s] # 0 /\ Outdated(s) => view[s].disabled

Trying(s) == IF pc = "failed" /\ current = s THEN 1 ELSE 0

\* The failures of s in a row; an attempt is left while it may still be listed as due.
Bounded(s) ==
  /\ tries[s] <= MaxFailures + slack[s]
  /\ subs[s] # None =>
       /\ tries[s] <= subs[s].failures + slack[s] + Trying(s)
       /\ subs[s].failures = MaxFailures /\ ~subs[s].disabled /\ ~(Busy /\ current = s)
          => tries[s] + 1 <= MaxFailures + slack[s]

\* Whoever is due has an attempt left.
Counting ==
  /\ \A s \in SubId : Bounded(s)
  /\ \A s \in todo : ~view[s].disabled => tries[s] + 1 <= MaxFailures + slack[s]
  /\ pc \in {"mark", "success"} => tries[current] = 0

\* The backoff of the failures is ahead of, or behind, the last of them.
Backed(sub) == 3 * Backoff(sub.failures) <= 4 * (sub.wait + sub.age)

\* Only the cycle counts failures, so that the listing's count is the row's.
Waiting ==
  /\ \A s \in SubId : subs[s] # None => Backed(subs[s])
  /\ \A s \in todo : Backed(view[s])
  /\ \A s \in todo : subs[s] # None => subs[s].failures = view[s].failures
  /\ pc = "failed" /\ subs[current] # None => subs[current].failures = view[current].failures

Inv == TypeOK /\ Working /\ Ids /\ Copies /\ Overtaking /\ Counting /\ Waiting

LEMMA Rows ==
  ASSUME TypeOK
  PROVE  /\ \A r \in matches \cup pending : r.id \in RowId /\ r.sub \in SubId /\ r \in Match
         /\ lastId \in Nat /\ batch \subseteq RowId /\ \A i \in RowId : i \in Nat
<1>1. \A r \in matches \cup pending : r \in Match
  BY DEF TypeOK
<1>2. \A r \in Match : r.id \in RowId /\ r.sub \in SubId
  BY DEF Match
<1>3. batch \subseteq RowId /\ lastId \in 0..MaxRows
  BY DEF TypeOK
<1> QED BY <1>1, <1>2, <1>3 DEF RowId

LEMMA IdsStep == ASSUME Inv, [Next]_vars PROVE Ids'
<1> USE DEF Inv, dbVars, memVars, receiverVars, failureVars
<1>1. ASSUME matches' \subseteq matches, pending' \subseteq pending \/ pending' \subseteq matches,
             lastId' = lastId, batch' \subseteq batch,
             \A i \in RowId : i > lastId => copies'[i] = copies[i] /\ unmarked'[i] = unmarked[i],
             \A r \in matches' : subs[r.sub] # None => subs'[r.sub] # None
      PROVE  Ids'
  BY <1>1 DEF Ids
<1>2. ASSUME NEW s \in SubId, NEW sub \in Subscription, Becomes(s, sub),
             UNCHANGED <<matches, pending, lastId, batch, copies, unmarked>>
      PROVE  Ids'
  BY <1>1, <1>2, Rows DEF Becomes
<1>3. ASSUME NEW s \in SubId, NEW v \in Value, NEW d \in Dest, EditSubscription(s, v, d) PROVE Ids'
  BY <1>2, <1>3, Redirected DEF EditSubscription, NoEdit
<1>4. ASSUME NEW s \in SubId, EnableSubscription(s) \/ DisableSubscription(s) PROVE Ids'
  BY <1>2, <1>4, Switched DEF EnableSubscription, DisableSubscription, NoEdit
<1>5. ASSUME NEW s \in SubId, DeleteSubscription(s) PROVE Ids'
  <2>1. \A t \in SubId \ {s} : subs'[t] = subs[t]
    BY <1>5 DEF DeleteSubscription, TypeOK
  <2> QED BY <1>1, <1>5, <2>1, Rows DEF DeleteSubscription
<1>6. ASSUME NEW s \in SubId, RecordMatch(s) PROVE Ids'
  <2>1. PICK n \in Match : n.id = lastId + 1 /\ n.sub = s /\ matches' \subseteq matches \cup {n}
    BY <1>6, Recorded
  <2>2. lastId' = lastId + 1 /\ subs[s] # None /\ UNCHANGED <<subs, pending, batch, copies, unmarked>>
    BY <1>6 DEF RecordMatch
  <2>3. \A r \in matches \cup pending : r.id \in Nat /\ r.id <= lastId /\ lastId \in Nat
    BY Rows DEF Ids
  <2>4. ASSUME NEW r \in matches' \cup pending' PROVE r.id <= lastId'
    <3>1. r \in matches \cup pending \/ r = n
      BY <2>1, <2>2, <2>4
    <3>2. lastId \in Nat /\ lastId' = lastId + 1
      BY <2>2, Rows
    <3>3. CASE r \in matches \cup pending
      BY <2>3, <3>2, <3>3
    <3> QED BY <2>1, <3>1, <3>2, <3>3
  <2>7. ASSUME NEW r \in matches', NEW q \in matches', r.id = q.id PROVE r.sub = q.sub
    <3>1. CASE r \in matches /\ q \in matches
      BY <2>7, <3>1 DEF Ids
    <3>2. \A p \in matches : p.id # n.id
      BY <2>1, <2>3
    <3> QED BY <2>1, <2>7, <3>1, <3>2
  <2>8. \A r \in matches' : subs'[r.sub] # None
    BY <2>1, <2>2 DEF Ids
  <2>5. \A i \in batch' : i <= lastId'
    BY <2>2, Rows DEF Ids
  <2>6. \A i \in RowId : i > lastId' => copies'[i] = 0 /\ unmarked'[i] = 0
    BY <2>2, Rows DEF Ids
  <2>9. \A r, q \in pending' : r.id = q.id => r.sub = q.sub
    BY <2>2 DEF Ids
  <2> QED BY <2>4, <2>5, <2>6, <2>7, <2>8, <2>9 DEF Ids
<1>7. CASE StartCycle
  <2>1. \A t \in SubId : subs[t] # None => subs'[t] # None
    BY <1>7, Aging DEF StartCycle
  <2>2. pending' \subseteq matches
    BY <1>7 DEF StartCycle, PendingMatches
  <2> QED BY <1>1, <1>7, <2>1, <2>2, Rows DEF StartCycle
<1>8. CASE ListFails
  <2>1. \A t \in SubId : subs[t] # None => subs'[t] # None
    BY <1>8, Aging DEF ListFails
  <2> QED BY <1>1, <1>8, <2>1, Rows DEF ListFails
<1>9. ASSUME UNCHANGED dbVars, UNCHANGED receiverVars, pending' \subseteq pending, batch' \subseteq batch
      PROVE  Ids'
  BY <1>1, <1>9
<1>10. CASE FinishCycle \/ Restart \/ \E s \in SubId : Skip(s) \/ Defer(s)
  BY <1>9, <1>10 DEF FinishCycle, Restart, Skip, Defer
<1>11. ASSUME NEW s \in SubId, Deliver(s) PROVE Ids'
  <2>1. /\ \A i \in batch' : \E r \in pending : r.id = i
        /\ UNCHANGED <<subs, matches, lastId, pending>>
    BY <1>11, Delivered
  <2>2. \A i \in batch' : i <= lastId
    BY <2>1 DEF Ids
  <2>3. \A i \in RowId : i \notin batch' => copies'[i] = copies[i] /\ unmarked'[i] = unmarked[i]
    BY <1>11, Delivered
  <2>4. \A i \in RowId : i > lastId => copies'[i] = copies[i] /\ unmarked'[i] = unmarked[i]
    BY <2>2, <2>3, Rows
  <2> QED BY <2>1, <2>2, <2>4 DEF Ids
<1>12. CASE MarkNotified
  <2>1. \A q \in matches' : \E r \in matches : q.id = r.id /\ q.sub = r.sub
    BY <1>12, Marked
  <2>2. UNCHANGED <<subs, lastId, pending, batch, copies, unmarked>>
    BY <1>12 DEF MarkNotified
  <2> QED BY <2>1, <2>2 DEF Ids
<1>13. ASSUME Unmark(batch) PROVE \A i \in RowId : i > lastId => unmarked'[i] = unmarked[i]
  BY <1>13, UnmarkType, Rows DEF Ids
<1>14. CASE MarkNotifiedFails
  BY <1>1, <1>13, <1>14 DEF MarkNotifiedFails
<1>15. CASE RecordSuccess
  <2>1. UNCHANGED <<matches, pending, lastId, copies, unmarked>> /\ batch' = {}
    BY <1>15 DEF RecordSuccess, DeliveryDone
  <2>2. \A t \in SubId : subs[t] # None => subs'[t] # None
    BY <1>15, Succeeded DEF Becomes
  <2> QED BY <1>1, <2>1, <2>2, Rows
<1>16. CASE RecordSuccessFails \/ RecordFailureFails \/ DisableFailingFails
  BY <1>9, <1>16 DEF RecordSuccessFails, RecordFailureFails, DisableFailingFails, DeliveryDone
<1>17. CASE RecordFailure
  <2>1. UNCHANGED <<matches, pending, lastId, copies, unmarked>> /\ batch' \subseteq batch
    BY <1>17, Failed DEF DeliveryDone
  <2>2. \A t \in SubId : subs[t] # None => subs'[t] # None
    BY <1>17, Failed DEF Becomes
  <2> QED BY <1>1, <2>1, <2>2, Rows
<1>18. CASE DisableFailing
  <2>1. UNCHANGED <<matches, pending, lastId, copies, unmarked>> /\ batch' = {}
    BY <1>18 DEF DisableFailing, DeliveryDone
  <2>2. \A t \in SubId : subs[t] # None => subs'[t] # None
    BY <1>18, Disabled DEF Becomes
  <2> QED BY <1>1, <2>1, <2>2, Rows
<1>19. CASE Crash
  BY <1>1, <1>13, <1>19 DEF Crash
<1>20. CASE UNCHANGED vars
  BY <1>9, <1>20 DEF vars
<1> QED BY <1>3, <1>4, <1>5, <1>6, <1>7, <1>8, <1>10, <1>11, <1>12, <1>14, <1>15,
           <1>16, <1>17, <1>18, <1>19, <1>20 DEF Next, Owner, Cycle, Failure

LEMMA WorkingStep == ASSUME Inv, [Next]_vars PROVE Working'
<1> USE DEF Inv, dbVars, memVars, receiverVars, failureVars
<1>1. ASSUME pc' = pc, UNCHANGED memVars PROVE Working'
  BY <1>1 DEF Working, Busy
<1>2. ASSUME NEW s \in SubId, NEW v \in Value, NEW d \in Dest, EditSubscription(s, v, d) PROVE Working'
  BY <1>1, <1>2 DEF EditSubscription, NoEdit
<1>3. ASSUME NEW s \in SubId, EnableSubscription(s) \/ DisableSubscription(s) \/ DeleteSubscription(s)
      PROVE  Working'
  BY <1>1, <1>3 DEF EnableSubscription, DisableSubscription, DeleteSubscription, NoEdit
<1>4. ASSUME NEW s \in SubId, RecordMatch(s) PROVE Working'
  BY <1>1, <1>4 DEF RecordMatch
<1>5. CASE StartCycle
  <2>1. \A t \in SubId : subs[t] # None => subs'[t] \in Subscription
    BY <1>5, Aging DEF StartCycle
  <2>2. \A t \in todo' : \E r \in matches : r.sub = t
    BY <1>5 DEF StartCycle, PendingMatches
  <2>3. \A t \in todo' : view'[t] \in Subscription
    BY <1>5, <2>1, <2>2, Rows DEF StartCycle, Ids
  <2> QED BY <1>5, <2>3 DEF StartCycle, Working, Busy
<1>6. CASE ListFails
  BY <1>1, <1>6 DEF ListFails
<1>7. ASSUME NEW s \in SubId, Skip(s) \/ Defer(s) PROVE Working'
  BY <1>7 DEF Skip, Defer, Working, Busy
<1>8. ASSUME NEW s \in SubId, Deliver(s) PROVE Working'
  BY <1>8, Delivered DEF Working, Busy
<1>9. CASE MarkNotified \/ MarkNotifiedFails
  BY <1>9 DEF MarkNotified, MarkNotifiedFails, Working, Busy
<1>10. ASSUME DeliveryDone PROVE Working'
  BY <1>10 DEF DeliveryDone, Working, Busy
<1>11. CASE RecordSuccess \/ RecordSuccessFails \/ RecordFailureFails \/ DisableFailing \/ DisableFailingFails
  BY <1>10, <1>11 DEF RecordSuccess, RecordSuccessFails, RecordFailureFails, DisableFailing, DisableFailingFails
<1>12. CASE RecordFailure
  <2>1. CASE pc' = "disable" /\ UNCHANGED memVars
    BY <1>12, <2>1 DEF RecordFailure, Working, Busy
  <2> QED BY <1>10, <1>12, <2>1, Failed
<1>13. CASE FinishCycle \/ Restart \/ Crash
  BY <1>13 DEF FinishCycle, Restart, Crash, Working, Busy
<1>14. CASE UNCHANGED vars
  BY <1>1, <1>14 DEF vars
<1> QED BY <1>2, <1>3, <1>4, <1>5, <1>6, <1>7, <1>8, <1>9, <1>11, <1>12, <1>13, <1>14
        DEF Next, Owner, Cycle, Failure

LEMMA OvertakingStep == ASSUME Inv, [Next]_vars PROVE Overtaking'
<1> USE DEF Inv, dbVars, memVars, receiverVars, failureVars
<1>1. ASSUME stale' = stale, view' = view, todo' \subseteq todo,
             \A s \in todo' : Outdated(s)' => Outdated(s)
      PROVE  Overtaking'
  <2> HIDE DEF Outdated
  <2> QED BY <1>1 DEF Overtaking
<1>2. ASSUME NEW s \in SubId, stale' = [stale EXCEPT ![s] = 0], view' = view, todo' = todo,
             \A t \in SubId \ {s} : subs'[t] = subs[t]
      PROVE  Overtaking'
  <2>1. stale'[s] = 0 /\ \A t \in SubId \ {s} : stale'[t] = stale[t]
    BY <1>2 DEF TypeOK
  <2>2. \A t \in SubId \ {s} : Outdated(t)' <=> Outdated(t)
    BY <1>2 DEF Outdated
  <2>3. \A t \in todo : t \in SubId
    BY DEF TypeOK
  <2> HIDE DEF Outdated
  <2> QED BY <1>2, <2>1, <2>2, <2>3 DEF Overtaking
<1>3. ASSUME NEW s \in SubId, NEW sub \in Subscription, Becomes(s, sub), subs[s] # None,
             sub.disabled => subs[s].disabled, sub.value = subs[s].value, sub.dest = subs[s].dest,
             stale' = stale, view' = view, todo' = todo
      PROVE  Overtaking'
  <2>1. ASSUME NEW t \in todo, Outdated(t)' PROVE Outdated(t)
    <3>1. CASE t = s
      BY <1>3, <2>1, <3>1 DEF Becomes, Outdated
    <3>2. CASE t # s
      <4>1. subs'[t] = subs[t]
        BY <1>3, <3>2 DEF Becomes, TypeOK
      <4> QED BY <1>3, <2>1, <4>1 DEF Outdated
    <3> QED BY <3>1, <3>2
  <2> HIDE DEF Outdated
  <2> QED BY <1>1, <1>3, <2>1
<1>4. ASSUME subs' = subs, stale' = stale, view' = view, todo' \subseteq todo
      PROVE  Overtaking'
  <2>1. \A s \in todo' : Outdated(s)' => Outdated(s)
    BY <1>4 DEF Outdated
  <2> HIDE DEF Outdated
  <2> QED BY <1>1, <1>4, <2>1
<1>5. ASSUME NEW s \in SubId, NEW v \in Value, NEW d \in Dest, EditSubscription(s, v, d)
      PROVE  Overtaking'
  <2>1. \A t \in SubId \ {s} : subs'[t] = subs[t]
    BY <1>5, Redirected DEF Becomes
  <2> QED BY <1>2, <1>5, <2>1 DEF EditSubscription, NoEdit
<1>6. ASSUME NEW s \in SubId, EnableSubscription(s) PROVE Overtaking'
  BY <1>3, <1>6, Switched DEF EnableSubscription, NoEdit
<1>7. ASSUME NEW s \in SubId, DisableSubscription(s) PROVE Overtaking'
  <2>1. PICK sub \in Subscription : /\ Becomes(s, sub) /\ subs[s] # None
                                    /\ sub.value = subs[s].value /\ sub.dest = subs[s].dest
    BY <1>7, Switched DEF DisableSubscription
  <2>2. CASE subs[s].disabled
    BY <1>3, <1>7, <2>1, <2>2 DEF DisableSubscription, NoEdit
  <2>3. CASE ~subs[s].disabled
    BY <1>2, <1>7, <2>1, <2>3 DEF DisableSubscription, NoEdit, Becomes
  <2> QED BY <2>2, <2>3
<1>8. ASSUME NEW s \in SubId, DeleteSubscription(s) PROVE Overtaking'
  <2>1. \A t \in SubId \ {s} : subs'[t] = subs[t]
    BY <1>8 DEF DeleteSubscription, TypeOK
  <2> QED BY <1>2, <1>8, <2>1 DEF DeleteSubscription
<1>9. CASE StartCycle
  <2>1. \A t \in todo' : t \in SubId /\ subs[t] # None
    BY <1>9, Rows DEF StartCycle, PendingMatches, Ids
  <2>2. \A t \in todo' : subs'[t] # None
    BY <1>9, <2>1, Aging, NoneAssumption DEF StartCycle
  <2>3. view' = subs' /\ stale' = stale
    BY <1>9 DEF StartCycle
  <2>4. \A t \in todo' : Outdated(t)' => view'[t].disabled
    BY <2>2, <2>3 DEF Outdated
  <2> HIDE DEF Outdated
  <2> QED BY <2>3, <2>4 DEF Overtaking
<1>10. CASE ListFails
  BY <1>1, <1>10 DEF ListFails, Working
<1>11. ASSUME NEW s \in SubId, Skip(s) \/ Defer(s) PROVE Overtaking'
  BY <1>4, <1>11 DEF Skip, Defer
<1>12. ASSUME NEW s \in SubId, Deliver(s) PROVE Overtaking'
  <2>1. /\ s \in todo /\ ~view[s].disabled /\ todo' = todo \ {s}
        /\ stale' = IF Outdated(s) THEN [stale EXCEPT ![s] = @ + 1] ELSE stale
        /\ subs' = subs /\ view' = view
    BY <1>12, Delivered
  <2>2. CASE ~Outdated(s)
    BY <1>4, <2>1, <2>2
  <2>3. CASE Outdated(s)
    <3> HIDE DEF Outdated
    <3>1. stale[s] = 0
      BY <2>1, <2>3 DEF Overtaking
    <3>2. stale'[s] = 1 /\ \A t \in SubId \ {s} : stale'[t] = stale[t]
      BY <2>1, <2>3, <3>1 DEF TypeOK
    <3>3. \A t \in todo' : t \in SubId \ {s} /\ t \in todo
      BY <2>1 DEF TypeOK
    <3>4. \A t \in todo' : Outdated(t)' <=> Outdated(t)
      BY <2>1 DEF Outdated
    <3> QED BY <2>1, <3>2, <3>3, <3>4 DEF Overtaking
  <2> QED BY <2>2, <2>3
<1>13. CASE MarkNotified \/ MarkNotifiedFails \/ RecordSuccessFails \/ RecordFailureFails \/ DisableFailingFails
  BY <1>4, <1>13 DEF MarkNotified, MarkNotifiedFails, RecordSuccessFails, RecordFailureFails,
                     DisableFailingFails, DeliveryDone
<1>14. ASSUME NEW sub \in Subscription, Becomes(current, sub), current \in SubId, current \notin todo,
              stale' = stale, view' = view, todo' = todo
       PROVE  Overtaking'
  <2>1. \A t \in todo : t \in SubId \ {current}
    BY <1>14 DEF TypeOK
  <2>2. \A t \in todo : subs'[t] = subs[t]
    BY <1>14, <2>1 DEF Becomes
  <2>3. \A t \in todo' : Outdated(t)' => Outdated(t)
    BY <1>14, <2>2 DEF Outdated
  <2> HIDE DEF Outdated
  <2> QED BY <1>1, <1>14, <2>3
<1>15. CASE RecordSuccess
  <2>1. UNCHANGED <<stale, view, todo>> /\ current \in SubId /\ current \notin todo
    BY <1>15 DEF RecordSuccess, DeliveryDone, Working, Busy
  <2> QED BY <1>4, <1>14, <1>15, <2>1, Succeeded
<1>16. CASE RecordFailure
  <2>1. UNCHANGED <<stale, view, todo>> /\ current \in SubId /\ current \notin todo
    BY <1>16, Failed DEF RecordFailure, DeliveryDone, Working, Busy
  <2> QED BY <1>14, <1>16, <2>1, Failed
<1>17. CASE DisableFailing
  <2>1. UNCHANGED <<stale, view, todo>> /\ current \in SubId /\ current \notin todo
    BY <1>17 DEF DisableFailing, DeliveryDone, Working, Busy
  <2> QED BY <1>4, <1>14, <1>17, <2>1, Disabled
<1>18. ASSUME NEW s \in SubId, RecordMatch(s) PROVE Overtaking'
  BY <1>4, <1>18 DEF RecordMatch
<1>19. CASE FinishCycle \/ Crash
  BY <1>19 DEF FinishCycle, Crash, Overtaking
<1>20. CASE Restart
  BY <1>4, <1>20 DEF Restart
<1>21. CASE UNCHANGED vars
  BY <1>4, <1>21 DEF vars
<1> QED BY <1>5, <1>6, <1>7, <1>8, <1>9, <1>10, <1>11, <1>12, <1>13, <1>15,
           <1>16, <1>17, <1>18, <1>19, <1>20, <1>21 DEF Next, Owner, Cycle, Failure

LEMMA CopiesStep == ASSUME Inv, [Next]_vars PROVE Copies'
<1> USE DEF Inv, dbVars, memVars, receiverVars, failureVars
<1>1. ASSUME UNCHANGED receiverVars, matches' \subseteq matches,
             pending' \subseteq pending, todo' \subseteq todo,
             \/ pc' = pc /\ batch' = batch
             \/ pc # "mark" /\ pc' # "mark" /\ batch' \subseteq batch
      PROVE  Copies'
  <2>1. pc' = "mark" => pc = "mark" /\ batch' = batch
    BY <1>1
  <2>2. pc = "mark" => pc' = "mark"
    BY <1>1
  <2>3. batch' \subseteq batch
    BY <1>1
  <2> QED BY <1>1, <2>1, <2>2, <2>3 DEF Copies
<1>2. CASE Owner
  <2>1. matches' \subseteq matches /\ UNCHANGED <<pc, memVars, receiverVars>>
    BY <1>2 DEF Owner, EditSubscription, EnableSubscription, DisableSubscription,
                DeleteSubscription, NoEdit
  <2> QED BY <1>1, <2>1
<1>3. ASSUME NEW s \in SubId, RecordMatch(s) PROVE Copies'
  <2>1. PICK n \in Match : n.id = lastId + 1 /\ ~n.notified /\ matches' \subseteq matches \cup {n}
    BY <1>3, Recorded
  <2>2. n.id \in RowId /\ copies[n.id] = 0 /\ unmarked[n.id] = 0
    BY <2>1, Rows DEF Match, Ids
  <2>3. pc # "mark" /\ UNCHANGED <<pc, memVars, receiverVars>>
    BY <1>3 DEF RecordMatch
  <2> QED BY <2>1, <2>2, <2>3 DEF Copies
<1>4. CASE StartCycle
  <2>1. pc = "monitor" /\ pc' = "cycle" /\ batch = {} /\ UNCHANGED <<matches, batch, receiverVars>>
    BY <1>4 DEF StartCycle, Working, Busy
  <2>2. \A r \in pending' : r \in matches /\ ~r.notified
    BY <1>4 DEF StartCycle, PendingMatches
  <2> QED BY <2>1, <2>2 DEF Copies
<1>5. CASE ListFails \/ Restart \/ \E s \in SubId : Skip(s) \/ Defer(s)
  BY <1>1, <1>5 DEF ListFails, Restart, Skip, Defer
<1>6. CASE FinishCycle
  BY <1>1, <1>6 DEF FinishCycle
<1>7. ASSUME NEW s \in SubId, Deliver(s) PROVE Copies'
  <2>1. PICK outcome \in {"accepted", "lost", "refused"} :
          /\ pc' = IF outcome = "accepted" THEN "mark" ELSE "failed"
          /\ copies' = [i \in RowId |-> IF outcome # "refused" /\ i \in batch'
                                        THEN copies[i] + 1 ELSE copies[i]]
          /\ unmarked' = [i \in RowId |-> IF outcome = "lost" /\ i \in batch'
                                          THEN unmarked[i] + 1 ELSE unmarked[i]]
    BY <1>7, Delivered
  <2>2. /\ pc = "cycle" /\ s \in todo /\ todo' = todo \ {s}
        /\ UNCHANGED <<matches, pending>> /\ batch' \subseteq RowId
        /\ \A i \in batch' : \E r \in pending : r.id = i /\ r.sub = s
    BY <1>7, Delivered
  <2>3. \A i \in batch' : copies[i] = unmarked[i]
    BY <2>2 DEF Copies
  <2>4. \A i \in RowId : copies[i] \in Nat /\ unmarked[i] \in Nat
    BY DEF TypeOK
  <2>5. ASSUME NEW r \in matches, ~r.notified
        PROVE  copies'[r.id] = unmarked'[r.id] \/ (pc' = "mark" /\ r.id \in batch')
    <3>1. r.id \in RowId /\ copies[r.id] = unmarked[r.id]
      BY <2>2, <2>5, Rows DEF Copies
    <3> QED BY <2>1, <3>1
  <2>6. ASSUME NEW r \in matches, r.notified
        PROVE  copies'[r.id] > unmarked'[r.id] /\ r.id \notin batch'
    <3>1. r.id \in RowId /\ copies[r.id] > unmarked[r.id]
      BY <2>6, Rows DEF Copies
    <3>2. r.id \notin batch'
      BY <2>3, <2>4, <3>1
    <3> QED BY <2>1, <3>1, <3>2
  <2>7. ASSUME NEW r \in pending, r.sub \in todo'
        PROVE  copies'[r.id] = unmarked'[r.id] /\ r.id \notin batch'
    <3>1. r.id \in RowId /\ copies[r.id] = unmarked[r.id]
      BY <2>2, <2>7, Rows DEF Copies
    <3>2. r.id \notin batch'
      BY <2>2, <2>7 DEF Ids
    <3> QED BY <2>1, <3>1, <3>2
  <2>8. pc' = "mark" => \A i \in batch' : copies'[i] = unmarked'[i] + 1
    BY <2>1, <2>2, <2>3, <2>4
  <2>9. ASSUME NEW i \in RowId PROVE copies'[i] <= 1 + unmarked'[i]
    <3>1. copies[i] <= 1 + unmarked[i]
      BY DEF Copies
    <3>2. CASE i \in batch'
      BY <2>1, <2>3, <2>4, <3>2
    <3>3. CASE i \notin batch'
      BY <2>1, <3>1, <3>3
    <3> QED BY <3>2, <3>3
  <2> QED BY <2>2, <2>5, <2>6, <2>7, <2>8, <2>9 DEF Copies
<1>8. CASE MarkNotified
  <2>1. \A q \in matches' : \E r \in matches : /\ q.id = r.id
                                              /\ IF r.id \in batch THEN q.notified ELSE q = r
    BY <1>8, Marked
  <2>2. pc = "mark" /\ pc' = "success" /\ UNCHANGED <<memVars, receiverVars>>
    BY <1>8 DEF MarkNotified
  <2>3. ASSUME NEW q \in matches'
        PROVE  /\ ~q.notified => copies[q.id] = unmarked[q.id]
               /\ q.notified => copies[q.id] > unmarked[q.id]
    <3>1. PICK r \in matches : q.id = r.id /\ IF r.id \in batch THEN q.notified ELSE q = r
      BY <2>1
    <3>2. CASE r.id \in batch
      <4>1. copies[r.id] = unmarked[r.id] + 1 /\ unmarked[r.id] \in Nat
        BY <2>2, <3>2, Rows DEF Copies, TypeOK
      <4> QED BY <3>1, <3>2, <4>1
    <3>3. CASE r.id \notin batch
      BY <3>1, <3>3 DEF Copies
    <3> QED BY <3>2, <3>3
  <2> QED BY <2>2, <2>3 DEF Copies
<1>9. ASSUME pc = "mark", pc' # "mark", Unmark(batch), copies' = copies, matches' = matches,
             pending' \subseteq pending, todo' \subseteq todo, batch' \subseteq batch
      PROVE  Copies'
  <2>1. \A i \in RowId : unmarked'[i] = IF i \in batch THEN unmarked[i] + 1 ELSE unmarked[i]
    BY <1>9 DEF Unmark
  <2>2. \A i \in batch : copies[i] = unmarked[i] + 1 /\ i \in RowId
    BY <1>9, Rows DEF Copies
  <2>3. \A i \in RowId : copies[i] \in Nat /\ unmarked[i] \in Nat
    BY DEF TypeOK
  <2>4. \A i \in RowId : copies'[i] <= 1 + unmarked'[i]
    BY <1>9, <2>1, <2>2, <2>3 DEF Copies
  <2>5. \A r \in matches' : ~r.notified => copies'[r.id] = unmarked'[r.id]
    BY <1>9, <2>1, <2>2, Rows DEF Copies
  <2>6. \A r \in matches' : r.notified => copies'[r.id] > unmarked'[r.id]
    BY <1>9, <2>1, Rows DEF Copies
  <2>7. \A r \in pending' : r.sub \in todo' => copies'[r.id] = unmarked'[r.id] /\ r.id \notin batch'
    BY <1>9, <2>1, Rows DEF Copies
  <2> QED BY <1>9, <2>4, <2>5, <2>6, <2>7 DEF Copies
<1>10. CASE MarkNotifiedFails
  BY <1>9, <1>10 DEF MarkNotifiedFails
<1>11. ASSUME DeliveryDone, pc \in {"success", "failed", "disable"} PROVE Copies'
  BY <1>1, <1>11 DEF DeliveryDone
<1>12. CASE RecordSuccess \/ RecordSuccessFails \/ RecordFailureFails \/ DisableFailing \/ DisableFailingFails
  BY <1>11, <1>12 DEF RecordSuccess, RecordSuccessFails, RecordFailureFails, DisableFailing, DisableFailingFails
<1>13. CASE RecordFailure
  <2>1. CASE pc' = "disable" /\ UNCHANGED <<matches, memVars, receiverVars>>
    BY <1>1, <1>13, <2>1 DEF RecordFailure
  <2> QED BY <1>11, <1>13, <2>1, Failed DEF RecordFailure
<1>14. CASE Crash
  <2>1. CASE pc = "mark"
    BY <1>9, <1>14, <2>1 DEF Crash
  <2>2. CASE pc # "mark"
    BY <1>1, <1>14, <2>2 DEF Crash
  <2> QED BY <2>1, <2>2
<1>15. CASE UNCHANGED vars
  BY <1>1, <1>15 DEF vars
<1> QED BY <1>2, <1>3, <1>4, <1>5, <1>6, <1>7, <1>8, <1>10, <1>12, <1>13, <1>14, <1>15
        DEF Next, Cycle, Failure

At(s) == Busy /\ current = s

\* A step that leaves the failures of s, and whether it is being delivered to, as they are.
Kept(s) ==
  /\ tries'[s] = tries[s] /\ slack'[s] = slack[s]
  /\ subs'[s] # None => /\ subs[s] # None /\ subs'[s].failures = subs[s].failures
                        /\ subs[s].disabled => subs'[s].disabled
  /\ (pc' = pc /\ current' = current) \/ ~(At(s) \/ At(s)')

LEMMA KeptBounded ==
  ASSUME NEW s \in SubId, Bounded(s), Kept(s)
  PROVE  Bounded(s)'
<1>1. CASE pc' = pc /\ current' = current
  BY <1>1 DEF Bounded, Kept, Trying, Busy
<1>2. CASE ~At(s) /\ ~At(s)'
  <2>1. Trying(s) = 0 /\ Trying(s)' = 0
    BY <1>2 DEF At, Busy, Trying
  <2> QED BY <1>2, <2>1 DEF Bounded, Kept, At
<1> QED BY <1>1, <1>2 DEF Kept

\* What is listed keeps its attempt as long as its failures are the same.
LEMMA ListedCounting ==
  ASSUME TypeOK, Counting, todo' \subseteq todo, view' = view \/ todo' = {},
         tries' = tries, \A s \in SubId : slack'[s] \in Nat /\ slack'[s] >= slack[s] /\ Bounded(s)',
         \/ pc' \notin {"mark", "success"}
         \/ pc \in {"mark", "success"} /\ current' = current
  PROVE  Counting'
<1>1. \A s \in todo : s \in SubId /\ tries[s] \in Nat /\ slack[s] \in Nat
  BY DEF TypeOK
<1>2. \A s \in todo' : ~view'[s].disabled => tries'[s] + 1 <= MaxFailures + slack'[s]
  BY <1>1 DEF Counting
<1> HIDE DEF Bounded
<1> QED BY <1>2 DEF Counting

\* The end of a delivery that succeeded or whose failure was counted or excused.
LEMMA DoneCounting ==
  ASSUME TypeOK, Working, Counting, pc' \in {"cycle", "down"}, tries' = tries,
         (todo' = todo /\ view' = view) \/ todo' = {},
         Busy, \A s \in SubId \ {current} : subs'[s] = subs[s] /\ slack'[s] = slack[s],
         slack'[current] \in Nat, slack'[current] >= slack[current],
         \A s \in SubId : s = current => Bounded(s)'
  PROVE  Counting'
<1>1. current \in SubId /\ ~Busy'
  BY DEF Working, Busy
<1>2. ASSUME NEW s \in SubId \ {current} PROVE Kept(s)
  BY <1>1, <1>2 DEF Kept, At
<1>3. \A s \in SubId : slack'[s] \in Nat /\ slack'[s] >= slack[s] /\ Bounded(s)'
  <2>1. \A s \in SubId \ {current} : Bounded(s)'
    BY <1>2, KeptBounded DEF Counting
  <2> HIDE DEF Bounded
  <2> QED BY <1>1, <2>1 DEF TypeOK
<1> HIDE DEF Bounded
<1> QED BY <1>3, ListedCounting

LEMMA CountingStep == ASSUME Inv, TypeOK', [Next]_vars PROVE Counting'
<1> USE DEF Inv, dbVars, memVars, receiverVars, failureVars
<1>1. ASSUME \A s \in SubId : Kept(s), todo' \subseteq todo, view' = view \/ todo' = {},
             tries' = tries, slack' = slack,
             \/ pc' \notin {"mark", "success"}
             \/ pc \in {"mark", "success"} /\ current' = current
      PROVE  Counting'
  <2>1. \A s \in SubId : slack'[s] \in Nat /\ slack'[s] >= slack[s]
    BY <1>1 DEF TypeOK
  <2>2. \A s \in SubId : Bounded(s)'
    BY <1>1, KeptBounded DEF Counting
  <2> HIDE DEF Bounded
  <2> QED BY <1>1, <2>1, <2>2, ListedCounting
<1>2. ASSUME NEW s \in SubId, NEW sub \in Subscription, Becomes(s, sub), subs[s] # None,
             sub.failures = subs[s].failures, subs[s].disabled => sub.disabled,
             UNCHANGED <<pc, current, todo, view, tries, slack>>
      PROVE  Counting'
  <2>1. \A t \in SubId : Kept(t)
    BY <1>2 DEF Becomes, Kept, TypeOK
  <2> QED BY <1>1, <1>2, <2>1
<1>3. ASSUME NEW s \in SubId, NEW v \in Value, NEW d \in Dest, EditSubscription(s, v, d)
      PROVE  Counting'
  <2>1. UNCHANGED <<pc, current, todo, view, tries, slack>> /\ subs[s] # None
    BY <1>3 DEF EditSubscription, NoEdit
  <2>2. PICK sub \in Subscription : /\ Becomes(s, sub) /\ sub.failures = subs[s].failures
                                    /\ sub.disabled = subs[s].disabled
    BY <1>3, Redirected
  <2> QED BY <1>2, <2>1, <2>2
<1>4. ASSUME NEW s \in SubId, EnableSubscription(s) PROVE Counting'
  <2>1. UNCHANGED <<pc, current, todo, view, tries>> /\ subs[s] # None
    BY <1>4 DEF EnableSubscription, NoEdit
  <2>2. PICK sub \in Subscription : /\ Becomes(s, sub) /\ sub.failures = subs[s].failures
                                    /\ ~sub.disabled
    BY <1>4, <2>1, Switched DEF EnableSubscription
  <2>3. slack' = IF subs[s].disabled /\ subs[s].failures = MaxFailures
                 THEN [slack EXCEPT ![s] = @ + 1] ELSE slack
    BY <1>4 DEF EnableSubscription
  <2>4. ASSUME NEW t \in SubId \ {s} PROVE Bounded(t)'
    <3>1. Kept(t)
      BY <2>1, <2>2, <2>3, <2>4 DEF Becomes, Kept, TypeOK
    <3> QED BY <2>4, <3>1, KeptBounded DEF Counting
  <2>5. Bounded(s)' /\ slack'[s] >= slack[s]
    <3>1. Trying(s)' = Trying(s) /\ subs'[s] = sub /\ (Busy' <=> Busy)
      BY <2>1, <2>2 DEF Becomes, Trying, Busy
    <3>2. tries[s] \in Nat /\ slack[s] \in Nat /\ subs[s].failures \in Nat /\ Trying(s) \in {0, 1}
      BY <2>1, SubscriptionFields DEF TypeOK, Trying
    <3>3. Bounded(s)
      BY DEF Counting
    <3>4. CASE subs[s].disabled /\ subs[s].failures = MaxFailures
      <4>1. slack'[s] = slack[s] + 1
        BY <2>3, <3>4 DEF TypeOK
      <4> QED BY <2>1, <2>2, <3>1, <3>2, <3>3, <3>4, <4>1 DEF Bounded
    <3>5. CASE ~(subs[s].disabled /\ subs[s].failures = MaxFailures)
      <4>1. slack' = slack
        BY <2>3, <3>5
      <4> QED BY <2>1, <2>2, <3>1, <3>2, <3>3, <3>5, <4>1 DEF Bounded
    <3> QED BY <3>4, <3>5
  <2>6. \A t \in SubId : slack'[t] \in Nat /\ slack'[t] >= slack[t]
    BY <2>3, <2>5 DEF TypeOK
  <2> HIDE DEF Bounded
  <2> QED BY <2>1, <2>4, <2>5, <2>6, ListedCounting
<1>5. ASSUME NEW s \in SubId, DisableSubscription(s) PROVE Counting'
  BY <1>2, <1>5, Switched DEF DisableSubscription, NoEdit
<1>6. ASSUME NEW s \in SubId, DeleteSubscription(s) PROVE Counting'
  <2>1. \A t \in SubId : Kept(t)
    BY <1>6 DEF DeleteSubscription, Kept, TypeOK
  <2> QED BY <1>1, <1>6, <2>1 DEF DeleteSubscription
<1>7. ASSUME subs' = subs, UNCHANGED <<tries, slack>>,
             (pc' = pc /\ current' = current) \/ (~Busy /\ ~Busy'),
             todo' \subseteq todo, view' = view \/ todo' = {}
      PROVE  Counting'
  <2>1. \A t \in SubId : Kept(t)
    BY <1>7 DEF Kept, At
  <2> QED BY <1>1, <1>7, <2>1 DEF Busy
<1>8. CASE FinishCycle \/ Restart \/ UNCHANGED vars \/ \E s \in SubId : RecordMatch(s) \/ Skip(s) \/ Defer(s)
  <2>1. CASE FinishCycle \/ Restart
    BY <1>7, <2>1 DEF FinishCycle, Restart, Busy
  <2>2. CASE UNCHANGED vars
    <3>1. UNCHANGED <<subs, tries, slack, pc, current, todo, view>>
      BY <2>2 DEF vars
    <3> QED BY <1>7, <3>1 DEF Busy
  <2>3. ASSUME NEW s \in SubId, RecordMatch(s) PROVE Counting'
    BY <1>7, <2>3 DEF RecordMatch, Busy
  <2>4. ASSUME NEW s \in SubId, Skip(s) \/ Defer(s) PROVE Counting'
    <3>1. UNCHANGED <<subs, tries, slack, pc, current, view>> /\ todo' \subseteq todo
      BY <2>4 DEF Skip, Defer
    <3> QED BY <1>7, <3>1 DEF Busy
  <2> QED BY <1>8, <2>1, <2>2, <2>3, <2>4
<1>9. ASSUME pc = "monitor", pc' \in {"monitor", "cycle"}, UNCHANGED <<tries, slack>>,
             NEW e \in Elapsed, subs' = [s \in SubId |-> Later(subs[s], e)]
      PROVE  \A s \in SubId : Kept(s)
  BY <1>9, Aging DEF Kept, At, Busy
<1>10. CASE StartCycle
  <2>1. \A s \in SubId : Bounded(s)' /\ Kept(s)
    BY <1>9, <1>10, KeptBounded DEF StartCycle, Counting
  <2>2. \A s \in todo' : s \in SubId /\ subs[s] # None
    BY <1>10, Rows DEF StartCycle, PendingMatches, Ids
  <2>3. ASSUME NEW s \in todo', ~view'[s].disabled PROVE tries[s] + 1 <= MaxFailures + slack[s]
    <3>1. s \in SubId /\ subs[s] # None /\ subs[s] \in Subscription /\ Bounded(s) /\ Kept(s)
      BY <2>1, <2>2 DEF TypeOK, Counting
    <3>2. subs'[s] # None /\ view' = subs'
      BY <1>10, <3>1, Aging, NoneAssumption DEF StartCycle
    <3>3. ~subs[s].disabled /\ subs[s].failures \in 0..MaxFailures
      BY <2>3, <3>1, <3>2, SubscriptionFields DEF Kept
    <3>4. Trying(s) = 0 /\ ~Busy /\ tries[s] \in Nat /\ slack[s] \in Nat
      BY <1>10, <3>1 DEF StartCycle, Trying, Busy, TypeOK
    <3> QED BY <3>1, <3>3, <3>4 DEF Bounded
  <2> HIDE DEF Bounded
  <2> QED BY <1>10, <2>1, <2>3 DEF StartCycle, Counting
<1>11. CASE ListFails
  BY <1>1, <1>9, <1>11 DEF ListFails
<1>12. ASSUME NEW s \in SubId, Deliver(s) PROVE Counting'
  <2>1. PICK outcome \in {"accepted", "lost", "refused"} :
          /\ pc' = IF outcome = "accepted" THEN "mark" ELSE "failed"
          /\ tries' = [tries EXCEPT ![s] = IF outcome = "accepted" THEN 0 ELSE @ + 1]
          /\ slack' = IF outcome = "accepted" THEN [slack EXCEPT ![s] = 0] ELSE slack
    BY <1>12, Delivered
  <2>2. /\ pc = "cycle" /\ s \in todo /\ ~view[s].disabled /\ todo' = todo \ {s} /\ current' = s
        /\ UNCHANGED <<subs, view>>
    BY <1>12, Delivered
  <2>3. ASSUME NEW t \in SubId \ {s} PROVE Kept(t)
    BY <2>1, <2>2, <2>3 DEF Kept, At, Busy, TypeOK
  <2>4. tries[s] + 1 <= MaxFailures + slack[s] /\ Bounded(s)
    BY <2>2 DEF Counting
  <2>5. Bounded(s)'
    <3>1. At(s)'
      BY <2>1, <2>2 DEF At, Busy
    <3>2. CASE outcome = "accepted"
      <4>1. tries'[s] = 0 /\ slack'[s] = 0 /\ Trying(s)' = 0
        BY <2>1, <3>2 DEF TypeOK, Trying
      <4>2. subs'[s] # None => subs'[s].failures \in Nat
        BY SubscriptionFields DEF TypeOK
      <4> QED BY <3>1, <4>1, <4>2 DEF Bounded, At
    <3>3. CASE outcome # "accepted"
      <4>1. tries'[s] = tries[s] + 1 /\ slack'[s] = slack[s] /\ Trying(s)' = 1 /\ Trying(s) = 0
        BY <2>1, <2>2, <3>3 DEF TypeOK, Trying
      <4>2. subs[s] # None => subs[s].failures \in Nat
        BY SubscriptionFields DEF TypeOK
      <4>3. tries[s] \in Nat /\ slack[s] \in Nat
        BY DEF TypeOK
      <4> QED BY <2>2, <2>4, <3>1, <4>1, <4>2, <4>3 DEF Bounded, At
    <3> QED BY <3>2, <3>3
  <2>6. \A t \in SubId : Bounded(t)'
    <3>1. \A t \in SubId \ {s} : Bounded(t)'
      BY <2>3, KeptBounded DEF Counting
    <3> HIDE DEF Bounded
    <3> QED BY <2>5, <3>1
  <2>7. \A t \in todo' : ~view'[t].disabled => tries'[t] + 1 <= MaxFailures + slack'[t]
    BY <2>2, <2>3 DEF Counting, Kept, TypeOK
  <2>8. pc' \in {"mark", "success"} => tries'[current'] = 0
    BY <2>1, <2>2 DEF TypeOK
  <2> HIDE DEF Bounded
  <2> QED BY <2>6, <2>7, <2>8 DEF Counting
<1>13. CASE MarkNotified \/ MarkNotifiedFails
  <2>1. pc = "mark" /\ pc' = "success" /\ UNCHANGED <<subs, current, todo, view, tries, slack>>
    BY <1>13 DEF MarkNotified, MarkNotifiedFails
  <2>2. ASSUME NEW s \in SubId PROVE Bounded(s)'
    <3>1. Trying(s)' = 0 /\ Trying(s) = 0 /\ Busy' /\ Busy
      BY <2>1 DEF Trying, Busy
    <3>2. Bounded(s)
      BY DEF Counting
    <3> QED BY <2>1, <3>1, <3>2 DEF Bounded
  <2>3. \A s \in SubId : slack'[s] \in Nat /\ slack'[s] >= slack[s]
    BY <2>1 DEF TypeOK
  <2> HIDE DEF Bounded
  <2> QED BY <2>1, <2>2, <2>3, ListedCounting
<1>14. ASSUME DeliveryDone, Busy, slack' = slack, UNCHANGED subs \/ \E sub \in Subscription : Becomes(current, sub),
              \A s \in SubId : s = current => Bounded(s)'
       PROVE  Counting'
  <2>1. pc' = "cycle" /\ UNCHANGED <<todo, view, tries>>
    BY <1>14 DEF DeliveryDone
  <2>2. \A s \in SubId \ {current} : subs'[s] = subs[s] /\ slack'[s] = slack[s]
    BY <1>14 DEF Becomes
  <2>3. slack'[current] \in Nat /\ slack'[current] >= slack[current]
    BY <1>14 DEF Working, TypeOK
  <2> HIDE DEF Bounded
  <2> QED BY <1>14, <2>1, <2>2, <2>3, DoneCounting
<1>15. ASSUME Busy PROVE /\ current \in SubId /\ tries[current] \in Nat /\ slack[current] \in Nat
                         /\ Bounded(current) /\ Trying(current) = IF pc = "failed" THEN 1 ELSE 0
                         /\ subs[current] # None => subs[current].failures \in 0..MaxFailures
  BY <1>15, SubscriptionFields DEF Working, Counting, TypeOK, Trying
<1>16. ASSUME DeliveryDone \/ Crash, Busy, slack' = [slack EXCEPT ![current] = @ + 1], subs' = subs
       PROVE  Counting'
  <2>1. /\ tries' = tries /\ pc' \in {"cycle", "down"} /\ ~Busy'
        /\ (UNCHANGED <<todo, view>>) \/ todo' = {}
    BY <1>16 DEF DeliveryDone, Crash, Busy
  <2>2. /\ slack'[current] = slack[current] + 1
        /\ \A s \in SubId \ {current} : subs'[s] = subs[s] /\ slack'[s] = slack[s]
    BY <1>15, <1>16 DEF TypeOK
  <2>3. ASSUME NEW s \in SubId, s = current PROVE Bounded(s)'
    <3>1. Trying(s)' = 0 /\ Trying(s) \in {0, 1}
      BY <2>1 DEF Trying, Busy
    <3> QED BY <1>15, <1>16, <2>1, <2>2, <2>3, <3>1 DEF Bounded
  <2> HIDE DEF Bounded
  <2> QED BY <1>15, <1>16, <2>1, <2>2, <2>3, DoneCounting
<1>17. ASSUME Busy, tries[current] = 0, pc' \notin {"failed", "disable"} PROVE
         \A s \in SubId : s = current /\ tries'[s] = 0 /\ slack'[s] \in Nat
                         /\ (subs'[s] # None => subs'[s].failures \in Nat) => Bounded(s)'
  BY <1>17 DEF Bounded, Trying
<1>18. CASE RecordSuccess
  <2>1. DeliveryDone /\ Busy /\ pc' = "cycle" /\ tries' = tries /\ slack' = slack /\ tries[current] = 0
    BY <1>18 DEF RecordSuccess, DeliveryDone, Busy, Counting
  <2>2. subs' = subs \/ \E sub \in Subscription : Becomes(current, sub)
    BY <1>18, Succeeded
  <2>3. subs'[current] # None => subs'[current].failures \in Nat
    BY <1>15, <1>18, <2>1, SubscriptionFields DEF TypeOK
  <2>4. \A s \in SubId : s = current => Bounded(s)'
    BY <1>15, <1>17, <2>1, <2>3
  <2> HIDE DEF Bounded
  <2> QED BY <1>14, <2>1, <2>2, <2>4
<1>19. CASE RecordSuccessFails
  <2>1. /\ DeliveryDone /\ Busy /\ pc' = "cycle" /\ tries[current] = 0
        /\ UNCHANGED <<subs, tries, slack>>
    BY <1>19 DEF RecordSuccessFails, DeliveryDone, Busy, Counting
  <2>2. \A s \in SubId : s = current => Bounded(s)'
    BY <1>15, <1>17, <2>1
  <2> HIDE DEF Bounded
  <2> QED BY <1>14, <2>1, <2>2
<1>20. CASE RecordFailure
  <2>1. /\ pc = "failed" /\ Busy /\ slack' = slack /\ tries' = tries
    BY <1>20 DEF RecordFailure, DeliveryDone, Busy
  <2>2. PICK sub \in Subscription :
          /\ Becomes(current, sub) /\ subs[current] # None
          /\ sub.failures = IF subs[current].failures < MaxFailures
                            THEN subs[current].failures + 1 ELSE MaxFailures
          /\ \/ /\ sub.failures = MaxFailures /\ pc' = "disable"
                /\ UNCHANGED <<matches, lastId, memVars, receiverVars, tries, stale, edits>>
             \/ sub.failures < MaxFailures /\ DeliveryDone
    BY <1>20, Failed
  <2>3. ASSUME NEW s \in SubId, s = current PROVE Bounded(s)'
    <3>1. subs'[s] = sub /\ Trying(s)' = 0 /\ Trying(s) = 1
      BY <2>1, <2>2, <2>3 DEF Becomes, Trying, DeliveryDone
    <3>2. sub.failures = MaxFailures => At(s)'
      BY <2>2, <2>3 DEF At, Busy
    <3> QED BY <1>15, <2>1, <2>2, <2>3, <3>1, <3>2 DEF Bounded, At
  <2>4. CASE DeliveryDone
    <3> HIDE DEF Bounded
    <3> QED BY <1>14, <2>1, <2>2, <2>3, <2>4
  <2>5. CASE pc' = "disable" /\ UNCHANGED memVars
    <3>1. \A s \in SubId \ {current} : Kept(s)
      BY <2>1, <2>2, <2>5 DEF Becomes, Kept, At, TypeOK
    <3>2. \A s \in SubId : Bounded(s)'
      <4>1. \A s \in SubId \ {current} : Bounded(s)'
        BY <3>1, KeptBounded DEF Counting
      <4> HIDE DEF Bounded
      <4> QED BY <2>3, <4>1
    <3>3. \A s \in SubId : slack'[s] \in Nat /\ slack'[s] >= slack[s]
      BY <2>1 DEF TypeOK
    <3> HIDE DEF Bounded
    <3> QED BY <2>1, <2>5, <3>2, <3>3, ListedCounting
  <2> QED BY <2>2, <2>4, <2>5
<1>21. CASE RecordFailureFails
  <2>1. pc = "failed" /\ Busy /\ DeliveryDone /\ UNCHANGED <<subs, tries>>
    BY <1>21 DEF RecordFailureFails, DeliveryDone, Busy
  <2>2. CASE subs[current] = None
    <3>1. \A s \in SubId : s = current => Bounded(s)'
      BY <1>15, <1>21, <2>1, <2>2 DEF RecordFailureFails, Bounded
    <3> HIDE DEF Bounded
    <3> QED BY <1>14, <1>21, <2>1, <2>2, <3>1 DEF RecordFailureFails
  <2>3. CASE subs[current] # None
    BY <1>16, <1>21, <2>1, <2>3 DEF RecordFailureFails
  <2> QED BY <2>2, <2>3
<1>22. CASE DisableFailing
  <2>1. pc = "disable" /\ Busy /\ DeliveryDone /\ UNCHANGED <<tries, slack>>
    BY <1>22 DEF DisableFailing, DeliveryDone, Busy
  <2>2. subs' = subs \/ \E sub \in Subscription : Becomes(current, sub)
    BY <1>22, Disabled
  <2>3. ASSUME NEW s \in SubId, s = current PROVE Bounded(s)'
    <3>1. \/ subs'[s] = None
          \/ subs[s] # None /\ subs'[s].disabled /\ subs'[s].failures = subs[s].failures
      BY <1>22, <2>3, Disabled DEF Becomes
    <3>2. Trying(s) = 0 /\ Trying(s)' = 0
      BY <2>1 DEF Trying, DeliveryDone
    <3> QED BY <1>15, <2>1, <2>3, <3>1, <3>2 DEF Bounded
  <2> HIDE DEF Bounded
  <2> QED BY <1>14, <2>1, <2>2, <2>3
<1>23. CASE DisableFailingFails
  <2>1. Busy /\ DeliveryDone
    BY <1>23 DEF DisableFailingFails, Busy
  <2> QED BY <1>16, <1>23, <2>1 DEF DisableFailingFails
<1>24. CASE Crash
  <2>1. pc' = "down" /\ ~Busy' /\ todo' = {} /\ UNCHANGED <<subs, tries>>
    BY <1>24 DEF Crash, Busy
  <2>2. CASE pc \in {"failed", "disable"}
    BY <1>16, <1>24, <2>2 DEF Crash, Busy
  <2>3. CASE pc \in {"mark", "success"}
    <3>1. Busy /\ tries[current] = 0 /\ slack' = slack
      BY <1>24, <2>3 DEF Crash, Busy, Counting
    <3>2. \A s \in SubId : s = current => Bounded(s)'
      BY <1>15, <1>17, <2>1, <3>1
    <3>3. /\ \A s \in SubId \ {current} : subs'[s] = subs[s] /\ slack'[s] = slack[s]
          /\ slack'[current] \in Nat /\ slack'[current] >= slack[current]
      BY <1>15, <2>1, <3>1
    <3> HIDE DEF Bounded
    <3> QED BY <2>1, <3>1, <3>2, <3>3, DoneCounting
  <2>4. CASE ~Busy
    BY <1>7, <1>24, <2>1, <2>4 DEF Crash, Busy
  <2> QED BY <2>2, <2>3, <2>4 DEF Busy
<1> QED BY <1>3, <1>4, <1>5, <1>6, <1>8, <1>10, <1>11, <1>12, <1>13, <1>18, <1>19, <1>20,
           <1>21, <1>22, <1>23, <1>24 DEF Next, Owner, Cycle, Failure

LEMMA BackoffType ==
  ASSUME NEW f \in 0..MaxFailures PROVE Backoff(f) \in 0..BackoffMax
<1>1. CASE f = 0
  BY <1>1 DEF Backoff
<1>2. CASE f # 0
  <2> DEFINE power == 2^(f - 1)
  <2>1. f - 1 \in 0..MaxFailures
    BY <1>2
  <2>2. power \in Nat
    BY <2>1, PowerAssumption
  <2>3. Backoff(f) = IF BackoffBase * power >= BackoffMax THEN BackoffMax ELSE BackoffBase * power
    BY <1>2 DEF Backoff
  <2> HIDE DEF power
  <2>4. BackoffBase * power \in Nat
    BY <2>2
  <2> QED BY <2>3, <2>4
<1> QED BY <1>1, <1>2

\* A subscription that waits as long for as many failures is as backed.
LEMMA StillBacked ==
  ASSUME NEW sub \in Subscription, NEW next \in Subscription, Backed(sub),
         next.failures = sub.failures,
         next.age = BackoffMax \/ next.wait + next.age >= sub.wait + sub.age
  PROVE  Backed(next)
<1>1. Backoff(sub.failures) \in 0..BackoffMax
  BY BackoffType, SubscriptionFields
<1> HIDE DEF Backoff
<1> QED BY <1>1, SubscriptionFields DEF Backed

LEMMA WaitingStep == ASSUME Inv, [Next]_vars PROVE Waiting'
<1> USE DEF Inv, dbVars, memVars, receiverVars, failureVars
<1> HIDE DEF Backed
<1>1. ASSUME \A s \in SubId : subs'[s] # None => subs[s] # None /\ Backed(subs'[s]),
             \A s \in todo' : s \in todo /\ view'[s] = view[s]
                             /\ (subs'[s] # None => subs'[s].failures = subs[s].failures),
             pc' = "failed" => /\ pc = "failed" /\ current' = current /\ view' = view
                               /\ subs'[current] # None => subs'[current].failures = subs[current].failures
      PROVE  Waiting'
  <2>1. \A s \in todo' : s \in SubId
    BY <1>1 DEF TypeOK
  <2>2. \A s \in todo' : Backed(view'[s])
    BY <1>1 DEF Waiting
  <2>3. \A s \in todo' : subs'[s] # None => subs'[s].failures = view'[s].failures
    BY <1>1, <2>1 DEF Waiting
  <2>4. pc = "failed" => current \in SubId
    BY DEF Working, Busy
  <2>5. pc' = "failed" /\ subs'[current'] # None => subs'[current'].failures = view'[current'].failures
    BY <1>1, <2>4 DEF Waiting
  <2> QED BY <1>1, <2>2, <2>3, <2>5 DEF Waiting
<1>2. ASSUME UNCHANGED subs, todo' = {} \/ (todo' \subseteq todo /\ view' = view),
             pc' # "failed" \/ (pc' = pc /\ current' = current /\ view' = view)
      PROVE  Waiting'
  <2>1. \A s \in SubId : subs'[s] # None => subs[s] # None /\ Backed(subs'[s])
    BY <1>2 DEF Waiting
  <2> QED BY <1>1, <1>2, <2>1
<1>3. CASE \/ FinishCycle \/ Restart \/ Crash \/ MarkNotified \/ MarkNotifiedFails
           \/ RecordSuccessFails \/ RecordFailureFails \/ DisableFailingFails
  BY <1>2, <1>3 DEF FinishCycle, Restart, Crash, MarkNotified, MarkNotifiedFails,
     RecordSuccessFails, RecordFailureFails, DisableFailingFails, DeliveryDone
<1>4. ASSUME UNCHANGED vars PROVE Waiting'
  <2>1. UNCHANGED <<subs, todo, view, pc, current>>
    BY <1>4 DEF vars
  <2> QED BY <1>2, <2>1
<1>5. ASSUME NEW s \in SubId, RecordMatch(s) \/ Skip(s) \/ Defer(s) PROVE Waiting'
  <2>1. UNCHANGED <<subs, view, pc, current>> /\ todo' \subseteq todo
    BY <1>5 DEF RecordMatch, Skip, Defer
  <2> QED BY <1>2, <2>1
<1>6. ASSUME NEW s \in SubId, NEW sub \in Subscription, Becomes(s, sub), subs[s] # None, Backed(sub),
             \/ sub.failures = subs[s].failures
             \/ s \notin todo /\ (pc' = "failed" => s # current),
             todo' = todo, view' = view, pc' = "failed" => pc' = pc /\ current' = current
      PROVE  Waiting'
  <2>1. \A t \in SubId : subs'[t] # None => subs[t] # None /\ Backed(subs'[t])
    BY <1>6 DEF Becomes, Waiting
  <2>2. \A t \in SubId : t = s \/ subs'[t] = subs[t]
    BY <1>6 DEF Becomes
  <2>3. \A t \in todo : t \in SubId
    BY DEF TypeOK
  <2>4. pc = "failed" => current \in SubId
    BY DEF Working, Busy
  <2>5. subs'[s] = sub
    BY <1>6 DEF Becomes
  <2>6. \A t \in todo : subs'[t] # None => subs'[t].failures = subs[t].failures
    BY <1>6, <2>2, <2>3, <2>5
  <2>7. pc' = "failed" => subs'[current].failures = subs[current].failures
    BY <1>6, <2>2, <2>4, <2>5
  <2> QED BY <1>1, <1>6, <2>1, <2>6, <2>7
<1>7. ASSUME NEW s \in SubId, subs[s] # None PROVE subs[s] \in Subscription /\ Backed(subs[s])
  BY <1>7 DEF Waiting, TypeOK
<1>8. ASSUME NEW s \in SubId, NEW sub \in Subscription, Becomes(s, sub), subs[s] # None,
             sub.failures = subs[s].failures, sub.wait = subs[s].wait, sub.age = subs[s].age,
             todo' = todo, view' = view, pc' = "failed" => pc' = pc /\ current' = current
      PROVE  Waiting'
  <2>1. sub.wait + sub.age >= subs[s].wait + subs[s].age
    BY <1>7, <1>8, SubscriptionFields
  <2>2. Backed(sub)
    BY <1>7, <1>8, <2>1, StillBacked
  <2> QED BY <1>6, <1>8, <2>2
<1>9. ASSUME NEW s \in SubId, NEW v \in Value, NEW d \in Dest, EditSubscription(s, v, d)
      PROVE  Waiting'
  <2>1. UNCHANGED <<todo, view, pc, current>>
    BY <1>9 DEF EditSubscription, NoEdit
  <2> QED BY <1>8, <1>9, <2>1, Redirected
<1>10. ASSUME NEW s \in SubId, EnableSubscription(s) \/ DisableSubscription(s) PROVE Waiting'
  <2>1. UNCHANGED <<todo, view, pc, current>> /\ subs[s] # None
    BY <1>10 DEF EnableSubscription, DisableSubscription, NoEdit
  <2>2. \E b \in BOOLEAN : subs' = [subs EXCEPT ![s].disabled = b]
    BY <1>10 DEF EnableSubscription, DisableSubscription
  <2> QED BY <1>8, <2>1, <2>2, Switched
<1>11. ASSUME NEW s \in SubId, DeleteSubscription(s) PROVE Waiting'
  <2>1. UNCHANGED <<todo, view, pc, current>> /\ subs' = [subs EXCEPT ![s] = None]
    BY <1>11 DEF DeleteSubscription
  <2>2. \A t \in SubId : subs'[t] = None \/ subs'[t] = subs[t]
    BY <2>1 DEF TypeOK
  <2>3. \A t \in todo : t \in SubId
    BY DEF TypeOK
  <2>4. pc = "failed" => current \in SubId
    BY DEF Working, Busy
  <2>5. \A t \in SubId : subs'[t] # None => subs[t] # None /\ Backed(subs'[t])
    BY <1>7, <2>2
  <2> QED BY <1>1, <2>1, <2>2, <2>3, <2>4, <2>5
<1>12. ASSUME NEW e \in Elapsed, subs' = [s \in SubId |-> Later(subs[s], e)]
       PROVE  /\ \A s \in SubId : subs'[s] # None => subs[s] # None /\ Backed(subs'[s])
              /\ \A s \in SubId : subs[s] # None => subs'[s] # None
  <2>1. ASSUME NEW s \in SubId, subs[s] # None PROVE subs'[s] # None /\ Backed(subs'[s])
    BY <1>7, <1>12, <2>1, Aging, StillBacked
  <2> QED BY <1>12, <2>1, Aging
<1>13. CASE StartCycle
  <2>1. \A s \in todo' : s \in SubId /\ subs[s] # None
    BY <1>13, Rows DEF StartCycle, PendingMatches, Ids
  <2>2. view' = subs' /\ pc' = "cycle"
    BY <1>13 DEF StartCycle
  <2> QED BY <1>12, <1>13, <2>1, <2>2 DEF StartCycle, Waiting
<1>14. CASE ListFails
  <2>1. todo' = {} /\ pc' = "monitor"
    BY <1>14 DEF ListFails, Working
  <2> QED BY <1>1, <1>12, <1>14, <2>1 DEF ListFails
<1>15. ASSUME NEW s \in SubId, Deliver(s) PROVE Waiting'
  <2>1. s \in todo /\ todo' = todo \ {s} /\ current' = s /\ UNCHANGED <<subs, view>>
    BY <1>15, Delivered
  <2> QED BY <2>1 DEF Waiting
<1>16. CASE RecordSuccess
  <2>1. /\ UNCHANGED <<todo, view>> /\ pc' = "cycle" /\ current \in SubId /\ current \notin todo
    BY <1>16 DEF RecordSuccess, DeliveryDone, Working, Busy
  <2>2. ASSUME NEW sub \in Subscription, sub.failures = 0 PROVE Backed(sub)
    BY <2>2, SubscriptionFields DEF Backed, Backoff
  <2> QED BY <1>2, <1>6, <1>16, <2>1, <2>2, Succeeded
<1>17. CASE DisableFailing
  <2>1. UNCHANGED <<todo, view>> /\ pc' = "cycle" /\ current \in SubId
    BY <1>17 DEF DisableFailing, DeliveryDone, Working, Busy
  <2> QED BY <1>2, <1>8, <1>17, <2>1, Disabled
<1>18. CASE RecordFailure
  <2>1. PICK sub \in Subscription :
          /\ Becomes(current, sub) /\ subs[current] # None
          /\ sub.failures = IF subs[current].failures < MaxFailures
                            THEN subs[current].failures + 1 ELSE MaxFailures
          /\ sub.age = 0
          /\ sub.wait \in BackoffWithJitter(IF view[current].failures < MaxFailures
                                           THEN view[current].failures + 1 ELSE MaxFailures)
    BY <1>18, Failed
  <2>2. /\ UNCHANGED <<todo, view>> /\ pc' \in {"cycle", "disable"}
        /\ current \in SubId /\ current \notin todo /\ pc = "failed"
    BY <1>18, Failed DEF RecordFailure, DeliveryDone, Working, Busy
  <2>3. subs[current].failures = view[current].failures
    BY <2>1, <2>2 DEF Waiting
  <2>4. sub.wait \in BackoffWithJitter(sub.failures)
    BY <2>1, <2>3
  <2>5. Backed(sub)
    <3>1. 3 * Backoff(sub.failures) <= 4 * sub.wait
      BY <2>4 DEF BackoffWithJitter
    <3>2. sub.wait + sub.age = sub.wait
      BY <2>1, SubscriptionFields
    <3> HIDE DEF Backoff
    <3> QED BY <3>1, <3>2 DEF Backed
  <2> QED BY <1>6, <2>1, <2>2, <2>5
<1> QED BY <1>3, <1>4, <1>5, <1>9, <1>10, <1>11, <1>13, <1>14, <1>15, <1>16, <1>17, <1>18
        DEF Next, Owner, Cycle, Failure

-------------------------------------------------------------------------------
LEMMA InitInv == Init => Inv
<1> SUFFICES ASSUME Init PROVE Inv
  OBVIOUS
<1>1. TypeOK
  BY InitType
<1>2. Working /\ Ids /\ Copies /\ Overtaking
  BY DEF Init, Working, Busy, Ids, Copies, Overtaking
<1>3. ASSUME NEW s \in SubId PROVE Bounded(s)
  <2>1. tries[s] = 0 /\ slack[s] = 0 /\ Trying(s) = 0
    BY DEF Init, Trying
  <2>2. subs[s] # None => subs[s].failures = 0
    BY <1>1 DEF Init, NewSubscription
  <2> QED BY <2>1, <2>2 DEF Bounded
<1>4. Counting
  <2> HIDE DEF Bounded
  <2> QED BY <1>3 DEF Init, Counting
<1>5. Waiting
  <2>1. \A s \in SubId : subs[s] # None => subs[s].failures = 0 /\ subs[s] \in Subscription
    BY <1>1 DEF Init, NewSubscription, TypeOK
  <2>2. \A s \in SubId : subs[s] # None => Backed(subs[s])
    BY <2>1, SubscriptionFields DEF Backed, Backoff
  <2> HIDE DEF Backed
  <2> QED BY <2>2 DEF Init, Waiting
<1> QED BY <1>1, <1>2, <1>4, <1>5 DEF Inv

LEMMA NextInv == Inv /\ [Next]_vars => Inv'
<1> SUFFICES ASSUME Inv, [Next]_vars PROVE Inv'
  OBVIOUS
<1>1. ASSUME Next PROVE TypeOK'
  BY <1>1, TypeStep DEF Inv
<1>2. ASSUME UNCHANGED vars PROVE TypeOK'
  BY <1>2 DEF Inv, TypeOK, vars, dbVars, memVars, receiverVars, failureVars
<1>3. TypeOK'
  BY <1>1, <1>2 DEF Inv
<1> QED BY <1>3, WorkingStep, IdsStep, CopiesStep, OvertakingStep, CountingStep, WaitingStep DEF Inv

\* The inductive invariant holds in every state.
THEOREM Invariance == Spec => []Inv
BY InitInv, NextInv, PTL DEF Spec

\* Every variable keeps its type, whatever the notifier, the owners and the faults do.
THEOREM TypeCorrect == Spec => []TypeOK
<1>1. Inv => TypeOK
  BY DEF Inv
<1> QED BY <1>1, Invariance, PTL

(***************************************************************************)
(* MarkMatchesNotified only marks rows whose receiver acknowledged them: a *)
(* batch that was refused or lost stays pending, as do rows recorded while *)
(* it was under way.                                                       *)
(***************************************************************************)
THEOREM OnlyAcknowledgedMarked == Spec => []NotifiedWasAcknowledged
<1>1. Inv => NotifiedWasAcknowledged
  BY DEF Inv, Copies, NotifiedWasAcknowledged
<1> QED BY <1>1, Invariance, PTL

(***************************************************************************)
(* A receiver gets a row again only once for every answer that was lost or *)
(* mark that was not made after it had got it.                             *)
(***************************************************************************)
THEOREM RedeliveredByFaultOnly == Spec => []NoNeedlessRedelivery
<1>1. Inv => NoNeedlessRedelivery
  BY DEF Inv, Copies, NoNeedlessRedelivery
<1> QED BY <1>1, Invariance, PTL

(***************************************************************************)
(* After the owner deletes, disables or redirects a subscription, at most  *)
(* one delivery still follows what the cycle had listed before.            *)
(***************************************************************************)
THEOREM OneStaleDelivery == Spec => []OvertakenOnce
<1>1. Inv => OvertakenOnce
  BY DEF Inv, Overtaking, OvertakenOnce
<1> QED BY <1>1, Invariance, PTL

(***************************************************************************)
(* The deliveries that fail in a row are bounded by MaxFailures and what   *)
(* re-enabling and lost bookkeeping excuse.                                *)
(***************************************************************************)
THEOREM FailingIsDisabled == Spec => []FailuresBounded
<1>1. Inv => FailuresBounded
  BY DEF Inv, Counting, Bounded, FailuresBounded
<1> QED BY <1>1, Invariance, PTL

(***************************************************************************)
(* ListPendingMatches leaves a failed subscription alone until its backoff *)
(* is over, for any backoff, failure count and time between two cycles.    *)
(***************************************************************************)
THEOREM BackedOff == Spec => BackoffRespected
<1>1. ASSUME Inv, [Next]_vars
      PROVE  [\A s \in SubId :
                pc = "cycle" /\ pc' \in {"mark", "failed"} /\ current' = s =>
                  4 * view[s].age >= 3 * Backoff(view[s].failures)]_vars
  <2>1. ASSUME NEW s \in SubId, pc = "cycle", pc' \in {"mark", "failed"}, current' = s
        PROVE  4 * view[s].age >= 3 * Backoff(view[s].failures)
    <3>1. ASSUME NEW t \in SubId, Deliver(t) PROVE t = s
      BY <2>1, <3>1 DEF Deliver
    <3>5. ~Owner /\ ~Failure
      BY <2>1 DEF Owner, EditSubscription, EnableSubscription, DisableSubscription, DeleteSubscription,
                  NoEdit, Failure, ListFails, MarkNotifiedFails, RecordSuccessFails,
                  DisableFailingFails, Crash
    <3>6. /\ ~(StartCycle \/ FinishCycle \/ Restart \/ MarkNotified \/ RecordSuccess
              \/ RecordFailure \/ DisableFailing \/ RecordFailureFails)
          /\ \A t \in SubId : ~(Skip(t) \/ Defer(t) \/ RecordMatch(t))
      BY <2>1 DEF StartCycle, FinishCycle, Restart, MarkNotified, RecordSuccess, RecordFailure,
                  DisableFailing, RecordFailureFails, Skip, Defer, RecordMatch
    <3>2. Deliver(s)
      BY <1>1, <2>1, <3>1, <3>5, <3>6 DEF Next, Cycle, vars
    <3>3. view[s].wait = 0 /\ Backed(view[s]) /\ view[s] \in Subscription
      <4>1. s \in todo /\ view[s].wait = 0
        BY <3>2 DEF Deliver, Due
      <4> HIDE DEF Backed
      <4> QED BY <1>1, <4>1 DEF Inv, Waiting, Working
    <3>4. Backoff(view[s].failures) \in 0..BackoffMax
      BY <3>3, BackoffType, SubscriptionFields
    <3> HIDE DEF Backoff
    <3> QED BY <3>3, <3>4, SubscriptionFields DEF Backed
  <2> QED BY <2>1
<1> QED BY <1>1, Invariance, PTL DEF BackoffRespected, Spec
===============================================================================
