-------------------------- MODULE RateLimiterProofs ---------------------------
(***************************************************************************)
(* Proofs about RateLimiter for any keys, limit, window and table size.    *)
(* Everything rests on what a step does to the levels of the buckets       *)
(* (lemmas LevelOf...): forgetting a stale key does not change its level,  *)
(* because a bucket not used for a window is full again.                   *)
(***************************************************************************)
EXTENDS RateLimiter, FiniteSetTheorems, TLAPS

USE RateLimiterAssumption

-------------------------------------------------------------------------------
(* The inductive invariant *)

\* A bucket is brought up to date whenever its key is seen.
Clocks ==
  \A k \in DOMAIN entries : entries[k].last = entries[k].lastSeen /\ entries[k].last <= now

\* What a key spent since t and what it could still spend is within the rate.
Budget ==
  \A k \in Key, t \in Time :
    IF t <= now THEN spent[k][t] + Level(k) <= Capacity + (now - t) ELSE spent[k][t] = 0

\* A key that was turned away has a token by the time it was told.
Promises ==
  \A k \in Key : promise[k] # Never =>
    Level(k) >= Interval \/ Level(k) + (promise[k] - now) >= Interval

Shape == TypeOK /\ Clocks
Inv == Shape /\ Budget /\ Promises

-------------------------------------------------------------------------------
LEMMA Numbers ==
  /\ Interval \in Nat \ {0} /\ Capacity \in Nat
  /\ Interval <= Capacity /\ Capacity <= Window
<1>1. Interval \in Nat /\ Interval >= 1
  BY SMTT(20) DEF Interval
<1>2. Limit * Interval <= Window
  BY SMTT(20) DEF Interval
<1>3. Limit * Interval \in Nat /\ Limit * Interval >= Interval
  BY <1>1, SMTT(20)
<1> QED BY <1>1, <1>2, <1>3 DEF Capacity

LEMMA LevelType == Shape => \A k \in Key : Level(k) \in 0..Capacity
BY Numbers DEF Shape, TypeOK, Clocks, Level, Advance, Bucket, Time

-------------------------------------------------------------------------------
(* What each step does to the levels *)

LevelIn(E, k) == IF k \in DOMAIN E THEN Advance(E[k]) ELSE Capacity
Table(E) == DOMAIN E \subseteq Key /\ E \in [DOMAIN E -> Bucket]
Current(E) == \A k \in DOMAIN E : E[k].last = E[k].lastSeen /\ E[k].last <= now

LEMMA EntriesCurrent == Shape => Table(entries) /\ Current(entries)
BY DEF Shape, TypeOK, Clocks, Table, Current

\* Forgetting stale keys changes no level: a bucket not used for a window is full.
LEMMA LevelOfForgotten ==
  ASSUME Shape, NEW S \in SUBSET Stale
  PROVE  /\ Table(Without(S)) /\ Current(Without(S))
         /\ \A k \in Key : LevelIn(Without(S), k) = Level(k)
<1>1. ASSUME NEW k \in Stale PROVE Advance(entries[k]) = Capacity
  <2>1. k \in DOMAIN entries /\ entries[k] \in Bucket /\ now - entries[k].lastSeen >= Window
    BY <1>1 DEF Stale, Shape, TypeOK
  <2> QED BY <2>1, Numbers DEF Advance, Shape, TypeOK, Clocks, Bucket, Time
<1>2. DOMAIN Without(S) = DOMAIN entries \ S
      /\ \A k \in DOMAIN entries \ S : Without(S)[k] = entries[k]
  BY DEF Without
<1>3. ASSUME NEW k \in Key PROVE LevelIn(Without(S), k) = Level(k)
  BY <1>1, <1>2 DEF LevelIn, Level
<1>4. Table(Without(S)) /\ Current(Without(S))
  BY <1>2 DEF Shape, TypeOK, Clocks, Table, Current, Without
<1> QED BY <1>3, <1>4

LEMMA LevelOfSwept ==
  ASSUME Shape
  PROVE  Table(Swept) /\ Current(Swept) /\ \A k \in Key : LevelIn(Swept, k) = Level(k)
BY LevelOfForgotten, EntriesCurrent DEF Swept, LevelIn, Level

\* The bucket of k is replaced in the table E.
LEMMA LevelOfUsed ==
  ASSUME Shape, NEW E, Table(E), Current(E), NEW k \in Key, NEW n \in 0..Capacity,
         entries' = [j \in DOMAIN E \cup {k} |-> IF j = k THEN BucketOf(n) ELSE E[j]],
         now' = now
  PROVE  /\ Table(entries') /\ Clocks'
         /\ Level(k)' = n
         /\ \A j \in Key \ {k} : Level(j)' = LevelIn(E, j)
<1>1. BucketOf(n) \in Bucket
  BY DEF BucketOf, Bucket, Shape, TypeOK
<1>2. Level(k)' = n
  BY Numbers DEF Level, Advance, BucketOf, Shape, TypeOK, Time
<1>3. \A j \in Key \ {k} : Level(j)' = LevelIn(E, j)
  BY DEF Level, LevelIn, Advance
<1>4. Table(entries')
  BY <1>1 DEF Table
<1>5. Clocks'
  BY DEF Clocks, Current, BucketOf, Shape, TypeOK, Time
<1> QED BY <1>2, <1>3, <1>4, <1>5

LEMMA LevelOfTick ==
  ASSUME Shape, Tick
  PROVE  Shape' /\ \A k \in Key : Level(k)' = IF Level(k) < Capacity THEN Level(k) + 1 ELSE Capacity
<1>1. Shape'
  <2>1. now \in 0..MaxTime /\ now < MaxTime /\ MaxTime \in Nat
        /\ now' = now + 1 /\ UNCHANGED <<entries, spent, promise>>
    BY DEF Tick, Shape, TypeOK, Time
  <2>2. TypeOK'
    BY <2>1 DEF Shape, TypeOK, Time, Bucket
  <2>3. ASSUME NEW k \in DOMAIN entries PROVE entries[k].last <= now + 1
    <3>1. entries[k] \in Bucket /\ entries[k].last <= now
      BY DEF Shape, TypeOK, Clocks
    <3> QED BY <2>1, <3>1 DEF Bucket, Time
  <2> QED BY <2>1, <2>2, <2>3 DEF Shape, Clocks
<1>2. ASSUME NEW k \in Key
      PROVE  Level(k)' = IF Level(k) < Capacity THEN Level(k) + 1 ELSE Capacity
  <2>1. CASE k \in DOMAIN entries
    <3>1. entries[k].tokens \in 0..Capacity /\ entries[k].last \in Int /\ now \in Int
          /\ entries[k].last <= now
      BY <2>1 DEF Shape, TypeOK, Clocks, Bucket, Time
    <3>2. now' = now + 1 /\ entries' = entries
      BY DEF Tick
    <3> QED BY <2>1, <3>1, <3>2, Numbers DEF Level, Advance
  <2>2. CASE k \notin DOMAIN entries
    BY <2>2, Numbers DEF Level, Tick
  <2> QED BY <2>1, <2>2
<1> QED BY <1>1, <1>2

-------------------------------------------------------------------------------
(***************************************************************************)
(* The four ways in which a step can change levels, grants and promises.   *)
(***************************************************************************)
SameLevels == \A k \in Key : Level(k)' = Level(k)

Grants(k) ==
  /\ Level(k) >= Interval /\ Level(k)' = Level(k) - Interval
  /\ \A j \in Key \ {k} : Level(j)' = Level(j)
  /\ Granted(k) /\ now' = now

Refuses(k) ==
  /\ SameLevels /\ Level(k) < Interval
  /\ promise' = [promise EXCEPT ![k] = now + (Interval - Level(k))]
  /\ UNCHANGED <<spent, now>>

Forgets == SameLevels /\ UNCHANGED <<spent, promise, now>>

Starts ==
  /\ \A k \in Key : Level(k)' = Capacity
  /\ spent' = NothingSpent /\ promise' = NoPromise /\ now' = now

LEMMA GrantedType ==
  ASSUME Shape, NEW k \in Key, Granted(k)
  PROVE  spent' \in [Key -> [Time -> Nat]] /\ promise' \in [Key -> Nat \cup {Never}]
<1>1. ASSUME NEW t \in Time PROVE spent[k][t] + (IF t <= now THEN Interval ELSE 0) \in Nat
  BY Numbers DEF Shape, TypeOK
<1> QED BY <1>1 DEF Granted, Shape, TypeOK

LEMMA StepKinds ==
  ASSUME Shape, Next
  PROVE  /\ Shape'
         /\ \/ \E k \in Key : Grants(k) \/ Refuses(k)
            \/ Forgets \/ Starts \/ Tick
<1>1. ASSUME NEW k \in Key, AllowKnown(k) PROVE Shape' /\ Grants(k)
  <2>1. Level(k) - Interval \in 0..Capacity /\ Level(k) >= Interval
    BY <1>1, Numbers, LevelType DEF AllowKnown
  <2>2. Table(entries) /\ Current(entries) /\ \A j \in Key : LevelIn(entries, j) = Level(j)
    BY EntriesCurrent DEF LevelIn, Level
  <2>3. /\ Table(entries') /\ Clocks' /\ Level(k)' = Level(k) - Interval
        /\ \A j \in Key \ {k} : Level(j)' = LevelIn(entries, j)
    BY <1>1, <2>1, <2>2, LevelOfUsed DEF AllowKnown, With
  <2> QED BY <1>1, <2>1, <2>2, <2>3, GrantedType DEF AllowKnown, Grants, Shape, TypeOK, Table
<1>2. ASSUME NEW k \in Key, DenyKnown(k) PROVE Shape' /\ Refuses(k)
  <2>1. Level(k) \in 0..Capacity /\ Level(k) < Interval
    BY <1>2, LevelType DEF DenyKnown
  <2>2. Table(entries) /\ Current(entries) /\ \A j \in Key : LevelIn(entries, j) = Level(j)
    BY EntriesCurrent DEF LevelIn, Level
  <2>3. /\ Table(entries') /\ Clocks' /\ Level(k)' = Level(k)
        /\ \A j \in Key \ {k} : Level(j)' = LevelIn(entries, j)
    BY <1>2, <2>1, <2>2, LevelOfUsed DEF DenyKnown, With
  <2>4. now + (Interval - Level(k)) \in Nat
    BY <2>1, Numbers DEF Shape, TypeOK, Time
  <2> QED BY <1>2, <2>1, <2>2, <2>3, <2>4
          DEF DenyKnown, Refuses, SameLevels, Shape, TypeOK, Table
<1>3. ASSUME NEW k \in Key, AllowNew(k) PROVE Shape' /\ Grants(k)
  <2>1. Capacity - Interval \in 0..Capacity /\ Level(k) = Capacity /\ Level(k) >= Interval
    BY <1>3, Numbers DEF AllowNew, Level
  <2>2. /\ Table(entries') /\ Clocks' /\ Level(k)' = Capacity - Interval
        /\ \A j \in Key \ {k} : Level(j)' = LevelIn(Swept, j)
    BY <1>3, <2>1, LevelOfSwept, LevelOfUsed DEF AllowNew
  <2> QED BY <1>3, <2>1, <2>2, LevelOfSwept, GrantedType DEF AllowNew, Grants, Shape, TypeOK, Table
<1>4. ASSUME Table(entries'), Current(entries'), \A k \in Key : LevelIn(entries', k) = Level(k),
             UNCHANGED <<now, spent, promise>>
      PROVE  Shape' /\ Forgets
  BY <1>4 DEF Forgets, SameLevels, LevelIn, Level, Advance, Shape, TypeOK, Table, Clocks, Current
<1>5. ASSUME NEW k \in Key, DenyNew(k) PROVE Shape' /\ Forgets
  BY <1>4, <1>5, LevelOfSwept DEF DenyNew
<1>6. ASSUME Cleanup PROVE Shape' /\ Forgets
  BY <1>4, <1>6, LevelOfForgotten DEF Cleanup
<1>7. ASSUME Restart PROVE Shape' /\ Starts
  BY <1>7 DEF Restart, Starts, NoEntries, NothingSpent, NoPromise, Level, Shape, TypeOK, Clocks
<1> QED BY <1>1, <1>2, <1>3, <1>5, <1>6, <1>7, LevelOfTick DEF Next

-------------------------------------------------------------------------------
(* The invariant *)

LEMMA LevelTypeNext == Shape' => \A k \in Key : Level(k)' \in 0..Capacity
BY Numbers DEF Shape, TypeOK, Clocks, Level, Advance, Bucket, Time

LEMMA InitInv == Init => Inv
<1> SUFFICES ASSUME Init PROVE Inv
  OBVIOUS
<1>1. Shape
  BY DEF Init, NoEntries, NothingSpent, NoPromise, Shape, TypeOK, Clocks, Time
<1>2. Budget /\ Promises
  BY <1>1, Numbers, LevelType DEF Init, NothingSpent, NoPromise, Budget, Promises, Time, Never
<1> QED BY <1>1, <1>2 DEF Inv

LEMMA BudgetStep ==
  ASSUME Inv, Next PROVE Budget'
<1> USE DEF Inv
<1>0. Shape' /\ \A k \in Key : Level(k) \in 0..Capacity /\ Level(k)' \in 0..Capacity
  BY StepKinds, LevelType, LevelTypeNext
<1>1. now \in Nat /\ spent \in [Key -> [Time -> Nat]] /\ now' \in Nat /\ Time \subseteq Nat
  BY <1>0 DEF Shape, TypeOK, Time
<1> SUFFICES ASSUME NEW k \in Key, NEW t \in Time
             PROVE  IF t <= now' THEN spent'[k][t] + Level(k)' <= Capacity + (now' - t)
                    ELSE spent'[k][t] = 0
  BY DEF Budget
<1>2. IF t <= now THEN spent[k][t] + Level(k) <= Capacity + (now - t) ELSE spent[k][t] = 0
  BY DEF Budget
<1>3. t \in Nat /\ spent[k][t] \in Nat /\ Level(k) \in Nat /\ Level(k)' \in Nat
      /\ Level(k)' <= Capacity
  BY <1>0, <1>1, Numbers
<1>4. ASSUME NEW j \in Key, Grants(j)
      PROVE  IF t <= now' THEN spent'[k][t] + Level(k)' <= Capacity + (now' - t)
             ELSE spent'[k][t] = 0
  <2>1. now' = now /\ spent'[k][t] = IF k = j /\ t <= now THEN spent[k][t] + Interval ELSE spent[k][t]
    BY <1>1, <1>3, <1>4, Numbers DEF Grants, Granted
  <2>2. Level(k)' = IF k = j THEN Level(k) - Interval ELSE Level(k)
    BY <1>4 DEF Grants
  <2> QED BY <2>1, <2>2, <1>1, <1>2, <1>3, Numbers
<1>5. CASE \/ \E j \in Key : Refuses(j)
           \/ Forgets
  BY <1>2, <1>5 DEF Refuses, Forgets, SameLevels
<1>6. CASE Starts
  BY <1>1, <1>3, <1>6, Numbers DEF Starts, NothingSpent
<1>7. CASE Tick
  <2>1. now' = now + 1 /\ spent' = spent /\ Level(k)' <= Level(k) + 1
    BY <1>3, <1>7, LevelOfTick, Numbers DEF Tick
  <2> QED BY <1>1, <1>2, <1>3, <2>1, Numbers
<1> QED BY <1>4, <1>5, <1>6, <1>7, StepKinds

LEMMA PromisesStep ==
  ASSUME Inv, Next PROVE Promises'
<1> USE DEF Inv
<1>0. Shape' /\ \A k \in Key : Level(k) \in 0..Capacity /\ Level(k)' \in 0..Capacity
  BY StepKinds, LevelType, LevelTypeNext
<1>1. now \in Nat /\ now' \in Nat /\ promise \in [Key -> Nat \cup {Never}]
      /\ promise' \in [Key -> Nat \cup {Never}]
  BY <1>0 DEF Shape, TypeOK, Time
<1> SUFFICES ASSUME NEW k \in Key, promise'[k] # Never
             PROVE  Level(k)' >= Interval \/ Level(k)' + (promise'[k] - now') >= Interval
  BY DEF Promises
<1>2. promise[k] # Never =>
        Level(k) >= Interval \/ Level(k) + (promise[k] - now) >= Interval
  BY DEF Promises
<1>3. promise'[k] \in Nat /\ Level(k) \in Nat /\ Level(k)' \in Nat
  BY <1>0, <1>1, Numbers
<1>4. ASSUME NEW j \in Key, Grants(j) PROVE k # j /\ promise'[k] = promise[k]
                                            /\ Level(k)' = Level(k) /\ now' = now
  BY <1>1, <1>4 DEF Grants, Granted
<1>5. ASSUME NEW j \in Key, Refuses(j), k = j
      PROVE  Level(k)' + (promise'[k] - now') >= Interval
  BY <1>1, <1>3, <1>5, Numbers DEF Refuses, SameLevels
<1>6. ASSUME NEW j \in Key, Refuses(j), k # j
      PROVE  promise'[k] = promise[k] /\ Level(k)' = Level(k) /\ now' = now
  BY <1>1, <1>6 DEF Refuses, SameLevels
<1>7. ASSUME Forgets PROVE promise'[k] = promise[k] /\ Level(k)' = Level(k) /\ now' = now
  BY <1>7 DEF Forgets, SameLevels
<1>8. ~Starts
  BY DEF Starts, NoPromise
<1>9. CASE Tick
  <2>1. now' = now + 1 /\ promise' = promise
        /\ Level(k)' = IF Level(k) < Capacity THEN Level(k) + 1 ELSE Capacity
    BY <1>9, LevelOfTick DEF Tick
  <2> QED BY <1>1, <1>2, <1>3, <2>1, Numbers
<1> QED BY <1>2, <1>4, <1>5, <1>6, <1>7, <1>8, <1>9, StepKinds

LEMMA Invariance == Spec => []Inv
<1>1. ASSUME Inv, UNCHANGED vars PROVE Inv'
  <2>1. \A k \in Key : Level(k)' = Level(k)
    BY <1>1 DEF vars, Level, Advance
  <2>2. Shape'
    BY <1>1 DEF Inv, vars, Shape, TypeOK, Clocks
  <2>3. Budget' /\ Promises'
    BY <1>1, <2>1 DEF Inv, vars, Budget, Promises
  <2> QED BY <2>2, <2>3 DEF Inv
<1>2. Inv /\ Next => Inv'
  BY StepKinds, BudgetStep, PromisesStep DEF Inv
<1> QED BY InitInv, <1>1, <1>2, PTL DEF Spec

(***************************************************************************)
(* The table is well typed: no bucket ever holds more than its burst.      *)
(***************************************************************************)
THEOREM LimiterTypeCorrect == Spec => []TypeOK
<1>1. Inv => TypeOK
  BY DEF Inv, Shape
<1> QED BY <1>1, Invariance, PTL

(***************************************************************************)
(* No key is granted more in any period than the burst and the rate allow, *)
(* whatever was swept and made anew in between (ratelimit.go:61-109).      *)
(***************************************************************************)
THEOREM RateKept == Spec => []RateRespected
<1>1. Inv => RateRespected
  <2> SUFFICES ASSUME Inv, NEW k \in Key, NEW t \in 0..now
               PROVE  spent[k][t] <= Capacity + (now - t)
    BY DEF RateRespected
  <2>1. t \in Time /\ t <= now /\ now \in Nat /\ t \in Nat
    BY DEF Inv, Shape, TypeOK, Time
  <2>2. spent[k][t] + Level(k) <= Capacity + (now - t)
    BY <2>1 DEF Inv, Budget
  <2>3. spent[k][t] \in Nat /\ Level(k) \in Nat
    BY <2>1, LevelType, Numbers DEF Inv, Shape, TypeOK
  <2> QED BY <2>1, <2>2, <2>3, Numbers
<1> QED BY <1>1, Invariance, PTL

(***************************************************************************)
(* A key that comes back after the retryAfter it was given finds a token.  *)
(***************************************************************************)
THEOREM RetryKept == Spec => []RetryHonest
<1>1. Inv => RetryHonest
  <2> SUFFICES ASSUME Inv, NEW k \in Key, promise[k] # Never, now >= promise[k]
               PROVE  Level(k) >= Interval
    BY DEF RetryHonest
  <2>1. promise[k] \in Nat /\ now \in Nat /\ Level(k) \in Nat
    BY LevelType, Numbers DEF Inv, Shape, TypeOK, Time
  <2> QED BY <2>1, Numbers DEF Inv, Promises
<1> QED BY <1>1, Invariance, PTL

(***************************************************************************)
(* The table never holds more keys than it may (ratelimit.go:78-83).       *)
(***************************************************************************)
THEOREM TableKept == Spec => []TableBounded
<1> DEFINE TInv == IsFiniteSet(DOMAIN entries) /\ TableBounded
<1>1. Init => TInv
  BY FS_EmptySet DEF Init, NoEntries, TableBounded
<1>2. ASSUME TInv, [Next]_vars PROVE TInv'
  <2>1. ASSUME NEW E, DOMAIN E \subseteq DOMAIN entries
        PROVE  IsFiniteSet(DOMAIN E) /\ Cardinality(DOMAIN E) <= MaxEntries
    BY <1>2, <2>1, FS_Subset, FS_CardinalityType DEF TableBounded
  <2>2. DOMAIN Swept \subseteq DOMAIN entries /\ DOMAIN Without(Stale) \subseteq DOMAIN entries
    BY DEF Swept, Without
  <2>3. CASE \E k \in Key : AllowKnown(k) \/ DenyKnown(k)
    <3>1. DOMAIN entries' = DOMAIN entries
      BY <2>3 DEF AllowKnown, DenyKnown, With
    <3> QED BY <1>2, <3>1 DEF TableBounded
  <2>4. ASSUME NEW k \in Key, AllowNew(k) PROVE TInv'
    <3>1. DOMAIN entries' = DOMAIN Swept \cup {k} /\ Cardinality(DOMAIN Swept) < MaxEntries
      BY <2>4 DEF AllowNew, HasRoom
    <3>2. IsFiniteSet(DOMAIN Swept)
      BY <2>1, <2>2
    <3> HIDE DEF Swept
    <3> QED BY <3>1, <3>2, FS_AddElement, FS_CardinalityType DEF TableBounded
  <2>5. CASE \E k \in Key : DenyNew(k)
    BY <2>1, <2>2, <2>5 DEF DenyNew, TableBounded
  <2>6. CASE Cleanup
    BY <2>1, <2>2, <2>6 DEF Cleanup, TableBounded
  <2>7. CASE Restart
    <3>1. DOMAIN entries' = {}
      BY <2>7 DEF Restart, NoEntries
    <3> QED BY <3>1, FS_EmptySet DEF TableBounded
  <2>8. CASE Tick \/ UNCHANGED vars
    BY <1>2, <2>8 DEF Tick, vars, TableBounded
  <2> QED BY <1>2, <2>3, <2>4, <2>5, <2>6, <2>7, <2>8 DEF Next
<1> QED BY <1>1, <1>2, PTL DEF Spec

(***************************************************************************)
(* The limiter implements one token bucket per key that is never forgotten *)
(* (module TokenBuckets): a sweep cannot be observed.                      *)
(***************************************************************************)
THEOREM LimiterRefinement == Spec => ImplementsTokenBuckets
<1> DEFINE levels == [k \in Key |-> Level(k)]
<1>1. Init => Buckets!Init
  BY DEF Init, NoEntries, Level, Buckets!Init, Buckets!Capacity, Capacity
<1>2. ASSUME Inv, [Next]_vars PROVE [Buckets!Next]_levels
  <2>1. ASSUME NEW k \in Key, Grants(k) PROVE Buckets!Grant(k)
    <3>1. levels' = [levels EXCEPT ![k] = @ - Interval]
      BY <2>1 DEF Grants
    <3> QED BY <2>1, <3>1 DEF Buckets!Grant, Grants
  <2>2. CASE \E k \in Key : Refuses(k)
    BY <2>2 DEF Refuses, SameLevels
  <2>3. CASE Forgets
    BY <2>3 DEF Forgets, SameLevels
  <2>4. CASE Starts
    BY <2>4 DEF Starts, Buckets!Next, Buckets!Reset, Buckets!Capacity, Capacity
  <2>5. CASE Tick
    <3>1. \A k \in Key : Level(k)' = IF Level(k) + 1 < Capacity THEN Level(k) + 1 ELSE Capacity
      BY <1>2, <2>5, LevelType, LevelOfTick, Numbers DEF Inv
    <3> QED BY <3>1 DEF Buckets!Next, Buckets!Refill, Buckets!AtMostFull, Buckets!Capacity, Capacity
  <2>6. CASE UNCHANGED vars
    BY <2>6 DEF vars, Level, Advance
  <2> QED BY <1>2, <2>1, <2>2, <2>3, <2>4, <2>5, <2>6, StepKinds DEF Inv, Buckets!Next
<1> QED BY <1>1, <1>2, Invariance, PTL DEF Spec, ImplementsTokenBuckets, Buckets!Spec
===============================================================================
