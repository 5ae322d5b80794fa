----------------------------- MODULE RateLimiter ------------------------------
(***************************************************************************)
(* The keyed rate limiter of rekor_watch (cmd/rekor_watch/web/ratelimit.go)*)
(* that turns away requests by address or email and spaces out webhooks. A *)
(* mutex makes every call one step. The token bucket of a key is           *)
(* golang.org/x/time/rate, which brings a bucket up to date only when it   *)
(* is used; a token is worth Interval units of time.                       *)
(***************************************************************************)
EXTENDS Integers, FiniteSets

CONSTANTS
  Key,                \* addresses, emails or webhook hosts
  Limit,              \* requests per window, and the burst
  Window,             \* the window, in units of time
  MaxEntries,         \* maxEntries
  MaxTime             \* bound on the clock

ASSUME RateLimiterAssumption ==
  /\ Limit \in Nat \ {0} /\ Window \in Nat /\ Window >= Limit
  /\ MaxEntries \in Nat /\ MaxTime \in Nat

Interval == Window \div Limit
Capacity == Limit * Interval
Time == 0..MaxTime
Never == -1

VARIABLES
  now,
  entries,            \* the table: the bucket of each key that is in it
  (* observations, since the process started *)
  spent,              \* spent[k][t]: what k was granted at t and later
  promise             \* when the key that was turned away last was told to come back

vars == <<now, entries, spent, promise>>

Bucket == [tokens : 0..Capacity, last : Time, lastSeen : Time]

TypeOK ==
  /\ now \in Time
  /\ DOMAIN entries \subseteq Key /\ entries \in [DOMAIN entries -> Bucket]
  /\ spent \in [Key -> [Time -> Nat]]
  /\ promise \in [Key -> Nat \cup {Never}]

NoEntries == [k \in {} |-> 0]
NothingSpent == [k \in Key |-> [t \in Time |-> 0]]
NoPromise == [k \in Key |-> Never]

Init == now = 0 /\ entries = NoEntries /\ spent = NothingSpent /\ promise = NoPromise

-------------------------------------------------------------------------------
(* golang.org/x/time/rate *)

\* Mutant: a bucket grows beyond its burst.
AdvanceForEver(b) == b.tokens + (now - b.last)

\* Limiter.advance: what the bucket holds by now.
Advance(b) == LET grown == b.tokens + (now - b.last)
              IN  IF grown < Capacity THEN grown ELSE Capacity

\* What k could spend now; a key without a bucket gets a full one.
Level(k) == IF k \in DOMAIN entries THEN Advance(entries[k]) ELSE Capacity

BucketOf(n) == [tokens |-> n, last |-> now, lastSeen |-> now]

-------------------------------------------------------------------------------
(* RateLimiter *)

Without(keys) == [k \in DOMAIN entries \ keys |-> entries[k]]
With(k, b) == [j \in DOMAIN entries \cup {k} |-> IF j = k THEN b ELSE entries[j]]

Granted(k) ==
  /\ spent' = [spent EXCEPT ![k] = [t \in Time |-> @[t] + (IF t <= now THEN Interval ELSE 0)]]
  /\ promise' = [promise EXCEPT ![k] = Never]

\* Mutant: keys that could have one more request by now are forgotten.
StaleSoon == {k \in DOMAIN entries : now - entries[k].lastSeen >= Interval}

\* sweepStale: the keys not seen within the window.
Stale == {k \in DOMAIN entries : now - entries[k].lastSeen >= Window}

\* Allow of a key in the table that finds a token.
AllowKnown(k) ==
  /\ k \in DOMAIN entries /\ Level(k) >= Interval
  /\ entries' = With(k, BucketOf(Level(k) - Interval))
  /\ Granted(k)
  /\ UNCHANGED now

\* Mutant: the reservation takes what the bucket holds.
DenyAndReserve(k) ==
  /\ k \in DOMAIN entries /\ Level(k) < Interval
  /\ entries' = With(k, BucketOf(0))
  /\ promise' = [promise EXCEPT ![k] = now + (Interval - Level(k))]
  /\ UNCHANGED <<now, spent>>

\* Allow of a key in the table that does not: the reservation is cancelled.
DenyKnown(k) ==
  /\ k \in DOMAIN entries /\ Level(k) < Interval
  /\ entries' = With(k, BucketOf(Level(k)))
  /\ promise' = [promise EXCEPT ![k] = now + (Interval - Level(k))]
  /\ UNCHANGED <<now, spent>>

\* Mutant: a full table is emptied.
SweptClean == IF Cardinality(DOMAIN entries) >= MaxEntries THEN NoEntries ELSE entries

\* The stale entries go only if the table is full.
Swept == IF Cardinality(DOMAIN entries) >= MaxEntries THEN Without(Stale) ELSE entries

HasRoom == Cardinality(DOMAIN Swept) < MaxEntries

\* Allow of a new key.
AllowNew(k) ==
  /\ k \in Key \ DOMAIN entries /\ HasRoom
  /\ entries' = [j \in DOMAIN Swept \cup {k} |->
                   IF j = k THEN BucketOf(Capacity - Interval) ELSE Swept[j]]
  /\ Granted(k)
  /\ UNCHANGED now

\* Every entry is fresh: the new key is turned away for a window.
DenyNew(k) ==
  /\ k \in Key \ DOMAIN entries /\ ~HasRoom
  /\ entries' = Swept
  /\ UNCHANGED <<now, spent, promise>>

\* Cleanup, every hour.
Cleanup ==
  /\ entries' = Without(Stale)
  /\ UNCHANGED <<now, spent, promise>>

-------------------------------------------------------------------------------

Tick == now < MaxTime /\ now' = now + 1 /\ UNCHANGED <<entries, spent, promise>>

\* The process is started again: the table is only in memory.
Restart ==
  /\ entries' = NoEntries /\ spent' = NothingSpent /\ promise' = NoPromise
  /\ UNCHANGED now

Next ==
  \/ \E k \in Key : AllowKnown(k) \/ DenyKnown(k) \/ AllowNew(k) \/ DenyNew(k)
  \/ Cleanup \/ Tick \/ Restart

Spec == Init /\ [][Next]_vars

-------------------------------------------------------------------------------
\* The table stays within its limit, sweeps and new keys notwithstanding.
TableBounded == Cardinality(DOMAIN entries) <= MaxEntries

(***************************************************************************)
(* No key is granted more than the burst and the rate allow, in any period *)
(* that ends now, although its bucket may have been swept and made anew in *)
(* between: Limit requests, and one more for every Interval.               *)
(***************************************************************************)
RateRespected ==
  \A k \in Key, t \in 0..now : spent[k][t] <= Capacity + (now - t)

(***************************************************************************)
(* "retryAfter indicates how long the caller should wait": a key that was  *)
(* turned away by its bucket and comes back when it was told to finds a    *)
(* token, even if it asked again in between.                               *)
(***************************************************************************)
RetryHonest ==
  \A k \in Key : promise[k] # Never /\ now >= promise[k] => Level(k) >= Interval

(***************************************************************************)
(* The table and its sweeps cannot be told from one bucket per key that is *)
(* never forgotten, except that a new key may be turned away.              *)
(***************************************************************************)
Buckets == INSTANCE TokenBuckets WITH level <- [k \in Key |-> Level(k)]

ImplementsTokenBuckets == Buckets!Spec
==============================================================================
