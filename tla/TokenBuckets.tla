---------------------------- MODULE TokenBuckets ------------------------------
(***************************************************************************)
(* What a keyed rate limiter promises: every key has a token bucket of its *)
(* own, for ever. A bucket holds up to Limit tokens, gets a token back     *)
(* every Interval, and a request is let through only if it finds one. A    *)
(* level is counted in units of time: a token is worth Interval of them.   *)
(***************************************************************************)
EXTENDS Naturals

CONSTANTS Key, Limit, Interval

Capacity == Limit * Interval
AtMostFull(x) == IF x < Capacity THEN x ELSE Capacity

VARIABLE level

TypeOK == level \in [Key -> 0..Capacity]

Init == level = [k \in Key |-> Capacity]

\* A request of k is let through.
Grant(k) ==
  /\ level[k] >= Interval
  /\ level' = [level EXCEPT ![k] = @ - Interval]

\* One unit of time passes.
Refill == level' = [k \in Key |-> AtMostFull(level[k] + 1)]

\* The process, and with it every bucket, starts afresh.
Reset == level' = [k \in Key |-> Capacity]

Next == (\E k \in Key : Grant(k)) \/ Refill \/ Reset

Spec == Init /\ [][Next]_level
==============================================================================
