------------------------------ MODULE MatchFeed ------------------------------
(***************************************************************************)
(* What rekor_watch promises its subscribers, without iterations, tiles,   *)
(* transactions or failures: a cursor per shard that only moves forward,   *)
(* and that hands out the entries it passes, in the same step and to every *)
(* subscription of the view it moves under. LogWatch implements it.        *)
(***************************************************************************)
EXTENDS Integers

CONSTANTS Shard, SubId, Value, None, MaxSize, Hits, Unparsed,
          Overshoots          \* may a step hand out entries beyond the new cursor?

VARIABLES
  subs,               \* the subscriptions: id to monitored value, or None
  view,               \* the subscriptions the cursors move under
  cursor,             \* shard to the first index not yet passed, or None
  delivered,          \* what was handed out: origin, index and subscription
  failures            \* entries passed that could not be parsed: origin and index

vars == <<subs, view, cursor, delivered, failures>>

Init ==
  /\ subs = [s \in SubId |-> None]
  /\ view = [s \in SubId |-> None]
  /\ cursor = [o \in Shard |-> None]
  /\ delivered = {} /\ failures = {}

Subscribe(s, v) ==
  /\ subs' = [subs EXCEPT ![s] = v]
  /\ UNCHANGED <<view, cursor, delivered, failures>>

\* What was handed out to the subscription may be forgotten with it.
Unsubscribe(s) ==
  /\ subs' = [subs EXCEPT ![s] = None]
  /\ delivered' \subseteq delivered
  /\ \A d \in delivered \ delivered' : d.sub = s
  /\ UNCHANGED <<view, cursor, failures>>

LookUp ==
  /\ view' = subs
  /\ UNCHANGED <<subs, cursor, delivered, failures>>

Receivers(o, i) ==
  {s \in SubId : i \notin Unparsed[o] /\ view[s] # None /\ view[s] \in Hits[o][i]}

(***************************************************************************)
(* The cursor of shard o moves to n. The first time it may start anywhere  *)
(* it likes, and hands out everything or nothing.                          *)
(***************************************************************************)
Advance(o, n, from, reach) ==
  /\ IF cursor[o] = None THEN from \in {0, n} ELSE from = cursor[o] /\ from < n
  /\ reach = n \/ (Overshoots /\ reach > n /\ from < n)
  /\ \A i \in from..(reach - 1) : \A s \in Receivers(o, i) : subs[s] # None
  /\ cursor' = [cursor EXCEPT ![o] = n]
  /\ delivered' = delivered \cup
       {[origin |-> o, index |-> p[1], sub |-> p[2]] :
          p \in {q \in (from..(reach - 1)) \X SubId : q[2] \in Receivers(o, q[1])}}
  /\ failures' = failures \cup
       {[origin |-> o, index |-> i] :
          i \in {j \in from..(reach - 1) : j \in Unparsed[o] /\ \E s \in SubId : view[s] # None}}
  /\ UNCHANGED <<subs, view>>

Next ==
  \/ \E s \in SubId : Unsubscribe(s) \/ \E v \in Value : Subscribe(s, v)
  \/ LookUp
  \/ \E o \in Shard, n, from, reach \in 0..MaxSize : Advance(o, n, from, reach)

Spec == Init /\ [][Next]_vars
==============================================================================
