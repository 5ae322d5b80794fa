------------------------------- MODULE Notifier -------------------------------
(***************************************************************************)
(* Delivery of recorded matches (cmd/rekor_watch/notify.go): after every   *)
(* monitoring iteration a cycle lists the pending rows, groups them by     *)
(* subscription and sends each group's oldest rows as one batch, with      *)
(* backoff and auto-disable in the SQLite store, while the owner of the    *)
(* subscription edits, disables, enables or deletes it through the web.    *)
(***************************************************************************)
EXTENDS Integers, FiniteSets

CONSTANTS
  SubId,              \* subscription row ids
  Value,              \* monitored values
  Dest,               \* webhook hosts and mailboxes
  Mailbox,            \* destinations reached by email, which has no rate limit
  Outcomes,           \* Outcomes[d]: how a delivery to d may end
  None,               \* a missing row
  MaxRows,            \* bound on the rows ever recorded
  MaxMatches,         \* maxMatchesPerSubscription
  MaxBatch,           \* MaxMatchesPerBatch
  MaxFailures,        \* notificationMaxConsecutiveFailures
  BackoffBase,        \* notificationBackoffBase
  BackoffMax,         \* notificationBackoffMax
  Burst,              \* webhooks a host gets at once from the rate limiter
  Elapsed,            \* time that may pass from one cycle to the next
  MaxEdits,           \* bound on what the owners do
  MaxFaults           \* bound on lost answers, failed statements and crashes

ASSUME NotifierAssumption ==
  /\ Mailbox \subseteq Dest
  /\ Outcomes \in [Dest -> SUBSET {"accepted", "lost", "refused"}]
  /\ MaxRows \in Nat /\ MaxEdits \in Nat /\ MaxFaults \in Nat
  /\ MaxMatches \in Nat \ {0} /\ MaxBatch \in Nat \ {0} /\ MaxFailures \in Nat \ {0}
  /\ BackoffBase \in Nat \ {0} /\ BackoffMax \in Nat
  /\ BackoffBase <= BackoffMax /\ BackoffMax <= BackoffBase * 2^(MaxFailures - 1)
  /\ Burst \in Nat \ {0} /\ Elapsed \subseteq Nat

\* Arithmetic that the provers do not know.
ASSUME PowerAssumption == \A n \in 0..MaxFailures : 2^n \in Nat

VARIABLES
  (* the SQLite database *)
  subs,               \* subscriptions table, or None
  matches,            \* matches table
  lastId,             \* last row id handed out
  (* memory of the notifier *)
  pc,
  view,               \* subscriptions as ListPendingMatches joined them
  pending,            \* the rows it returned
  todo,               \* groups this cycle has not reached yet
  current, batch,     \* subscription and row ids of the delivery under way
  sentTo,             \* webhooks each host got in this cycle, up to Burst
  (* observations *)
  copies,             \* how often the receiver got each row
  unmarked,           \* how often a received row was then not marked
  tries,              \* failed deliveries in a row
  slack,              \* how many of them the owner or a fault excuses
  stale,              \* deliveries the owner's last change came too late for
  edits, faults

dbVars == <<subs, matches, lastId>>
memVars == <<view, pending, todo, current, batch, sentTo>>
receiverVars == <<copies, unmarked>>
failureVars == <<tries, slack, stale>>
vars == <<pc, dbVars, memVars, receiverVars, failureVars, edits, faults>>

-------------------------------------------------------------------------------
(* Types *)

RowId == 1..MaxRows
Match == [id : RowId, sub : SubId, created : Nat, notified : BOOLEAN]

(***************************************************************************)
(* Times are relative to the start of the cycle: wait is next_retry_at,    *)
(* 0 when it is null or has passed, and age tells how long ago             *)
(* last_failure_at was, up to BackoffMax, which also stands for null.      *)
(* consecutive_failures is counted up to MaxFailures.                      *)
(***************************************************************************)
Subscription ==
  [value : Value, dest : Dest, failures : 0..MaxFailures,
   wait : 0..BackoffMax, age : 0..BackoffMax, disabled : BOOLEAN]

ASSUME NoneAssumption == None \notin Subscription

TypeOK ==
  /\ subs \in [SubId -> Subscription \cup {None}]
  /\ matches \in SUBSET Match
  /\ lastId \in 0..MaxRows
  /\ pc \in {"down", "monitor", "cycle", "mark", "success", "failed", "disable"}
  /\ view \in [SubId -> Subscription \cup {None}]
  /\ pending \in SUBSET Match
  /\ todo \in SUBSET SubId
  /\ current \in SubId \cup {None}
  /\ batch \in SUBSET RowId
  /\ sentTo \in [Dest -> 0..Burst]
  /\ copies \in [RowId -> Nat] /\ unmarked \in [RowId -> Nat]
  /\ tries \in [SubId -> Nat] /\ slack \in [SubId -> Nat] /\ stale \in [SubId -> Nat]
  /\ edits \in 0..MaxEdits /\ faults \in 0..MaxFaults

NewSubscription(v, d) ==
  [value |-> v, dest |-> d, failures |-> 0, wait |-> 0, age |-> BackoffMax, disabled |-> FALSE]

Idle == [s \in SubId |-> None]

Init ==
  /\ subs \in [SubId -> {NewSubscription(v, d) : v \in Value, d \in Dest}]
  /\ matches = {} /\ lastId = 0
  /\ pc = "monitor" /\ view = Idle /\ pending = {} /\ todo = {}
  /\ current = None /\ batch = {} /\ sentTo = [d \in Dest |-> 0]
  /\ copies = [i \in RowId |-> 0] /\ unmarked = [i \in RowId |-> 0]
  /\ tries = [s \in SubId |-> 0] /\ slack = [s \in SubId |-> 0]
  /\ stale = [s \in SubId |-> 0]
  /\ edits = 0 /\ faults = 0

-------------------------------------------------------------------------------
(* The owners' requests, served while a cycle runs *)

Edited == pc # "down" /\ edits < MaxEdits /\ edits' = edits + 1
NoEdit == UNCHANGED <<pc, matches, lastId, memVars, receiverVars, tries, faults>>

\* handleUpdateSubscription: the backoff state stays as it is.
EditSubscription(s, v, d) ==
  /\ Edited /\ subs[s] # None
  /\ subs' = [subs EXCEPT ![s].value = v, ![s].dest = d]
  /\ stale' = [stale EXCEPT ![s] = 0]
  /\ UNCHANGED slack /\ NoEdit

\* Mutant: enabling resets the backoff state.
EnableAndReset(s) ==
  /\ Edited /\ subs[s] # None
  /\ subs' = [subs EXCEPT ![s].disabled = FALSE, ![s].failures = 0, ![s].wait = 0]
  /\ UNCHANGED <<slack, stale>> /\ NoEdit

\* Enabling what was disabled for its failures buys one more attempt.
EnableSubscription(s) ==
  /\ Edited /\ subs[s] # None
  /\ subs' = [subs EXCEPT ![s].disabled = FALSE]
  /\ slack' = IF subs[s].disabled /\ subs[s].failures = MaxFailures
              THEN [slack EXCEPT ![s] = @ + 1] ELSE slack
  /\ UNCHANGED stale /\ NoEdit

DisableSubscription(s) ==
  /\ Edited /\ subs[s] # None
  /\ subs' = [subs EXCEPT ![s].disabled = TRUE]
  /\ stale' = IF subs[s].disabled THEN stale ELSE [stale EXCEPT ![s] = 0]
  /\ UNCHANGED slack /\ NoEdit

\* The rows of the subscription go with it.
DeleteSubscription(s) ==
  /\ Edited /\ subs[s] # None
  /\ subs' = [subs EXCEPT ![s] = None]
  /\ matches' = {r \in matches : r.sub # s}
  /\ stale' = [stale EXCEPT ![s] = 0]
  /\ UNCHANGED <<pc, lastId, memVars, receiverVars, tries, slack, faults>>

-------------------------------------------------------------------------------
(* The monitoring iteration that comes before a cycle (module LogWatch) *)

\* The rows that TrimMatches deletes: all but the MaxMatches newest of s.
Trimmed(rows, s) ==
  {r \in rows : /\ r.sub = s
                /\ Cardinality({q \in rows : q.sub = s /\ q.id > r.id}) >= MaxMatches}

\* Rows of one transaction, or of one second, have the same created_at; only the order counts.
RecordMatch(s) ==
  /\ pc = "monitor" /\ subs[s] # None /\ lastId < MaxRows
  /\ lastId' = lastId + 1
  /\ \E c \in 0..lastId :
       /\ \A r \in matches : r.created <= c
       /\ c = 0 \/ \E r \in matches : r.created >= c - 1
       /\ LET rows == matches \cup {[id |-> lastId', sub |-> s, created |-> c, notified |-> FALSE]}
          IN  matches' = rows \ Trimmed(rows, s)
  /\ UNCHANGED <<pc, subs, memVars, receiverVars, failureVars, edits, faults>>

-------------------------------------------------------------------------------
(* runOnce *)

Fault == faults < MaxFaults /\ faults' = faults + 1

\* notificationBackoff: doubled for every failure after the first, up to the maximum.
Backoff(failures) ==
  LET d == BackoffBase * 2^(failures - 1)
  IN  IF failures = 0 THEN 0 ELSE IF d >= BackoffMax THEN BackoffMax ELSE d

\* notificationBackoffWithJitter: within a quarter of it, and not above the maximum.
BackoffWithJitter(failures) ==
  {d \in 0..BackoffMax : 3 * Backoff(failures) <= 4 * d /\ 4 * d <= 5 * Backoff(failures)}

\* Mutant: the time to wait never runs out.
LaterStillWaiting(sub, e) ==
  IF sub = None THEN None
  ELSE [sub EXCEPT !.age = IF @ + e < BackoffMax THEN @ + e ELSE BackoffMax]

\* The subscription a time e later.
Later(sub, e) ==
  IF sub = None THEN None
  ELSE [sub EXCEPT !.wait = IF @ > e THEN @ - e ELSE 0,
                   !.age = IF @ + e < BackoffMax THEN @ + e ELSE BackoffMax]

\* Mutant: the rows are listed whether they were notified or not.
AllMatches == matches

PendingMatches == {r \in matches : ~r.notified}

\* The next cycle lists the rows that are pending and groups them.
StartCycle ==
  /\ pc = "monitor"
  /\ pc' = "cycle"
  /\ \E e \in Elapsed : subs' = [s \in SubId |-> Later(subs[s], e)]
  /\ view' = subs'
  /\ pending' = PendingMatches
  /\ todo' = {r.sub : r \in pending'}
  /\ sentTo' = [d \in Dest |-> 0]
  /\ UNCHANGED <<matches, lastId, current, batch, receiverVars, failureVars, edits, faults>>

\* ListPendingMatches fails: nothing is delivered in this cycle.
ListFails ==
  /\ pc = "monitor" /\ Fault
  /\ \E e \in Elapsed : subs' = [s \in SubId |-> Later(subs[s], e)]
  /\ UNCHANGED <<pc, matches, lastId, memVars, receiverVars, failureVars, edits>>

\* A disabled subscription, or one that is backing off, is left alone.
Skip(s) ==
  /\ pc = "cycle" /\ s \in todo
  /\ view[s].disabled \/ view[s].wait > 0
  /\ todo' = todo \ {s}
  /\ UNCHANGED <<pc, dbVars, view, pending, current, batch, sentTo,
                 receiverVars, failureVars, edits, faults>>

\* Mutant: disabled subscriptions are not left alone.
DueThoughDisabled(s) == pc = "cycle" /\ s \in todo /\ view[s].wait = 0

Due(s) == pc = "cycle" /\ s \in todo /\ ~view[s].disabled /\ view[s].wait = 0

(***************************************************************************)
(* The limiter has refilled since the last cycle. When a host has used it  *)
(* up in this one, a further webhook may or may not be allowed, as time    *)
(* goes by.                                                                *)
(***************************************************************************)
RateLimited(d) == d \notin Mailbox /\ sentTo[d] = Burst

Defer(s) ==
  /\ Due(s) /\ RateLimited(view[s].dest)
  /\ todo' = todo \ {s}
  /\ UNCHANGED <<pc, dbVars, view, pending, current, batch, sentTo,
                 receiverVars, failureVars, edits, faults>>

\* The oldest of the group's rows; rows of the same time come in any order.
OldestFirst(s) ==
  LET rows == {r \in pending : r.sub = s}
  IN  {b \in SUBSET rows :
         /\ Cardinality(b) = (IF Cardinality(rows) < MaxBatch THEN Cardinality(rows) ELSE MaxBatch)
         /\ \A r \in b, q \in rows \ b : r.created <= q.created}

(***************************************************************************)
(* The delivery was read from the listing at the start of the cycle, and   *)
(* the owner has deleted, disabled or redirected the subscription since.   *)
(***************************************************************************)
Outdated(s) ==
  \/ subs[s] = None
  \/ subs[s].disabled \/ subs[s].dest # view[s].dest \/ subs[s].value # view[s].value

(***************************************************************************)
(* One batch is sent. It is accepted, or refused, or the receiver gets it  *)
(* and the answer is lost, which looks like a failure from here.           *)
(***************************************************************************)
Deliver(s) ==
  /\ Due(s)
  /\ todo' = todo \ {s} /\ current' = s
  /\ sentTo' = IF view[s].dest \in Mailbox \/ RateLimited(view[s].dest) THEN sentTo
               ELSE [sentTo EXCEPT ![view[s].dest] = @ + 1]
  /\ \E rows \in OldestFirst(s), outcome \in Outcomes[view[s].dest] :
       LET ids == {r.id : r \in rows}
           received == outcome # "refused"
       IN  /\ batch' = ids
           /\ pc' = IF outcome = "accepted" THEN "mark" ELSE "failed"
           /\ copies' = [i \in RowId |-> IF received /\ i \in ids THEN copies[i] + 1 ELSE copies[i]]
           /\ unmarked' = [i \in RowId |-> IF outcome = "lost" /\ i \in ids
                                           THEN unmarked[i] + 1 ELSE unmarked[i]]
           /\ tries' = [tries EXCEPT ![s] = IF outcome = "accepted" THEN 0 ELSE @ + 1]
           /\ slack' = IF outcome = "accepted" THEN [slack EXCEPT ![s] = 0] ELSE slack
           /\ IF outcome = "lost" THEN Fault ELSE UNCHANGED faults
  /\ stale' = IF Outdated(s) THEN [stale EXCEPT ![s] = @ + 1] ELSE stale
  /\ UNCHANGED <<dbVars, view, pending, edits>>

-------------------------------------------------------------------------------
(* After a delivery: one statement of the store each *)

\* Mutant: the whole group is marked.
MarkWholeGroup ==
  /\ pc = "mark"
  /\ pc' = "success"
  /\ matches' = {IF r.sub = current THEN [r EXCEPT !.notified = TRUE] ELSE r : r \in matches}
  /\ UNCHANGED <<subs, lastId, memVars, receiverVars, failureVars, edits, faults>>

\* MarkMatchesNotified; rows deleted since the listing are simply not found.
MarkNotified ==
  /\ pc = "mark"
  /\ pc' = "success"
  /\ matches' = {IF r.id \in batch THEN [r EXCEPT !.notified = TRUE] ELSE r : r \in matches}
  /\ UNCHANGED <<subs, lastId, memVars, receiverVars, failureVars, edits, faults>>

Unmark(ids) == unmarked' = [i \in RowId |-> IF i \in ids THEN unmarked[i] + 1 ELSE unmarked[i]]

MarkNotifiedFails ==
  /\ pc = "mark" /\ Fault
  /\ pc' = "success" /\ Unmark(batch)
  /\ UNCHANGED <<dbVars, memVars, copies, failureVars, edits>>

DeliveryDone ==
  /\ pc' = "cycle" /\ current' = None /\ batch' = {}
  /\ UNCHANGED <<matches, lastId, view, pending, todo, sentTo, receiverVars, tries, stale, edits>>

\* RecordNotificationSuccess does not affect disabled_at.
RecordSuccess ==
  /\ pc = "success" /\ DeliveryDone
  /\ subs' = IF subs[current] = None THEN subs
             ELSE [subs EXCEPT ![current].failures = 0, ![current].wait = 0,
                               ![current].age = BackoffMax]
  /\ UNCHANGED <<slack, faults>>

\* The failures that were counted before the success are still there.
RecordSuccessFails ==
  /\ pc = "success" /\ Fault /\ DeliveryDone
  /\ UNCHANGED <<subs, slack>>

\* Mutant: the backoff of the failures before this one.
RecordFailureLate ==
  /\ pc = "failed" /\ subs[current] # None
  /\ LET newCount == IF subs[current].failures < MaxFailures
                     THEN subs[current].failures + 1 ELSE MaxFailures
     IN  /\ \E d \in BackoffWithJitter(view[current].failures) :
              subs' = [subs EXCEPT ![current].failures = newCount, ![current].wait = d,
                                   ![current].age = 0]
         /\ IF newCount >= MaxFailures
            THEN /\ pc' = "disable"
                 /\ UNCHANGED <<matches, lastId, memVars, receiverVars, tries, stale, edits>>
            ELSE DeliveryDone
  /\ UNCHANGED <<slack, faults>>

(***************************************************************************)
(* RecordNotificationFailure counts on the row, but the backoff is that of *)
(* the count in the listing. It fails when the subscription was deleted.   *)
(***************************************************************************)
RecordFailure ==
  /\ pc = "failed" /\ subs[current] # None
  /\ LET newCount == IF subs[current].failures < MaxFailures
                     THEN subs[current].failures + 1 ELSE MaxFailures
         listed == IF view[current].failures < MaxFailures
                   THEN view[current].failures + 1 ELSE MaxFailures
     IN  /\ \E d \in BackoffWithJitter(listed) :
              subs' = [subs EXCEPT ![current].failures = newCount, ![current].wait = d,
                                   ![current].age = 0]
         /\ IF newCount >= MaxFailures
            THEN /\ pc' = "disable"
                 /\ UNCHANGED <<matches, lastId, memVars, receiverVars, tries, stale, edits>>
            ELSE DeliveryDone
  /\ UNCHANGED <<slack, faults>>

RecordFailureFails ==
  /\ pc = "failed" /\ DeliveryDone
  /\ IF subs[current] = None
     THEN UNCHANGED <<slack, faults>>
     ELSE Fault /\ slack' = [slack EXCEPT ![current] = @ + 1]
  /\ UNCHANGED subs

\* SetSubscriptionEnabled, in a statement of its own.
DisableFailing ==
  /\ pc = "disable" /\ DeliveryDone
  /\ subs' = IF subs[current] = None THEN subs
             ELSE [subs EXCEPT ![current].disabled = TRUE]
  /\ UNCHANGED <<slack, faults>>

DisableFailingFails ==
  /\ pc = "disable" /\ Fault /\ DeliveryDone
  /\ slack' = [slack EXCEPT ![current] = @ + 1]
  /\ UNCHANGED subs

FinishCycle ==
  /\ pc = "cycle" /\ todo = {}
  /\ pc' = "monitor" /\ view' = Idle /\ pending' = {}
  /\ UNCHANGED <<dbVars, todo, current, batch, sentTo, receiverVars, failureVars, edits, faults>>

(***************************************************************************)
(* The process stops at any point: a batch that was sent is not marked,    *)
(* a failure is not counted, or the subscription not disabled.             *)
(***************************************************************************)
Crash ==
  /\ pc # "down" /\ Fault
  /\ pc' = "down" /\ view' = Idle /\ pending' = {} /\ todo' = {}
  /\ current' = None /\ batch' = {} /\ sentTo' = [d \in Dest |-> 0]
  /\ IF pc = "mark" THEN Unmark(batch) ELSE UNCHANGED unmarked
  /\ slack' = IF pc \in {"failed", "disable"} THEN [slack EXCEPT ![current] = @ + 1] ELSE slack
  /\ UNCHANGED <<dbVars, copies, tries, stale, edits>>

Restart ==
  /\ pc = "down"
  /\ pc' = "monitor"
  /\ UNCHANGED <<dbVars, memVars, receiverVars, failureVars, edits, faults>>

-------------------------------------------------------------------------------
Owner ==
  \E s \in SubId :
    \/ \E v \in Value, d \in Dest : EditSubscription(s, v, d)
    \/ EnableSubscription(s) \/ DisableSubscription(s) \/ DeleteSubscription(s)

Cycle ==
  \/ StartCycle \/ FinishCycle \/ Restart
  \/ \E s \in SubId : Skip(s) \/ Defer(s) \/ Deliver(s)
  \/ MarkNotified \/ RecordSuccess \/ RecordFailure \/ DisableFailing
  \/ RecordFailureFails

Failure ==
  ListFails \/ MarkNotifiedFails \/ RecordSuccessFails \/ DisableFailingFails \/ Crash

Next == Owner \/ Cycle \/ Failure \/ \E s \in SubId : RecordMatch(s)

Spec == Init /\ [][Next]_vars

\* monitorLoop starts a cycle after every tick, and every cycle runs to its end.
FairSpec == Spec /\ WF_vars(Cycle)

-------------------------------------------------------------------------------
(* Properties *)

(***************************************************************************)
(* Nothing is marked as notified that its receiver did not acknowledge:    *)
(* rows beyond the batch, of a failed delivery, or recorded meanwhile stay *)
(* pending.                                                                *)
(***************************************************************************)
NotifiedWasAcknowledged ==
  \A r \in matches : r.notified => copies[r.id] > unmarked[r.id]

(***************************************************************************)
(* "The same match may be delivered more than once if a previous           *)
(* delivery's response was lost": a receiver gets a row again only after a *)
(* lost answer, a failed statement or a crash, and once for each of them,  *)
(* whatever the owner changes between the listing and the marking.         *)
(***************************************************************************)
NoNeedlessRedelivery ==
  \A i \in RowId : copies[i] <= 1 + unmarked[i]

(***************************************************************************)
(* A subscription that failed is left alone for the backoff of its failure *)
(* count, less the jitter, across crashes, edits, and disabling and        *)
(* enabling.                                                               *)
(***************************************************************************)
BackoffRespected ==
  [][\A s \in SubId :
       pc = "cycle" /\ pc' \in {"mark", "failed"} /\ current' = s =>
         4 * view[s].age >= 3 * Backoff(view[s].failures)]_vars

(***************************************************************************)
(* A receiver that only fails gets MaxFailures deliveries in a row and one *)
(* more for every time the owner enables the subscription again: "users    *)
(* cannot reset the failure count by toggling the subscription". (A fault  *)
(* that loses a failure or the disabling costs one more as well.)          *)
(***************************************************************************)
FailuresBounded ==
  \A s \in SubId : tries[s] <= MaxFailures + slack[s]

(***************************************************************************)
(* A change by the owner is overtaken by at most one delivery: the one of  *)
(* the cycle that listed the subscription before.                          *)
(***************************************************************************)
OvertakenOnce == \A s \in SubId : stale[s] <= 1

\* The subscriptions that may use up what the limiter allows a host.
Sharing(d) == {s \in SubId : subs[s] # None /\ subs[s].dest = d /\ d \notin Mailbox}

\* The receiver answers, but for a bounded number of lost answers, and is not rate limited.
Reachable(s) ==
  /\ subs[s] # None /\ ~subs[s].disabled
  /\ "accepted" \in Outcomes[subs[s].dest] /\ "refused" \notin Outcomes[subs[s].dest]
  /\ Cardinality(Sharing(subs[s].dest)) <= Burst

(***************************************************************************)
(* Every match of a subscription that stays enabled with a receiver that   *)
(* answers is eventually notified, whatever failed before: batches that do *)
(* not fit, backoff, other subscriptions' failures, crashes. (Of more than *)
(* Burst subscriptions of a host, which are served in random order, one    *)
(* may be deferred for ever.)                                              *)
(***************************************************************************)
EventuallyNotified ==
  \A s \in SubId :
    <>[]Reachable(s) => <>[](\A r \in matches : r.sub = s => r.notified)
==============================================================================
