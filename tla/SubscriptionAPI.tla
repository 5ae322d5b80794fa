--------------------------- MODULE SubscriptionAPI ----------------------------
(***************************************************************************)
(* The subscription handlers of rekor_watch                                *)
(* (cmd/rekor_watch/web/server.go) over the table subscriptions. Creating  *)
(* one counts the user's rows and inserts another in one transaction, on   *)
(* one of several connections to a SQLite database in WAL mode: the        *)
(* transaction reads a snapshot, and cannot write when another connection  *)
(* committed after it. The other handlers are one statement each. The user *)
(* was authenticated (Login); the body of the request is valid.            *)
(***************************************************************************)
EXTENDS Naturals, FiniteSets

CONSTANTS
  Request,            \* the POST requests that can be served at the same time
  User,
  Name,               \* names of subscriptions
  Cap,                \* maxSubscriptionsPerUser, which must be positive
  MaxId,              \* bound on the row ids
  MaxFaults           \* bound on failed statements and restarts

Id == 1..MaxId

ASSUME SubscriptionAPIAssumption ==
  Cap \in Nat \ {0} /\ MaxId \in Nat /\ MaxFaults \in Nat

VARIABLES
  subs,               \* the table, whose (user, name) is UNIQUE
  lastId,             \* AUTOINCREMENT: ids are never used again
  requests,           \* what each create handler is at
  outdated,           \* the transactions whose snapshot another commit has overtaken
  (* observations *)
  created,            \* the rows whose creation was answered 201
  unanswered,         \* rows that were committed although the handler got an error
  removed,            \* the <<user, id>> whose deletion was answered 204
  faults

vars == <<subs, lastId, requests, outdated, created, unanswered, removed, faults>>

Idle == [step |-> "idle"]

TypeOK ==
  /\ subs \in SUBSET [id : 1..lastId, user : User, name : Name]
  /\ lastId \in 0..MaxId
  /\ \A r \in Request :
       \/ requests[r] = Idle
       \/ requests[r] \in [step : {"count", "insert", "commit"}, user : User, name : Name]
  /\ outdated \in SUBSET {r \in Request : requests[r].step = "insert"}
  /\ created \in SUBSET (User \X (1..lastId)) /\ unanswered \in SUBSET (User \X (1..lastId))
  /\ removed \in SUBSET (User \X (1..lastId))
  /\ faults \in 0..MaxFaults

Init ==
  /\ subs = {} /\ lastId = 0
  /\ requests = [r \in Request |-> Idle] /\ outdated = {}
  /\ created = {} /\ unanswered = {} /\ removed = {}
  /\ faults = 0

Owned(u) == {s \in subs : s.user = u}
NameTaken(u, n) == \E s \in Owned(u) : s.name = n

\* The transactions that have read and have not written yet.
Readers == {r \in Request : requests[r].step = "insert"}

\* SQLite has one writer: from the first write of a transaction to its end.
WriteLockFree == \A r \in Request : requests[r].step # "commit"

Fault == faults < MaxFaults /\ faults' = faults + 1

\* The handler answers; what its transaction did not commit is rolled back.
Answer(r) == requests' = [requests EXCEPT ![r] = Idle]

-------------------------------------------------------------------------------
(* POST /api/subscriptions *)

Post(r, u, n) ==
  /\ requests[r] = Idle
  /\ requests' = [requests EXCEPT ![r] = [step |-> "count", user |-> u, name |-> n]]
  /\ UNCHANGED <<subs, lastId, outdated, created, unanswered, removed, faults>>

\* BeginTx and CountSubscriptionsByUser, whose read fixes the snapshot.
Count(r) ==
  /\ requests[r].step = "count"
  /\ Cardinality(Owned(requests[r].user)) < Cap
  /\ requests' = [requests EXCEPT ![r].step = "insert"]
  /\ UNCHANGED <<subs, lastId, outdated, created, unanswered, removed, faults>>

\* 409: "Subscription limit reached".
LimitReached(r) ==
  /\ requests[r].step = "count"
  /\ Cardinality(Owned(requests[r].user)) >= Cap
  /\ Answer(r)
  /\ UNCHANGED <<subs, lastId, outdated, created, unanswered, removed, faults>>

\* Mutant: the count is not in the transaction of the insert.
AnySnapshot(r) == TRUE

SnapshotCurrent(r) == r \notin outdated

\* SaveSubscription takes the write lock, on a snapshot that is still the newest.
Insert(r) ==
  /\ requests[r].step = "insert" /\ WriteLockFree /\ SnapshotCurrent(r)
  /\ lastId < MaxId
  /\ ~NameTaken(requests[r].user, requests[r].name)
  /\ requests' = [requests EXCEPT ![r].step = "commit"]
  /\ outdated' = outdated \ {r}
  /\ UNCHANGED <<subs, lastId, created, unanswered, removed, faults>>

\* 409: "You already have a subscription named".
DuplicateName(r) ==
  /\ requests[r].step = "insert" /\ WriteLockFree /\ SnapshotCurrent(r)
  /\ NameTaken(requests[r].user, requests[r].name)
  /\ Answer(r) /\ outdated' = outdated \ {r}
  /\ UNCHANGED <<subs, lastId, created, unanswered, removed, faults>>

\* 500: SQLITE_BUSY_SNAPSHOT, or SQLITE_BUSY while another transaction writes.
InsertRejected(r) ==
  /\ requests[r].step = "insert"
  /\ ~SnapshotCurrent(r) \/ ~WriteLockFree
  /\ Answer(r) /\ outdated' = outdated \ {r}
  /\ UNCHANGED <<subs, lastId, created, unanswered, removed, faults>>

\* COMMIT, and 201.
Written(r) == [id |-> lastId + 1, user |-> requests[r].user, name |-> requests[r].name]

Commit(r) ==
  /\ requests[r].step = "commit"
  /\ subs' = subs \cup {Written(r)} /\ lastId' = lastId + 1
  /\ created' = created \cup {<<requests[r].user, lastId + 1>>}
  /\ outdated' = Readers /\ Answer(r)
  /\ UNCHANGED <<unanswered, removed, faults>>

\* 500: the commit reports an error, although its outcome may stand.
CommitFails(r) ==
  /\ requests[r].step = "commit" /\ Fault
  /\ \/ /\ subs' = subs \cup {Written(r)} /\ lastId' = lastId + 1
        /\ unanswered' = unanswered \cup {<<requests[r].user, lastId + 1>>}
        /\ outdated' = Readers
     \/ UNCHANGED <<subs, lastId, unanswered, outdated>>
  /\ Answer(r)
  /\ UNCHANGED <<created, removed>>

\* 500: BEGIN, the count or the insert fails.
StatementFails(r) ==
  /\ requests[r].step \in {"count", "insert"} /\ Fault
  /\ Answer(r) /\ outdated' = outdated \ {r}
  /\ UNCHANGED <<subs, lastId, created, unanswered, removed>>

-------------------------------------------------------------------------------
(* The other handlers; one that finds no such row of the user answers 404 *)

\* Mutant: the statement does not look at the owner.
RowsWithId(u, id) == {s \in subs : s.id = id}

RowsOf(u, id) == {s \in subs : s.id = id /\ s.user = u}

\* PUT /api/subscriptions/{id}: a name that is taken is answered 409.
UpdateSubscription(u, id, n) ==
  /\ WriteLockFree
  /\ \E s \in RowsOf(u, id) :
       /\ s.name = n \/ ~NameTaken(u, n)
       /\ subs' = (subs \ {s}) \cup {[s EXCEPT !.name = n]}
  /\ outdated' = Readers
  /\ UNCHANGED <<lastId, requests, created, unanswered, removed, faults>>

\* DELETE /api/subscriptions/{id}
DeleteSubscription(u, id) ==
  /\ WriteLockFree
  /\ RowsOf(u, id) # {}
  /\ subs' = subs \ RowsOf(u, id)
  /\ removed' = removed \cup {<<u, id>>}
  /\ outdated' = Readers
  /\ UNCHANGED <<lastId, requests, created, unanswered, faults>>

\* The iteration, the notifier or another handler commits to another table.
OtherCommit ==
  /\ WriteLockFree /\ Readers # outdated
  /\ outdated' = Readers
  /\ UNCHANGED <<subs, lastId, requests, created, unanswered, removed, faults>>

Restart ==
  /\ Fault
  /\ requests' = [r \in Request |-> Idle] /\ outdated' = {}
  /\ UNCHANGED <<subs, lastId, created, unanswered, removed>>

Next ==
  \/ \E r \in Request, u \in User, n \in Name : Post(r, u, n)
  \/ \E r \in Request :
       \/ Count(r) \/ LimitReached(r)
       \/ Insert(r) \/ DuplicateName(r) \/ InsertRejected(r)
       \/ Commit(r) \/ CommitFails(r) \/ StatementFails(r)
  \/ \E u \in User, id \in Id, n \in Name : UpdateSubscription(u, id, n)
  \/ \E u \in User, id \in Id : DeleteSubscription(u, id)
  \/ OtherCommit \/ Restart

Spec == Init /\ [][Next]_vars

-------------------------------------------------------------------------------
(***************************************************************************)
(* "Two concurrent POSTs from the same user at the boundary cannot both    *)
(* succeed": however the transactions of create requests overlap, with     *)
(* each other and with other commits, no user ever owns more than Cap.     *)
(***************************************************************************)
CapRespected == \A u \in User : Cardinality(Owned(u)) <= Cap

(***************************************************************************)
(* A user's subscriptions can be told apart by name, whatever creations    *)
(* and renamings overlap.                                                  *)
(***************************************************************************)
NamesUnique ==
  \A s, t \in subs : s.user = t.user /\ s.name = t.name => s = t

(***************************************************************************)
(* The answers tell the truth across overlapping requests: what was        *)
(* answered 201 is there until its own owner has an answered deletion, and *)
(* a creation that was answered with an error left nothing behind, unless  *)
(* its commit reported an error although it took place.                    *)
(***************************************************************************)
AnswersMatchTable ==
  LET rows == {<<s.user, s.id>> : s \in subs} IN
    /\ created \ removed \subseteq rows
    /\ rows \subseteq (created \cup unanswered) \ removed
==============================================================================
