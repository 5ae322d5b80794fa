---------------------------- MODULE LogWatchProofs ----------------------------
(***************************************************************************)
(* The safety properties of LogWatch, for any number of shards,            *)
(* subscriptions, values, entries and faults.                              *)
(***************************************************************************)
EXTENDS LogWatch, FiniteSetTheorems, FunctionTheorems, TLAPS

USE DEF Size, Index, FetchShards, ListSubscriptions, AnyCheckpoint, SaveCheckpoint

-------------------------------------------------------------------------------
(* Tiles *)

\* A full last tile reaches to the end of the tree or beyond (TileReaderProofs has more on tiles).
LEMMA LastTileReach ==
  ASSUME NEW n \in Nat
  PROVE  TileEnd(GetTileIndex(n - 1)) \in Nat /\ TileEnd(GetTileIndex(n - 1)) >= n
<1> DEFINE q == n \div TileWidth
           r == n % TileWidth
<1>1. n = TileWidth * q + r /\ r \in 0..(TileWidth - 1) /\ q \in Nat
  BY TileWidthAssumption
<1>2. GetTileIndex(n - 1) = IF r = 0 THEN q - 1 ELSE q
  BY DEF GetTileIndex
<1> HIDE DEF q, r
<1>3. /\ TileEnd(q - 1) = TileWidth * q /\ TileEnd(q) = TileWidth * q + TileWidth
      /\ TileWidth * q \in Nat
  BY <1>1, TileWidthAssumption DEF TileEnd
<1> QED
  BY <1>1, <1>2, <1>3, TileWidthAssumption

-------------------------------------------------------------------------------
(* Type correctness *)

LEMMA InitTypeOK == Init => TypeOK
<1> SUFFICES ASSUME Init PROVE TypeOK
  OBVIOUS
<1> USE LogWatchAssumption DEF Init
<1>1. treeSize \in [Shard -> Size] /\ fork \in [Shard -> BOOLEAN]
  OBVIOUS
<1>2. configured \in SUBSET Shard /\ shards \in SUBSET Shard /\ todo \in SUBSET Shard
  OBVIOUS
<1>3. checkpoint \in [Shard -> TreeHead \cup {None}] /\ job = None /\ pc = "idle"
  OBVIOUS
<1>4. /\ subs \in [SubId -> Value \cup {None}] /\ snapshot \in [SubId -> Value \cup {None}]
      /\ usedIds \in SUBSET SubId
  OBVIOUS
<1>5. since \in [SubId -> [Shard -> Size]]
  OBVIOUS
<1>6. base \in [Shard -> Size \cup {None}] /\ firstDeploy \in [Shard -> Size \cup {None}]
  OBVIOUS
<1>7. /\ matches \in SUBSET Match /\ evicted \in SUBSET Match
      /\ failedEntries \in SUBSET FailedEntry /\ batch \in Nat /\ faults \in 0..MaxFaults
  OBVIOUS
<1> QED
  BY <1>1, <1>2, <1>3, <1>4, <1>5, <1>6, <1>7 DEF TypeOK

\* The searched range stays within the bounds, overshoot included.
LEMMA SearchTypeOK ==
  ASSUME TypeOK, Search
  PROVE  job' \in Job
<1>1. job \in Job /\ job.head \in TreeHead /\ job.origin \in Shard
  BY DEF TypeOK, Search, Job
<1>2. CASE UNCHANGED job
  BY <1>1, <1>2
<1>3. CASE /\ shouldSearch /\ lastTileEnd <= treeSize[job.origin]
           /\ job' = [job EXCEPT !.reach = lastTileEnd]
  <2>1. job.head.size \in Nat /\ treeSize[job.origin] \in Size
    BY <1>1, LogWatchAssumption DEF TypeOK, TreeHead
  <2>2. lastTileEnd \in Size
    BY <2>1, <1>3, LastTileReach, LogWatchAssumption DEF lastTileEnd
  <2> QED
    BY <1>1, <1>3, <2>2 DEF Job
<1>4. CASE job' = [job EXCEPT !.from = job.head.size]
  BY <1>1, <1>4 DEF Job, TreeHead
<1> QED
  BY <1>2, <1>3, <1>4 DEF Search

LEMMA FoundTypeOK ==
  ASSUME TypeOK, job \in Job
  PROVE  foundMatches \in SUBSET Match /\ foundFailures \in SUBSET FailedEntry
<1>1. /\ job.origin \in Shard /\ job.from \in Size /\ job.reach \in Size
      /\ batch \in Nat
  BY DEF TypeOK, Job
<1>2. job.from .. job.reach - 1 \subseteq Index
  BY <1>1, LogWatchAssumption
<1> QED
  BY <1>1, <1>2 DEF foundMatches, foundFailures, Match, FailedEntry

LEMMA DecideSearchRangeType ==
  ASSUME NEW prev \in TreeHead \cup {None}, NEW current \in TreeHead, NEW hasAny \in BOOLEAN
  PROVE  DecideSearchRange(prev, current, hasAny) \in Size
BY LogWatchAssumption, NoneAssumption DEF DecideSearchRange, TreeHead

LEMMA FaultType ==
  ASSUME TypeOK, Fault
  PROVE  faults' \in 0..MaxFaults
BY LogWatchAssumption DEF TypeOK, Fault

LEMMA NextTypeOK == TypeOK /\ [Next]_vars => TypeOK'
<1> SUFFICES ASSUME TypeOK, [Next]_vars PROVE TypeOK'
  OBVIOUS
<1> USE LogWatchAssumption
<1>1. ASSUME NEW o \in Shard, Grow(o) PROVE TypeOK'
  BY <1>1 DEF Grow, TypeOK, dbVars, memVars, obsVars
<1>2. ASSUME NEW o \in Shard, Rewrite(o) PROVE TypeOK'
  BY <1>2 DEF Rewrite, TypeOK, dbVars, memVars, obsVars
<1>3. ASSUME NEW o \in Shard, Reconfigure(o) PROVE TypeOK'
  BY <1>3 DEF Reconfigure, TypeOK, dbVars, memVars, obsVars
<1>4. ASSUME NEW s \in SubId, NEW v \in Value, CreateSubscription(s, v) PROVE TypeOK'
  BY <1>4 DEF CreateSubscription, TypeOK, logVars, memVars, obsVars
<1>5. ASSUME NEW s \in SubId, NEW v \in Value, UpdateSubscription(s, v) PROVE TypeOK'
  BY <1>5 DEF UpdateSubscription, TypeOK, logVars, memVars, obsVars
<1>6. ASSUME NEW s \in SubId, DeleteSubscription(s) PROVE TypeOK'
  BY <1>6 DEF DeleteSubscription, TypeOK, logVars, memVars, obsVars
<1>7. CASE StartIteration
  BY <1>7, FaultType DEF StartIteration, TypeOK, logVars, dbVars, obsButFaults
<1>8. CASE LoadIteration
  BY <1>8 DEF LoadIteration, TypeOK, logVars, dbVars
<1>9. CASE FinishIteration
  BY <1>9 DEF FinishIteration, TypeOK, logVars, dbVars, obsVars
<1>10. ASSUME NEW o \in Shard, LoadAndVerify(o) PROVE TypeOK'
  <2>1. /\ \/ pc' = "shard" /\ job' = None
           \/ pc' = "search" /\ job' \in Job
        /\ faults' \in 0..MaxFaults
    <3>1. PICK n \in Size : LoadAndVerify(o)!3!(n)
      BY <1>10 DEF LoadAndVerify
    <3> DEFINE head == [size |-> n, fork |-> fork[o]]
    <3>2. head \in TreeHead /\ checkpoint[o] \in TreeHead \cup {None}
      BY DEF TypeOK, TreeHead
    <3>3. DecideSearchRange(checkpoint[o], head, hasAnyCheckpoint) \in Size
      BY <3>2, DecideSearchRangeType DEF TypeOK
    <3>4. faults' \in 0..MaxFaults
      BY <3>1, FaultType DEF TypeOK
    <3>5. pc = "shard" /\ job = None
      BY <1>10 DEF LoadAndVerify, TypeOK
    <3> QED
      BY <3>1, <3>2, <3>3, <3>4, <3>5 DEF Job
  <2> QED
    BY <1>10, <2>1 DEF LoadAndVerify, TypeOK, logVars, dbVars, obsButFaults
<1>11. CASE Search
  BY <1>11, SearchTypeOK DEF Search, TypeOK, logVars, dbVars, obsVars
<1>12. CASE Commit
  <2>1. job \in Job /\ job.origin \in Shard /\ job.head \in TreeHead /\ job.head.size \in Size
    BY <1>12 DEF Commit, TypeOK, Job, TreeHead
  <2>2. foundMatches \in SUBSET Match /\ foundFailures \in SUBSET FailedEntry
    BY <2>1, FoundTypeOK
  <2>3. matches' \in SUBSET Match /\ evicted' \in SUBSET Match
    BY <1>12, <2>2 DEF Commit, TrimMatches, TypeOK
  <2>4. failedEntries' \in SUBSET FailedEntry /\ batch' \in Nat
    BY <1>12, <2>2 DEF Commit, TypeOK
  <2>5. /\ checkpoint' \in [Shard -> TreeHead \cup {None}]
        /\ base' \in [Shard -> Size \cup {None}]
    BY <1>12, <2>1 DEF Commit, TypeOK
  <2> QED
    BY <1>12, <2>3, <2>4, <2>5 DEF Commit, TypeOK, logVars
<1>13. CASE CommitRejected \/ SearchAborts
  BY <1>13 DEF CommitRejected, SearchAborts, TypeOK, logVars, dbVars, obsVars
<1>14. CASE Restart
  BY <1>14 DEF Restart, TypeOK, logVars, dbVars, obsVars
<1>15. CASE LoadFails
  BY <1>15, FaultType DEF LoadFails, TypeOK, logVars, dbVars, obsButFaults
<1>16. CASE SearchFails
  BY <1>16, FaultType DEF SearchFails, TypeOK, logVars, dbVars, obsButFaults
<1>17. CASE CommitFails
  BY <1>17, FaultType DEF CommitFails, TypeOK, logVars, dbVars, obsButFaults
<1>18. CASE Crash
  <2>1. faults' \in 0..MaxFaults
    BY <1>18, FaultType DEF Crash
  <2> QED
    BY <1>18, <2>1 DEF Crash, TypeOK, logVars, dbVars, obsButFaults
<1>19. ASSUME NEW o \in Shard, LoadAndVerifyFails(o) PROVE TypeOK'
  BY <1>19, FaultType DEF LoadAndVerifyFails, TypeOK, logVars, dbVars, obsButFaults
<1>20. CASE UNCHANGED vars
  BY <1>20 DEF TypeOK, vars, logVars, dbVars, memVars, obsVars
<1> QED
  BY <1>1, <1>2, <1>3, <1>4, <1>5, <1>6, <1>7, <1>8, <1>9, <1>10, <1>11, <1>12, <1>13,
     <1>14, <1>15, <1>16, <1>17, <1>18, <1>19, <1>20
     DEF Next, Environment, Monitor, Failure

\* Every variable keeps its type.
THEOREM TypeCorrect == Spec => []TypeOK
BY InitTypeOK, NextTypeOK, PTL DEF Spec
-------------------------------------------------------------------------------
(* The inductive invariant, in parts *)

(***************************************************************************)
(* What catchUpShard read at its beginning still holds when it commits:    *)
(* nobody else moves checkpoints, and the log only grows.                  *)
(***************************************************************************)
JobInv ==
  pc \in {"search", "commit"} =>
    /\ job.prev = checkpoint[job.origin]
    /\ job.head.size <= treeSize[job.origin]
    /\ Consistent(job.prev, job.head)
    /\ job.prev # None => job.prev.size < job.head.size
    /\ job.from = IF pc = "commit" /\ monitoredValues = {} THEN job.head.size
                  ELSE DecideSearchRange(job.prev, job.head, hasAnyCheckpoint)
    /\ \/ job.reach = job.head.size
       \/ /\ pc = "commit" /\ PrunesBundles
          /\ job.reach > job.head.size /\ job.from < job.head.size

\* Checkpoints lie within their shards, and the first one fixed the base.
CheckpointInv ==
  \A o \in Shard :
    /\ base[o] = None <=> checkpoint[o] = None
    /\ checkpoint[o] # None => checkpoint[o].size <= treeSize[o]

\* An id that was never handed out is in no table and no snapshot.
IdInv == \A s \in SubId \ usedIds : subs[s] = None /\ snapshot[s] = None

(***************************************************************************)
(* What a listed subscription is owed, whether or not its value was edited *)
(* since it was listed: edits touch subs, rows follow the snapshot.        *)
(***************************************************************************)
Listed(o, i, s) ==
  /\ checkpoint[o] # None /\ base[o] <= i /\ i < checkpoint[o].size
  /\ subs[s] # None /\ snapshot[s] # None /\ since[s][o] <= i

MatchInv ==
  \A o \in Shard, s \in SubId, i \in Index :
    Listed(o, i, s) /\ i \notin Unparsed[o] /\ snapshot[s] \in Hits[o][i] =>
      \E r \in Recorded : r.origin = o /\ r.index = i /\ r.sub = s

FailureInv ==
  \A o \in Shard, s \in SubId, i \in Index :
    Listed(o, i, s) /\ i \in Unparsed[o] =>
      \E f \in failedEntries : f.origin = o /\ f.index = i

\* Where partial bundles are kept, no row lies beyond its shard's checkpoint.
RowInv ==
  ~PrunesBundles =>
    \A r \in Recorded : checkpoint[r.origin] # None /\ r.index < checkpoint[r.origin].size

-------------------------------------------------------------------------------
(* The steps, sorted by what they do to the invariant's variables *)

\* Steps that record nothing, list nothing and at most abandon the shard at hand.
Quiet ==
  /\ UNCHANGED <<checkpoint, subs, usedIds, matches, failedEntries, batch>>
  /\ UNCHANGED <<snapshot, base, since, evicted>>
  /\ \A o \in Shard : treeSize'[o] >= treeSize[o]
  /\ UNCHANGED <<pc, job, hasAnyCheckpoint>> \/ pc' \notin {"search", "commit"}

Edit ==
  \E s \in SubId : DeleteSubscription(s)
                   \/ \E v \in Value : CreateSubscription(s, v) \/ UpdateSubscription(s, v)

LEMMA Steps ==
  ASSUME TypeOK, [Next]_vars
  PROVE  \/ Quiet \/ Edit \/ LoadIteration \/ Search \/ Commit
         \/ \E o \in Shard : LoadAndVerify(o)
<1> USE LogWatchAssumption
<1>0. \A o \in Shard : treeSize[o] \in Nat
  BY DEF TypeOK
<1>1. ASSUME NEW o \in Shard, Grow(o) PROVE Quiet
  BY <1>0, <1>1 DEF Grow, Quiet, dbVars, memVars, obsVars, TypeOK
<1>2. ASSUME NEW o \in Shard, Rewrite(o) \/ Reconfigure(o) PROVE Quiet
  BY <1>0, <1>2 DEF Rewrite, Reconfigure, Quiet, dbVars, memVars, obsVars
<1>3. CASE StartIteration \/ LoadFails
  BY <1>0, <1>3 DEF StartIteration, LoadFails, Quiet, logVars, dbVars, obsButFaults
<1>4. CASE FinishIteration \/ Restart
  BY <1>0, <1>4 DEF FinishIteration, Restart, Quiet, logVars, dbVars, obsVars
<1>5. CASE CommitRejected \/ CommitFails \/ SearchFails \/ SearchAborts
  BY <1>0, <1>5
     DEF CommitRejected, CommitFails, SearchFails, SearchAborts, Quiet, logVars, dbVars, obsVars, obsButFaults
<1>6. ASSUME NEW o \in Shard, LoadAndVerifyFails(o) PROVE Quiet
  BY <1>0, <1>6 DEF LoadAndVerifyFails, Quiet, logVars, dbVars, obsButFaults
<1>7. CASE Crash
  BY <1>0, <1>7 DEF Crash, Quiet, logVars, dbVars, obsButFaults
<1>8. CASE UNCHANGED vars
  BY <1>0, <1>8 DEF Quiet, vars, logVars, dbVars, memVars, obsVars
<1> QED
  BY <1>1, <1>2, <1>3, <1>4, <1>5, <1>6, <1>7, <1>8 DEF Next, Environment, Monitor, Failure, Edit

\* The parts of a job, for steps that have one.
LEMMA JobParts ==
  ASSUME TypeOK, pc \in {"search", "commit"}
  PROVE  /\ job \in Job /\ job.origin \in Shard
         /\ job.prev \in TreeHead \cup {None}
         /\ job.prev # None => job.prev \in TreeHead /\ job.prev.size \in Size
         /\ job.head \in TreeHead /\ job.head # None /\ job.head.size \in Size
         /\ job.from \in Size /\ job.reach \in Size
BY NoneAssumption DEF TypeOK, Job, TreeHead

-------------------------------------------------------------------------------
(* Each part is preserved *)

LEMMA JobInvNext ==
  ASSUME TypeOK, JobInv, CheckpointInv, [Next]_vars
  PROVE  JobInv'
<1> USE LogWatchAssumption
<1>1. CASE Quiet
  <2> SUFFICES ASSUME pc \in {"search", "commit"}, UNCHANGED <<pc, job, hasAnyCheckpoint>>
               PROVE  JobInv'
    BY <1>1 DEF Quiet, JobInv
  <2>1. /\ UNCHANGED <<checkpoint, snapshot>>
        /\ treeSize'[job.origin] >= treeSize[job.origin]
    BY <1>1, JobParts DEF Quiet
  <2>2. job.head.size <= treeSize'[job.origin]
    <3>1. /\ job.head.size \in Nat /\ treeSize[job.origin] \in Nat
          /\ treeSize'[job.origin] \in Nat
      <4>1. treeSize \in [Shard -> Size] /\ treeSize' \in [Shard -> Size]
        BY NextTypeOK DEF TypeOK
      <4> QED
        BY <4>1, JobParts
    <3> QED
      BY <2>1, <3>1 DEF JobInv
  <2> QED
    BY <2>1, <2>2 DEF JobInv, monitoredValues
<1>2. CASE Edit
  <2>1. UNCHANGED <<treeSize, checkpoint, pc, job, snapshot, hasAnyCheckpoint>>
    BY <1>2 DEF Edit, CreateSubscription, UpdateSubscription, DeleteSubscription, logVars, memVars
  <2> QED
    BY <2>1 DEF JobInv, monitoredValues
<1>3. CASE LoadIteration
  BY <1>3 DEF LoadIteration, JobInv
<1>4. ASSUME NEW o \in Shard, LoadAndVerify(o) PROVE JobInv'
  <2>1. pc = "shard" /\ UNCHANGED <<hasAnyCheckpoint, checkpoint, treeSize>>
    BY <1>4 DEF LoadAndVerify, logVars, dbVars
  <2>2. PICK n \in Size : LoadAndVerify(o)!3!(n)
    BY <1>4 DEF LoadAndVerify
  <2> DEFINE head == [size |-> n, fork |-> fork[o]]
  <2>3. CASE UNCHANGED <<pc, job>>
    BY <2>1, <2>3 DEF JobInv
  <2>4. CASE /\ Consistent(checkpoint[o], head)
             /\ ~(checkpoint[o] # None /\ checkpoint[o].size = head.size)
             /\ job' = [origin |-> o, prev |-> checkpoint[o], head |-> head,
                        from |-> DecideSearchRange(checkpoint[o], head, hasAnyCheckpoint),
                        reach |-> head.size]
             /\ pc' = "search"
    <3>1. checkpoint[o] # None => checkpoint[o].size < n
      <4>1. checkpoint[o] # None => checkpoint[o].size \in Size
        BY DEF TypeOK, TreeHead
      <4> QED
        BY <2>4, <4>1 DEF Consistent
    <3>2. n <= treeSize[o]
      BY <2>2
    <3> QED
      BY <2>1, <2>4, <3>1, <3>2 DEF JobInv
  <2> QED
    BY <2>2, <2>3, <2>4
<1>5. CASE Search
  <2>1. /\ pc = "search" /\ pc' = "commit"
        /\ UNCHANGED <<treeSize, checkpoint, snapshot, hasAnyCheckpoint>>
    BY <1>5 DEF Search, logVars, dbVars
  <2>2. job \in Job /\ job.head.size \in Nat /\ job.from \in Nat
    BY <2>1, JobParts
  <2>3. CASE monitoredValues # {} /\ UNCHANGED job
    BY <2>1, <2>3 DEF JobInv, monitoredValues
  <2>4. CASE /\ shouldSearch /\ monitoredValues # {} /\ PrunesBundles
             /\ job' = [job EXCEPT !.reach = lastTileEnd]
    <3>1. lastTileEnd \in Nat /\ lastTileEnd >= job.head.size
      BY <2>2, LastTileReach DEF lastTileEnd
    <3>2. /\ job.from = DecideSearchRange(job.prev, job.head, hasAnyCheckpoint)
          /\ job.from < job.head.size
      BY <2>1, <2>4 DEF JobInv, shouldSearch
    <3>3. /\ job'.from = job.from /\ job'.reach = lastTileEnd
          /\ job'.prev = job.prev /\ job'.head = job.head /\ job'.origin = job.origin
      BY <2>2, <2>4 DEF Job
    <3>4. monitoredValues' # {}
      BY <2>1, <2>4 DEF monitoredValues
    <3> QED
      BY <2>1, <2>2, <2>4, <3>1, <3>2, <3>3, <3>4 DEF JobInv
  <2>5. CASE /\ ~(shouldSearch /\ monitoredValues # {})
             /\ job' = [job EXCEPT !.from = job.head.size]
    <3>1. /\ job.from = DecideSearchRange(job.prev, job.head, hasAnyCheckpoint)
          /\ job.reach = job.head.size
      BY <2>1 DEF JobInv
    <3>2. job.from <= job.head.size
      BY <2>1, <2>2, <3>1, JobParts DEF JobInv, DecideSearchRange
    <3>3. monitoredValues = {} \/ job.from = job.head.size
      BY <2>2, <2>5, <3>2 DEF shouldSearch
    <3>4. /\ job'.from = job.head.size /\ job'.reach = job.reach
          /\ job'.prev = job.prev /\ job'.head = job.head /\ job'.origin = job.origin
      BY <2>2, <2>5 DEF Job
    <3> QED
      BY <2>1, <3>1, <3>3, <3>4 DEF JobInv, monitoredValues
  <2> QED
    BY <1>5, <2>3, <2>4, <2>5 DEF Search
<1>6. CASE Commit
  BY <1>6 DEF Commit, JobInv
<1> QED
  BY <1>1, <1>2, <1>3, <1>4, <1>5, <1>6, Steps

LEMMA CheckpointInvNext ==
  ASSUME TypeOK, JobInv, CheckpointInv, [Next]_vars
  PROVE  CheckpointInv'
<1> USE LogWatchAssumption
<1>1. CASE Quiet
  <2> SUFFICES ASSUME NEW o \in Shard, checkpoint[o] # None
               PROVE  checkpoint[o].size <= treeSize'[o]
    BY <1>1 DEF Quiet, CheckpointInv
  <2>1. checkpoint[o].size \in Nat /\ treeSize[o] \in Nat /\ checkpoint[o].size <= treeSize[o]
    BY DEF TypeOK, TreeHead, CheckpointInv
  <2> QED
    BY <1>1, <2>1, NextTypeOK DEF Quiet, TypeOK
<1>2. CASE Edit
  BY <1>2 DEF Edit, CreateSubscription, UpdateSubscription, DeleteSubscription,
              CheckpointInv, logVars, obsVars
<1>3. CASE LoadIteration \/ Search
  BY <1>3 DEF LoadIteration, Search, CheckpointInv, logVars, dbVars, obsVars
<1>4. ASSUME NEW o \in Shard, LoadAndVerify(o) PROVE CheckpointInv'
  BY <1>4 DEF LoadAndVerify, CheckpointInv, logVars, dbVars, obsButFaults
<1>5. CASE Commit
  <2>1. /\ pc = "commit" /\ UNCHANGED treeSize
        /\ checkpoint' = [checkpoint EXCEPT ![job.origin] = job.head]
        /\ base' = IF job.prev # None THEN base
                   ELSE [base EXCEPT ![job.origin] =
                           IF hasAnyCheckpoint THEN 0 ELSE job.head.size]
    BY <1>5 DEF Commit, logVars
  <2>2. /\ job.origin \in Shard /\ job.head # None /\ job.head.size \in Size
        /\ job.prev = checkpoint[job.origin] /\ job.head.size <= treeSize[job.origin]
    BY <2>1, JobParts DEF JobInv
  <2> QED
    BY <2>1, <2>2, NoneAssumption DEF CheckpointInv, TypeOK
<1> QED
  BY <1>1, <1>2, <1>3, <1>4, <1>5, Steps

LEMMA IdInvNext ==
  ASSUME TypeOK, IdInv, [Next]_vars
  PROVE  IdInv'
<1>1. CASE Quiet
  BY <1>1 DEF Quiet, IdInv
<1>2. CASE Edit
  BY <1>2 DEF Edit, CreateSubscription, UpdateSubscription, DeleteSubscription,
              IdInv, TypeOK, memVars
<1>3. CASE LoadIteration \/ Search \/ Commit
  BY <1>3 DEF LoadIteration, Search, Commit, IdInv, dbVars
<1>4. ASSUME NEW o \in Shard, LoadAndVerify(o) PROVE IdInv'
  BY <1>4 DEF LoadAndVerify, IdInv, dbVars
<1> QED
  BY <1>1, <1>2, <1>3, <1>4, Steps
LEMMA Inductive == Spec => [](TypeOK /\ JobInv /\ CheckpointInv /\ IdInv)
<1>1. Init => TypeOK /\ JobInv /\ CheckpointInv /\ IdInv
  <2>1. Init => JobInv /\ CheckpointInv /\ IdInv
    BY NoneAssumption DEF Init, JobInv, CheckpointInv, IdInv
  <2> QED
    BY <2>1, InitTypeOK
<1>2. TypeOK /\ JobInv /\ CheckpointInv /\ IdInv /\ [Next]_vars
      => (TypeOK /\ JobInv /\ CheckpointInv /\ IdInv)'
  BY NextTypeOK, JobInvNext, CheckpointInvNext, IdInvNext
<1> QED
  BY <1>1, <1>2, PTL DEF Spec

-------------------------------------------------------------------------------
(* The checkpoint *)

LEMMA CommitMovesCheckpoint ==
  ASSUME TypeOK, JobInv, Commit
  PROVE  /\ job.origin \in Shard /\ checkpoint' = [checkpoint EXCEPT ![job.origin] = job.head]
         /\ job.prev = checkpoint[job.origin] /\ job.head # None
         /\ job.prev # None => job.prev.size < job.head.size
BY JobParts DEF Commit, JobInv

(***************************************************************************)
(* A stored checkpoint is replaced only by a larger one of the same        *)
(* history, whatever the log answers and whenever the process crashes.     *)
(***************************************************************************)
THEOREM CheckpointExtends == Spec => CheckpointOnlyExtends
<1> DEFINE Extends ==
      \A o \in Shard :
        checkpoint[o] # None /\ checkpoint'[o] # checkpoint[o] =>
          /\ checkpoint'[o] # None
          /\ checkpoint'[o].size > checkpoint[o].size
          /\ checkpoint[o].size > 0 => checkpoint'[o].fork = checkpoint[o].fork
<1>1. TypeOK /\ JobInv /\ [Next]_vars => [Extends]_vars
  <2> SUFFICES ASSUME TypeOK, JobInv, [Next]_vars PROVE Extends
    OBVIOUS
  <2>1. CASE Commit
    <3> SUFFICES ASSUME NEW o \in Shard, checkpoint[o] # None, checkpoint'[o] # checkpoint[o]
                 PROVE  /\ checkpoint'[o] # None
                        /\ checkpoint'[o].size > checkpoint[o].size
                        /\ checkpoint[o].size > 0 => checkpoint'[o].fork = checkpoint[o].fork
      OBVIOUS
    <3>1. /\ o = job.origin /\ checkpoint'[o] = job.head /\ job.prev = checkpoint[o]
          /\ job.head # None /\ job.prev.size < job.head.size
      BY <2>1, CommitMovesCheckpoint DEF TypeOK
    <3>2. job.prev.size \in Nat /\ job.head.size \in Nat
      BY <2>1, <3>1, JobParts DEF Commit
    <3>3. Consistent(job.prev, job.head)
      BY <2>1 DEF Commit, JobInv
    <3> QED
      BY <3>1, <3>2, <3>3 DEF Consistent
  <2>2. CASE UNCHANGED checkpoint
    BY <2>2
  <2>3. Commit \/ UNCHANGED checkpoint
    BY Steps DEF Quiet, Edit, CreateSubscription, UpdateSubscription, DeleteSubscription,
                 LoadIteration, LoadAndVerify, Search, dbVars
  <2> QED
    BY <2>1, <2>2, <2>3
<1>2. Spec => [][Extends]_vars
  BY <1>1, Inductive, PTL DEF Spec
<1> QED
  BY <1>2 DEF CheckpointOnlyExtends

-------------------------------------------------------------------------------
(* Rows and subscriptions *)

(***************************************************************************)
(* No row outlives its subscription: the foreign key refuses the rows of   *)
(* one deleted since it was listed, the cascade removes the earlier ones.  *)
(***************************************************************************)
THEOREM NoOrphans == Spec => []NoOrphanMatch
<1>1. Init => NoOrphanMatch
  BY DEF Init, NoOrphanMatch
<1>2. TypeOK /\ NoOrphanMatch /\ [Next]_vars => NoOrphanMatch'
  <2> SUFFICES ASSUME TypeOK, NoOrphanMatch, [Next]_vars PROVE NoOrphanMatch'
    OBVIOUS
  <2>1. CASE Quiet
    BY <2>1 DEF Quiet, NoOrphanMatch
  <2>2. CASE Edit
    BY <2>2, NoneAssumption
       DEF Edit, CreateSubscription, UpdateSubscription, DeleteSubscription, NoOrphanMatch, TypeOK, Match
  <2>3. CASE LoadIteration \/ Search
    BY <2>3 DEF LoadIteration, Search, dbVars, NoOrphanMatch
  <2>4. ASSUME NEW o \in Shard, LoadAndVerify(o) PROVE NoOrphanMatch'
    BY <2>4 DEF LoadAndVerify, dbVars, NoOrphanMatch
  <2>5. CASE Commit
    <3>1. \A r \in foundMatches : subs[r.sub] # None
      BY <2>5 DEF Commit
    <3> QED
      BY <2>5, <3>1 DEF Commit, NoOrphanMatch
  <2> QED
    BY <2>1, <2>2, <2>3, <2>4, <2>5, Steps
<1> QED
  BY <1>1, <1>2, TypeCorrect, PTL DEF Spec
\* The rows a transaction adds, all of which stay recorded.
LEMMA CommitRecords ==
  ASSUME TypeOK, Commit
  PROVE  Recorded' = Recorded \cup foundMatches
BY DEF Commit, Recorded, TrimMatches

LEMMA FoundRange ==
  ASSUME TypeOK, pc \in {"search", "commit"}
  PROVE  \A r \in foundMatches :
           /\ r.origin = job.origin /\ r.batch = batch
           /\ r.index \in Nat /\ job.from <= r.index /\ r.index < job.reach
<1>1. job.from \in Nat /\ job.reach \in Nat
  BY JobParts, LogWatchAssumption
<1> QED
  BY <1>1 DEF foundMatches

LEMMA QuietOrRecords ==
  ASSUME TypeOK, [Next]_vars
  PROVE  \/ Commit
         \/ UNCHANGED <<checkpoint, evicted, failedEntries>> /\ matches' \subseteq matches
BY Steps DEF Quiet, Edit, CreateSubscription, UpdateSubscription, DeleteSubscription,
             LoadIteration, LoadAndVerify, Search, dbVars, obsVars, obsButFaults

LEMMA RowInvNext ==
  ASSUME TypeOK, JobInv, RowInv, [Next]_vars
  PROVE  RowInv'
<1> SUFFICES ASSUME ~PrunesBundles,
                    NEW r \in Recorded'
             PROVE  checkpoint'[r.origin] # None /\ r.index < checkpoint'[r.origin].size
  BY DEF RowInv
<1>1. CASE Commit
  <2>1. /\ job.origin \in Shard /\ checkpoint' = [checkpoint EXCEPT ![job.origin] = job.head]
        /\ job.prev = checkpoint[job.origin] /\ job.head # None
        /\ job.prev # None => job.prev.size < job.head.size
    BY <1>1, CommitMovesCheckpoint
  <2>2. job.head.size \in Nat /\ (job.prev # None => job.prev.size \in Nat)
    BY <1>1, JobParts, LogWatchAssumption DEF Commit
  <2>3. CASE r \in foundMatches
    <3>1. r.origin = job.origin /\ r.index < job.reach
      BY <1>1, <2>3, FoundRange DEF Commit
    <3>2. job.reach = job.head.size
      BY <1>1 DEF Commit, JobInv
    <3> QED
      BY <2>1, <3>1, <3>2 DEF TypeOK
  <2>4. CASE r \in Recorded
    <3>1. r.origin \in Shard /\ r.index \in Nat
      BY <2>4, LogWatchAssumption DEF Recorded, TypeOK, Match
    <3>2. checkpoint[r.origin] # None /\ r.index < checkpoint[r.origin].size
      BY <2>4 DEF RowInv
    <3> QED
      BY <2>1, <2>2, <3>1, <3>2 DEF TypeOK
  <2> QED
    BY <1>1, <2>3, <2>4, CommitRecords
<1>2. CASE UNCHANGED <<checkpoint, evicted>> /\ matches' \subseteq matches
  BY <1>2 DEF Recorded, RowInv
<1> QED
  BY <1>1, <1>2, QuietOrRecords

(***************************************************************************)
(* Where partial bundles are kept, an entry is recorded at most once for a *)
(* subscription: every transaction starts where the last one of its shard  *)
(* ended, and one that fails leaves nothing.                               *)
(***************************************************************************)
THEOREM NoDuplicates == Spec => [](~PrunesBundles => NoDuplicateMatch)
<1>1. Init => RowInv /\ NoDuplicateMatch
  BY DEF Init, RowInv, NoDuplicateMatch, Recorded
<1>2. TypeOK /\ JobInv /\ RowInv /\ (~PrunesBundles => NoDuplicateMatch) /\ [Next]_vars
      => (~PrunesBundles => NoDuplicateMatch)'
  <2> SUFFICES ASSUME ~PrunesBundles, TypeOK, JobInv, RowInv, NoDuplicateMatch, [Next]_vars,
                      NEW q \in Recorded', NEW r \in Recorded',
                      q.origin = r.origin /\ q.index = r.index /\ q.sub = r.sub
               PROVE  q.batch = r.batch
    BY DEF NoDuplicateMatch
  <2>1. CASE Commit
    <3>1. ASSUME NEW x \in Recorded, NEW y \in foundMatches, x.origin = y.origin
          PROVE  x.index # y.index
      <4>1. checkpoint[x.origin] # None /\ x.index < checkpoint[x.origin].size
        BY DEF RowInv
      <4>2. y.origin = job.origin /\ job.from <= y.index /\ y.index \in Nat
        BY <2>1, FoundRange DEF Commit
      <4>3. job.prev = checkpoint[x.origin] /\ job.prev # None /\ job.prev.size < job.head.size
        BY <2>1, <3>1, <4>1, <4>2 DEF Commit, JobInv
      <4>4. job.from = job.prev.size \/ job.from = job.head.size
        BY <2>1, <4>3 DEF Commit, JobInv, DecideSearchRange
      <4>5. job.prev.size \in Nat /\ job.head.size \in Nat
        BY <2>1, <4>3, JobParts, LogWatchAssumption DEF Commit
      <4>6. x.index \in Nat
        BY LogWatchAssumption DEF Recorded, TypeOK, Match
      <4> QED
        BY <4>1, <4>2, <4>3, <4>4, <4>5, <4>6
    <3>2. ASSUME NEW x \in foundMatches PROVE x.batch = batch
      BY <2>1, FoundRange DEF Commit
    <3> QED
      BY <2>1, <3>1, <3>2, CommitRecords DEF NoDuplicateMatch
  <2>2. CASE UNCHANGED evicted /\ matches' \subseteq matches
    BY <2>2 DEF Recorded, NoDuplicateMatch
  <2> QED
    BY <2>1, <2>2, QuietOrRecords
<1> QED
  BY <1>1, <1>2, RowInvNext, Inductive, PTL DEF Spec
-------------------------------------------------------------------------------
(* Nothing is missed *)

(***************************************************************************)
(* What a commit of shard o owes a listed subscription: the entries it had *)
(* already passed, and those of its own range.                             *)
(***************************************************************************)
LEMMA CommitOwes ==
  ASSUME TypeOK, JobInv, CheckpointInv, Commit,
         NEW o \in Shard, NEW s \in SubId, NEW i \in Index,
         Listed(o, i, s)'
  PROVE  \/ Listed(o, i, s)
         \/ o = job.origin /\ job.from <= i /\ i < job.reach
<1>1. /\ pc = "commit" /\ UNCHANGED <<subs, snapshot, since>>
      /\ base' = IF job.prev # None THEN base
                 ELSE [base EXCEPT ![job.origin] =
                         IF hasAnyCheckpoint THEN 0 ELSE job.head.size]
  BY DEF Commit
<1>2. /\ job.origin \in Shard /\ checkpoint' = [checkpoint EXCEPT ![job.origin] = job.head]
      /\ job.prev = checkpoint[job.origin] /\ job.head # None
      /\ job.prev # None => job.prev.size < job.head.size
  BY CommitMovesCheckpoint
<1>3. CASE o # job.origin
  <2>1. checkpoint'[o] = checkpoint[o] /\ base'[o] = base[o]
    BY <1>1, <1>2, <1>3 DEF TypeOK
  <2> QED
    BY <1>1, <2>1 DEF Listed
<1>4. CASE o = job.origin
  <2>1. /\ job.head.size \in Nat /\ job.from \in Nat /\ job.reach \in Nat /\ i \in Nat
        /\ job.prev # None => job.prev.size \in Nat
    BY <1>1, JobParts, LogWatchAssumption
  <2>2. checkpoint'[o] = job.head
    BY <1>2, <1>4 DEF TypeOK
  <2>3. i < job.head.size /\ base'[o] <= i
    BY <2>2 DEF Listed
  <2>4. job.head.size <= job.reach
    BY <1>1, <2>1 DEF JobInv
  <2>5. job.from = DecideSearchRange(job.prev, job.head, hasAnyCheckpoint)
    <3>1. snapshot[s] \in monitoredValues
      BY <1>1 DEF Listed, monitoredValues
    <3> QED
      BY <1>1, <3>1 DEF JobInv
  <2>6. CASE job.prev # None
    <3>1. job.from = job.prev.size
      BY <2>5, <2>6 DEF DecideSearchRange
    <3>2. i < job.prev.size => Listed(o, i, s)
      BY <1>1, <1>2, <1>4, <2>3, <2>6 DEF Listed
    <3> QED
      BY <1>4, <2>1, <2>3, <2>4, <2>6, <3>1, <3>2
  <2>7. CASE job.prev = None
    <3>1. base'[o] = IF hasAnyCheckpoint THEN 0 ELSE job.head.size
      BY <1>1, <1>2, <1>4, <2>7 DEF TypeOK
    <3>2. hasAnyCheckpoint
      BY <2>1, <2>3, <3>1
    <3>3. job.from = 0
      BY <2>5, <2>7, <3>2 DEF DecideSearchRange
    <3> QED
      BY <1>4, <2>1, <2>3, <2>4, <3>3
  <2> QED
    BY <2>6, <2>7
<1> QED
  BY <1>3, <1>4

\* Whoever a step newly owes something has been owed it before, unless it commits.
LEMMA OtherStepsOwe ==
  ASSUME TypeOK, CheckpointInv, IdInv, [Next]_vars, ~Commit,
         NEW o \in Shard, NEW s \in SubId, NEW i \in Index,
         Listed(o, i, s)'
  PROVE  Listed(o, i, s) /\ snapshot'[s] = snapshot[s]
<1>1. CASE Quiet
  BY <1>1 DEF Quiet, Listed
<1>2. CASE Edit
  <2>1. UNCHANGED <<checkpoint, base, snapshot, since>>
    BY <1>2 DEF Edit, CreateSubscription, UpdateSubscription, DeleteSubscription, memVars, obsVars
  <2>2. subs[s] # None
    <3>1. s \in usedIds
      BY <2>1 DEF Listed, IdInv
    <3> QED
      BY <1>2, <3>1 DEF Edit, CreateSubscription, UpdateSubscription, DeleteSubscription,
                        Listed, TypeOK
  <2> QED
    BY <2>1, <2>2 DEF Listed
<1>3. CASE LoadIteration
  <2>1. /\ UNCHANGED <<checkpoint, base, subs>> /\ snapshot' = subs
        /\ since'[s] = IF subs[s] # None /\ subs[s] # snapshot[s] THEN treeSize ELSE since[s]
    BY <1>3 DEF LoadIteration, dbVars
  <2>2. subs[s] # None
    BY <2>1 DEF Listed
  <2>3. CASE subs[s] = snapshot[s]
    BY <2>1, <2>2, <2>3 DEF Listed
  <2>4. CASE subs[s] # snapshot[s]
    <3>1. checkpoint[o] # None /\ treeSize[o] <= i /\ i < checkpoint[o].size
      BY <2>1, <2>2, <2>4 DEF Listed
    <3>2. checkpoint[o].size <= treeSize[o]
      BY <3>1 DEF CheckpointInv
    <3>3. checkpoint[o].size \in Nat /\ treeSize[o] \in Nat /\ i \in Nat
      BY <3>1, LogWatchAssumption DEF TypeOK, TreeHead
    <3> QED
      BY <3>1, <3>2, <3>3
  <2> QED
    BY <2>3, <2>4
<1>4. CASE Search
  BY <1>4 DEF Search, Listed, dbVars, obsVars
<1>5. ASSUME NEW x \in Shard, LoadAndVerify(x)
      PROVE  Listed(o, i, s) /\ snapshot'[s] = snapshot[s]
  BY <1>5 DEF LoadAndVerify, Listed, dbVars, obsButFaults
<1> QED
  BY <1>1, <1>2, <1>3, <1>4, <1>5, Steps

\* Only deleting a subscription takes rows away, and only its own.
LEMMA RowsStay ==
  ASSUME TypeOK, [Next]_vars, NEW s \in SubId, subs'[s] # None
  PROVE  /\ \A r \in Recorded : r.sub = s => r \in Recorded'
         /\ failedEntries \subseteq failedEntries'
<1>1. CASE Commit
  BY <1>1, CommitRecords DEF Commit
<1>2. CASE Edit
  BY <1>2 DEF Edit, CreateSubscription, UpdateSubscription, DeleteSubscription, Recorded,
              obsVars, TypeOK
<1>3. CASE UNCHANGED <<matches, evicted, failedEntries>>
  BY <1>3 DEF Recorded
<1>4. Commit \/ Edit \/ UNCHANGED <<matches, evicted, failedEntries>>
  BY Steps DEF Quiet, LoadIteration, LoadAndVerify, Search, dbVars, obsVars, obsButFaults
<1> QED
  BY <1>1, <1>2, <1>3, <1>4

LEMMA MatchInvNext ==
  ASSUME TypeOK, JobInv, CheckpointInv, IdInv, MatchInv, [Next]_vars
  PROVE  MatchInv'
<1> SUFFICES ASSUME NEW o \in Shard, NEW s \in SubId, NEW i \in Index,
                    Listed(o, i, s)', i \notin Unparsed[o], snapshot'[s] \in Hits[o][i]
             PROVE  \E r \in Recorded' : r.origin = o /\ r.index = i /\ r.sub = s
  BY DEF MatchInv
<1>1. snapshot'[s] = snapshot[s]
  BY OtherStepsOwe DEF Commit
<1>2. CASE Listed(o, i, s)
  <2>1. PICK r \in Recorded : r.origin = o /\ r.index = i /\ r.sub = s
    BY <1>1, <1>2 DEF MatchInv
  <2> QED
    BY <2>1, RowsStay DEF Listed
<1>3. CASE Commit /\ o = job.origin /\ job.from <= i /\ i < job.reach
  <2> DEFINE r == [origin |-> o, index |-> i, sub |-> s, batch |-> batch]
  <2>1. i \in job.from .. job.reach - 1
    BY <1>3, JobParts, LogWatchAssumption DEF Commit
  <2>2. r \in foundMatches
    <3> DEFINE p == <<i, s>>
    <3>1. /\ p \in (job.from .. job.reach - 1) \X SubId
          /\ p[1] \notin Unparsed[job.origin] /\ snapshot[p[2]] \in Hits[job.origin][p[1]]
      BY <1>1, <1>3, <2>1
    <3>2. r = [origin |-> job.origin, index |-> p[1], sub |-> p[2], batch |-> batch]
      BY <1>3
    <3> HIDE DEF p
    <3> QED
      BY <3>1, <3>2 DEF foundMatches
  <2> QED
    BY <1>3, <2>2, CommitRecords
<1> QED
  BY <1>2, <1>3, OtherStepsOwe, CommitOwes

LEMMA FailureInvNext ==
  ASSUME TypeOK, JobInv, CheckpointInv, IdInv, FailureInv, [Next]_vars
  PROVE  FailureInv'
<1> SUFFICES ASSUME NEW o \in Shard, NEW s \in SubId, NEW i \in Index,
                    Listed(o, i, s)', i \in Unparsed[o]
             PROVE  \E f \in failedEntries' : f.origin = o /\ f.index = i
  BY DEF FailureInv
<1>1. CASE Listed(o, i, s)
  <2>1. PICK f \in failedEntries : f.origin = o /\ f.index = i
    BY <1>1 DEF FailureInv
  <2> QED
    BY <2>1, RowsStay DEF Listed
<1>2. CASE Commit /\ o = job.origin /\ job.from <= i /\ i < job.reach
  <2> DEFINE f == [origin |-> o, index |-> i, batch |-> batch]
  <2>1. i \in job.from .. job.reach - 1
    BY <1>2, JobParts, LogWatchAssumption DEF Commit
  <2>2. f \in foundFailures
    BY <1>2, <2>1 DEF foundFailures
  <2> QED
    BY <1>2, <2>2 DEF Commit
<1> QED
  BY <1>1, <1>2, OtherStepsOwe, CommitOwes
LEMMA NothingMissed == Spec => [](TypeOK /\ MatchInv /\ FailureInv)
<1>1. Init => MatchInv /\ FailureInv
  BY DEF Init, MatchInv, FailureInv, Listed
<1> QED
  BY <1>1, MatchInvNext, FailureInvNext, Inductive, PTL DEF Spec

(***************************************************************************)
(* Every subscription that watched an entry has the row for it once the    *)
(* checkpoint is past the entry.                                           *)
(***************************************************************************)
THEOREM NoMatchMissed == Spec => []NoMissedMatch
<1>1. TypeOK /\ MatchInv => NoMissedMatch
  BY NoneAssumption DEF NoMissedMatch, MatchInv, Watched, Listed, TypeOK
<1> QED
  BY <1>1, NothingMissed, PTL

(***************************************************************************)
(* Every unparseable entry behind the checkpoint that somebody watched for *)
(* is recorded as a failed entry.                                          *)
(***************************************************************************)
THEOREM NoFailureUnrecorded == Spec => []NoUnrecordedFailure
<1>1. TypeOK /\ FailureInv => NoUnrecordedFailure
  BY NoneAssumption DEF NoUnrecordedFailure, FailureInv, Watched, Listed, TypeOK
<1> QED
  BY <1>1, NothingMissed, PTL

-------------------------------------------------------------------------------
(* Retention *)

\* How many rows of S are newer than r.
Rank(S, r) == Cardinality({q \in S : Newer(q, r)})

\* Any two rows of S have an order.
Ordered(S) == \A q, r \in S : q = r \/ Newer(q, r) \/ Newer(r, q)

(***************************************************************************)
(* The rows of an ordered set have the ranks from 0 on, each one once: a   *)
(* newer row has a smaller rank.                                           *)
(***************************************************************************)
LEMMA Ranks ==
  ASSUME NEW S \in SUBSET Match, IsFiniteSet(S)
  PROVE  /\ \A r \in S : Rank(S, r) \in Nat /\ Rank(S, r) < Cardinality(S)
         /\ \A q, r \in S : Newer(q, r) => Rank(S, q) < Rank(S, r)
<1>1. \A r \in S : r.batch \in Nat /\ r.index \in Int
  BY LogWatchAssumption DEF Match
<1>2. ASSUME NEW r \in S
      PROVE  /\ {q \in S : Newer(q, r)} \in SUBSET S /\ r \notin {q \in S : Newer(q, r)}
             /\ IsFiniteSet({q \in S : Newer(q, r)}) /\ Rank(S, r) \in Nat
  <2>1. ~Newer(r, r)
    BY <1>1 DEF Newer
  <2>2. IsFiniteSet({q \in S : Newer(q, r)})
    BY FS_Subset
  <2> QED
    BY <2>1, <2>2, FS_CardinalityType DEF Rank
<1>3. ASSUME NEW r \in S PROVE Rank(S, r) < Cardinality(S)
  <2> DEFINE T == {q \in S : Newer(q, r)}
  <2>1. T \in SUBSET S /\ T # S
    BY <1>2
  <2> HIDE DEF T
  <2>2. Cardinality(T) <= Cardinality(S) /\ Cardinality(T) # Cardinality(S)
    BY <2>1, FS_Subset
  <2>3. Cardinality(S) \in Nat /\ Cardinality(T) \in Nat
    BY <2>1, FS_Subset, FS_CardinalityType
  <2> QED
    BY <2>2, <2>3 DEF Rank, T
<1>4. ASSUME NEW p \in S, NEW r \in S, Newer(p, r) PROVE Rank(S, p) < Rank(S, r)
  <2> DEFINE T == {q \in S : Newer(q, p)}
             U == {q \in S : Newer(q, r)}
  <2>1. T \in SUBSET U
    BY <1>1, <1>4 DEF Newer
  <2>2. p \in U /\ p \notin T /\ IsFiniteSet(U) /\ IsFiniteSet(T)
    BY <1>2, <1>4
  <2>3. Rank(S, p) = Cardinality(T) /\ Rank(S, r) = Cardinality(U)
    BY DEF Rank
  <2> HIDE DEF T, U
  <2>4. Cardinality(T) <= Cardinality(U) /\ Cardinality(T) # Cardinality(U)
    BY <2>1, <2>2, FS_Subset
  <2>5. Cardinality(T) \in Nat /\ Cardinality(U) \in Nat
    BY <2>2, FS_CardinalityType
  <2> QED
    BY <2>3, <2>4, <2>5
<1> QED
  BY <1>2, <1>3, <1>4

(***************************************************************************)
(* The rows of rank below m are at most m, and m if there are so many.     *)
(***************************************************************************)
LEMMA Newest ==
  ASSUME NEW S \in SUBSET Match, IsFiniteSet(S), Ordered(S), NEW m \in Nat \ {0},
         NEW K, K = {r \in S : Rank(S, r) < m}
  PROVE  /\ IsFiniteSet(K) /\ Cardinality(K) \in Nat /\ Cardinality(K) <= m
         /\ Cardinality(S) >= m => Cardinality(K) = m
<1> DEFINE n == Cardinality(S)
           f == [r \in S |-> Rank(S, r)]
           g == [r \in K |-> Rank(S, r)]
<1>1. n \in Nat
  BY FS_CardinalityType
<1>2. IsFiniteSet(0..(n - 1)) /\ Cardinality(0..(n - 1)) = n
  BY <1>1, FS_Interval
<1>3. IsFiniteSet(0..(m - 1)) /\ Cardinality(0..(m - 1)) = m
  BY FS_Interval
<1>4. \A q, r \in S : Rank(S, q) = Rank(S, r) => q = r
  BY Ranks DEF Ordered
<1>5. f \in Injection(S, 0..(n - 1))
  <2>1. f \in [S -> 0..(n - 1)]
    BY <1>1, Ranks
  <2>2. \A q, r \in S : f[q] = f[r] => q = r
    BY <1>4
  <2> QED
    BY <2>1, <2>2, Fun_IsInj
<1>6. g \in [K -> 0..(m - 1)] /\ g \in Injection(K, 0..(m - 1))
  <2>1. g \in [K -> 0..(m - 1)]
    BY Ranks
  <2>2. \A q, r \in K : g[q] = g[r] => q = r
    BY <1>4
  <2> QED
    BY <2>1, <2>2, Fun_IsInj
<1> HIDE DEF f, g
<1>7. /\ IsFiniteSet(K) /\ Cardinality(K) <= m
      /\ g \in Surjection(K, 0..(m - 1)) => Cardinality(K) = m
  BY <1>3, <1>6, FS_Injection
<1>8. ASSUME n >= m PROVE g \in Surjection(K, 0..(m - 1))
  <2>1. f \in Surjection(S, 0..(n - 1))
    BY <1>2, <1>5, FS_Injection DEF n
  <2>2. ASSUME NEW t \in 0..(m - 1) PROVE \E r \in K : g[r] = t
    <3>1. t \in 0..(n - 1)
      BY <1>1, <1>8
    <3>2. PICK r \in S : f[r] = t
      BY <2>1, <3>1 DEF Surjection
    <3>3. Rank(S, r) = t /\ t < m
      BY <3>2 DEF f
    <3> QED
      BY <3>3 DEF g
  <2> QED
    BY <1>6, <2>2, Fun_IsSurj
<1> QED
  BY <1>7, <1>8, FS_CardinalityType

(***************************************************************************)
(* The rows of one transaction are of one shard, so that (batch, index)    *)
(* orders the rows of a subscription, and no row is of a later transaction *)
(* or of a subscription that does not exist yet.                           *)
(***************************************************************************)
RowOrderInv ==
  /\ \A r \in Recorded : r.batch < batch /\ r.sub \in usedIds
  /\ \A q, r \in Recorded : q.batch = r.batch => q.origin = r.origin

Kept(s) == {r \in matches : r.sub = s}
Gone(s) == {r \in evicted : r.sub = s}

\* NewestRetained of one subscription, whose rows are finitely many.
Retained(s) ==
  /\ IsFiniteSet(Kept(s)) /\ Cardinality(Kept(s)) <= MaxMatches
  /\ \A r \in Kept(s), g \in Gone(s) : Newer(r, g)
  /\ Gone(s) # {} /\ subs[s] # None => Cardinality(Kept(s)) = MaxMatches

LEMMA RowOrderInvNext ==
  ASSUME TypeOK, IdInv, RowOrderInv, [Next]_vars
  PROVE  RowOrderInv'
<1>1. CASE Commit
  <2>1. /\ pc = "commit" /\ batch' = batch + 1 /\ usedIds' = usedIds /\ batch \in Nat
        /\ \A r \in foundMatches : subs[r.sub] # None /\ r.sub \in SubId
    BY <1>1, JobParts, FoundTypeOK DEF Commit, TypeOK, Match
  <2>2. \A r \in foundMatches : r.origin = job.origin /\ r.batch = batch /\ r.sub \in usedIds
    BY <2>1, FoundRange DEF IdInv
  <2>3. \A r \in Recorded : r.batch \in Nat
    BY DEF Recorded, TypeOK, Match
  <2>4. Recorded' = Recorded \cup foundMatches
    BY <1>1, CommitRecords
  <2>5. \A r \in Recorded' : r.batch < batch' /\ r.sub \in usedIds'
    BY <2>1, <2>2, <2>3, <2>4 DEF RowOrderInv
  <2>6. ASSUME NEW q \in Recorded', NEW r \in Recorded', q.batch = r.batch PROVE q.origin = r.origin
    BY <2>1, <2>2, <2>3, <2>4, <2>6 DEF RowOrderInv
  <2> QED
    BY <2>5, <2>6 DEF RowOrderInv
<1>2. CASE /\ UNCHANGED <<evicted, batch>> /\ matches' \subseteq matches
           /\ usedIds \subseteq usedIds'
  BY <1>2 DEF Recorded, RowOrderInv
<1>3. \/ Commit
      \/ UNCHANGED <<evicted, batch>> /\ matches' \subseteq matches /\ usedIds \subseteq usedIds'
  BY Steps DEF Quiet, Edit, CreateSubscription, UpdateSubscription, DeleteSubscription,
               LoadIteration, LoadAndVerify, Search, dbVars, obsVars, obsButFaults
<1> QED
  BY <1>1, <1>2, <1>3

\* The rows that a commit finds for one subscription are finitely many, and newer than all others.
LEMMA FoundRows ==
  ASSUME TypeOK, RowOrderInv, Commit, NEW s \in SubId
  PROVE  /\ IsFiniteSet({r \in foundMatches : r.sub = s})
         /\ \A r \in foundMatches, q \in Recorded : Newer(r, q)
<1>1. /\ job \in Job /\ job.from \in Int /\ job.reach \in Int
      /\ foundMatches \in SUBSET Match
  BY JobParts, FoundTypeOK, LogWatchAssumption DEF Commit
<1> DEFINE F == {r \in foundMatches : r.sub = s}
           I == job.from .. (job.reach - 1)
           h == [r \in F |-> r.index]
<1>2. \A r \in foundMatches : r.origin = job.origin /\ r.batch = batch /\ r.index \in I
  BY <1>1 DEF foundMatches
<1>3. \A q, r \in F : q.index = r.index => q = r
  BY <1>1, <1>2 DEF Match
<1>4. h \in Injection(F, I)
  <2>1. h \in [F -> I]
    BY <1>2
  <2>2. \A q, r \in F : h[q] = h[r] => q = r
    BY <1>3
  <2> QED
    BY <2>1, <2>2, Fun_IsInj
<1>5. IsFiniteSet(F)
  <2>1. IsFiniteSet(I)
    BY <1>1, FS_Interval
  <2> QED
    BY <1>4, <2>1, FS_Injection
<1>6. \A r \in foundMatches, q \in Recorded : Newer(r, q)
  <2>1. batch \in Nat /\ \A q \in Recorded : q.batch \in Nat /\ q.batch < batch
    BY DEF TypeOK, RowOrderInv, Recorded, Match
  <2> QED
    BY <1>2, <2>1 DEF Newer
<1> QED
  BY <1>5, <1>6

\* The rows of one subscription have an order.
LEMMA RowsOrdered ==
  ASSUME TypeOK, RowOrderInv, NEW s, NEW S \in SUBSET Recorded, \A r \in S : r.sub = s
  PROVE  S \in SUBSET Match /\ Ordered(S)
<1>1. S \in SUBSET Match
  BY DEF TypeOK, Recorded
<1>2. ASSUME NEW q \in S, NEW r \in S PROVE q = r \/ Newer(q, r) \/ Newer(r, q)
  <2>1. q.batch \in Nat /\ r.batch \in Nat /\ q.index \in Int /\ r.index \in Int
    BY <1>1, LogWatchAssumption DEF Match
  <2>2. q.batch = r.batch /\ q.index = r.index => q = r
    BY <1>1 DEF RowOrderInv, Match
  <2> QED
    BY <2>1, <2>2 DEF Newer
<1> QED
  BY <1>1, <1>2 DEF Ordered

(***************************************************************************)
(* TrimMatches leaves the rows of rank below MaxMatches among the old rows *)
(* of the subscription and the new ones.                                   *)
(***************************************************************************)
LEMMA RetainedCommit ==
  ASSUME TypeOK, RowOrderInv, Commit, NEW s \in SubId, Retained(s)
  PROVE  Retained(s)'
<1> DEFINE inserted == matches \cup foundMatches
           affected == {r.sub : r \in foundMatches}
           found == {r \in foundMatches : r.sub = s}
           S == {r \in inserted : r.sub = s}
<1>1. /\ matches' = inserted \ TrimMatches(inserted, affected)
      /\ evicted' = evicted \cup TrimMatches(inserted, affected) /\ subs' = subs
  BY DEF Commit
<1>2. S = Kept(s) \cup found
  BY DEF Kept
<1>3. CASE s \notin affected
  <2>1. found = {}
    BY <1>3
  <2>2. Kept(s)' = Kept(s) /\ Gone(s)' = Gone(s)
    <3>1. \A r \in TrimMatches(inserted, affected) : r.sub # s
      BY <1>3 DEF TrimMatches
    <3> QED
      BY <1>1, <2>1, <3>1 DEF Kept, Gone
  <2> QED
    BY <1>1, <2>2 DEF Retained
<1>4. CASE s \in affected
  <2>1. IsFiniteSet(S)
    <3>1. IsFiniteSet(Kept(s)) /\ IsFiniteSet(found)
      BY FoundRows DEF Retained
    <3> HIDE DEF S, found
    <3> QED
      BY <1>2, <3>1, FS_Union
  <2>2. S \in SUBSET Match /\ Ordered(S)
    <3>1. S \in SUBSET Recorded' /\ \A r \in S : r.sub = s
      BY CommitRecords DEF Recorded
    <3>2. foundMatches \in SUBSET Match
      BY FoundTypeOK, JobParts DEF Commit
    <3>3. \A q, r \in S : q = r \/ Newer(q, r) \/ Newer(r, q)
      <4>1. ASSUME NEW q \in Kept(s), NEW r \in Kept(s) PROVE q = r \/ Newer(q, r) \/ Newer(r, q)
        <5>1. Kept(s) \in SUBSET Recorded /\ \A x \in Kept(s) : x.sub = s
          BY DEF Kept, Recorded
        <5> QED
          BY <5>1, RowsOrdered DEF Ordered
      <4>2. ASSUME NEW q \in found, NEW r \in Kept(s) PROVE Newer(q, r)
        BY FoundRows DEF Kept, Recorded
      <4>3. ASSUME NEW q \in found, NEW r \in found PROVE q = r \/ Newer(q, r) \/ Newer(r, q)
        <5>1. /\ q.origin = r.origin /\ q.batch = r.batch /\ q.sub = r.sub /\ q.batch \in Int
              /\ q.index \in Int /\ r.index \in Int
          BY FoundRange DEF Commit, TypeOK
        <5>2. q.index = r.index => q = r
          BY <3>2, <5>1 DEF Match
        <5> QED
          BY <5>1, <5>2 DEF Newer
      <4> QED
        BY <1>2, <4>1, <4>2, <4>3
    <3> QED
      BY <3>2, <3>3 DEF TypeOK, Ordered
  <2> DEFINE K == {r \in S : Rank(S, r) < MaxMatches}
  <2>3. \A r \in S : {q \in inserted : q.sub = r.sub /\ Newer(q, r)} = {q \in S : Newer(q, r)}
    OBVIOUS
  <2>4. \A r \in S : r \in TrimMatches(inserted, affected) <=> Rank(S, r) >= MaxMatches
    BY <1>4, <2>3 DEF TrimMatches, Rank
  <2>5. \A r \in S : Rank(S, r) \in Nat
    BY <2>1, <2>2, Ranks
  <2>6. Kept(s)' = K /\ Gone(s)' = Gone(s) \cup (S \ K)
    <3>1. Kept(s)' = S \ TrimMatches(inserted, affected)
      BY <1>1 DEF Kept
    <3>2. Gone(s)' = Gone(s) \cup (S \cap TrimMatches(inserted, affected))
      BY <1>1 DEF Gone, TrimMatches
    <3>3. \A r \in S : r \in K <=> r \notin TrimMatches(inserted, affected)
      <4>1. MaxMatches \in Nat
        BY LogWatchAssumption
      <4>2. ASSUME NEW r \in S PROVE r \in K <=> r \notin TrimMatches(inserted, affected)
        <5>1. r \in TrimMatches(inserted, affected) <=> Rank(S, r) >= MaxMatches
          BY <2>4
        <5>2. Rank(S, r) \in Nat
          BY <2>5
        <5>3. r \in K <=> Rank(S, r) < MaxMatches
          OBVIOUS
        <5> HIDE DEF S, K, inserted, affected
        <5> QED
          BY <4>1, <5>1, <5>2, <5>3
      <4> QED
        BY <4>2
    <3> QED
      BY <3>1, <3>2, <3>3
  <2>7. /\ IsFiniteSet(K) /\ Cardinality(K) \in Nat /\ Cardinality(K) <= MaxMatches
        /\ Cardinality(S) >= MaxMatches => Cardinality(K) = MaxMatches
    <3> HIDE DEF S
    <3> QED
      BY <2>1, <2>2, LogWatchAssumption, Newest
  <2>8. ASSUME NEW r \in K, NEW g \in Gone(s) \cup (S \ K) PROVE Newer(r, g)
    <3>1. CASE g \in Gone(s)
      <4>1. r \in found => Newer(r, g)
        BY <3>1, FoundRows DEF Gone, Recorded
      <4> QED
        BY <1>2, <3>1, <4>1 DEF Retained
    <3>2. CASE g \in S \ K
      <4>1. Rank(S, r) < MaxMatches /\ ~(Rank(S, g) < MaxMatches)
        BY <3>2
      <4>2. ~Newer(g, r)
        <5> HIDE DEF S
        <5> QED
          BY <2>1, <2>2, <2>5, <3>2, <4>1, Ranks, LogWatchAssumption
      <4> QED
        BY <2>2, <3>2, <4>1, <4>2 DEF Ordered
    <3> QED
      BY <3>1, <3>2
  <2>9. ASSUME Gone(s) \cup (S \ K) # {}, subs[s] # None PROVE Cardinality(S) >= MaxMatches
    <3>1. Cardinality(S) \in Nat
      BY <2>1, FS_CardinalityType
    <3>2. CASE Gone(s) # {}
      <4>1. Cardinality(Kept(s)) = MaxMatches /\ Kept(s) \in SUBSET S
        BY <1>2, <2>9, <3>2 DEF Retained
      <4> HIDE DEF S
      <4> QED
        BY <2>1, <4>1, FS_Subset
    <3>3. CASE S \ K # {}
      <4>1. PICK g \in S : ~(Rank(S, g) < MaxMatches)
        BY <3>3
      <4> HIDE DEF S
      <4> QED
        BY <2>1, <2>2, <3>1, <4>1, Ranks, LogWatchAssumption
    <3> QED
      BY <2>9, <3>2, <3>3
  <2> HIDE DEF S, K
  <2> QED
    BY <1>1, <2>6, <2>7, <2>8, <2>9 DEF Retained
<1> QED
  BY <1>3, <1>4

LEMMA RetainedNext ==
  ASSUME TypeOK, RowOrderInv, [Next]_vars, NEW s \in SubId, Retained(s)
  PROVE  Retained(s)'
<1>1. CASE Commit
  BY <1>1, RetainedCommit
<1>2. CASE UNCHANGED <<matches, evicted, subs>>
  BY <1>2 DEF Retained, Kept, Gone
<1>3. ASSUME NEW x \in SubId, NEW v \in Value, CreateSubscription(x, v) PROVE Retained(s)'
  <2>1. UNCHANGED <<Kept(s), Gone(s)>> /\ x \notin usedIds /\ subs' = [subs EXCEPT ![x] = v]
    BY <1>3 DEF CreateSubscription, Kept, Gone, obsVars
  <2>2. Gone(s) # {} => subs'[s] = subs[s]
    BY <2>1 DEF RowOrderInv, Recorded, Gone, TypeOK
  <2> QED
    BY <2>1, <2>2 DEF Retained
<1>4. ASSUME NEW x \in SubId, NEW v \in Value, UpdateSubscription(x, v) PROVE Retained(s)'
  <2>1. UNCHANGED <<Kept(s), Gone(s)>> /\ subs[x] # None /\ subs' = [subs EXCEPT ![x] = v]
    BY <1>4 DEF UpdateSubscription, Kept, Gone, obsVars
  <2>2. subs'[s] # None => subs[s] # None
    BY <2>1 DEF TypeOK
  <2> QED
    BY <2>1, <2>2 DEF Retained
<1>5. ASSUME NEW x \in SubId, DeleteSubscription(x) PROVE Retained(s)'
  <2>1. /\ Gone(s)' = Gone(s) /\ subs' = [subs EXCEPT ![x] = None]
        /\ matches' = {r \in matches : r.sub # x}
    BY <1>5 DEF DeleteSubscription, Gone, obsVars
  <2>2. CASE x = s
    <3>1. Kept(s)' = {} /\ subs'[s] = None
      BY <2>1, <2>2 DEF Kept, TypeOK
    <3> QED
      BY <3>1, FS_EmptySet, LogWatchAssumption DEF Retained
  <2>3. CASE x # s
    <3>1. Kept(s)' = Kept(s) /\ subs'[s] = subs[s]
      BY <2>1, <2>3 DEF Kept, TypeOK
    <3> QED
      BY <2>1, <3>1 DEF Retained
  <2> QED
    BY <2>2, <2>3
<1>6. Commit \/ Edit \/ UNCHANGED <<matches, evicted, subs>>
  BY Steps DEF Quiet, LoadIteration, LoadAndVerify, Search, dbVars, obsVars, obsButFaults
<1> QED
  BY <1>1, <1>2, <1>3, <1>4, <1>5, <1>6 DEF Edit

(***************************************************************************)
(* Every subscription keeps its newest rows and no more than MaxMatches of *)
(* them, and loses none before it has that many, for any MaxMatches and    *)
(* any number of rows, however its edits and its deletion fall between the *)
(* transactions of the loop.                                               *)
(***************************************************************************)
THEOREM NewestRowsRetained == Spec => []NewestRetained
<1> DEFINE AllRetained == \A s \in SubId : Retained(s)
<1>1. Init => RowOrderInv /\ AllRetained
  <2> SUFFICES ASSUME Init PROVE RowOrderInv /\ AllRetained
    OBVIOUS
  <2>1. RowOrderInv
    BY DEF Init, RowOrderInv, Recorded
  <2>2. ASSUME NEW s \in SubId PROVE Retained(s)
    <3>1. Kept(s) = {} /\ Gone(s) = {}
      BY DEF Init, Kept, Gone
    <3> QED
      BY <3>1, FS_EmptySet, LogWatchAssumption DEF Retained
  <2> QED
    BY <2>1, <2>2
<1>2. TypeOK /\ IdInv /\ RowOrderInv /\ AllRetained /\ [Next]_vars => RowOrderInv' /\ AllRetained'
  BY RowOrderInvNext, RetainedNext
<1>3. AllRetained => NewestRetained
  BY DEF Retained, Kept, Gone, NewestRetained
<1> HIDE DEF AllRetained
<1> QED
  BY <1>1, <1>2, <1>3, Inductive, PTL DEF Spec

-------------------------------------------------------------------------------
(* The first deployment of a single shard *)

Founded(o) == firstDeploy[o] # None

(***************************************************************************)
(* No shard is searched before its size at the first deployment is known,  *)
(* nor from an index below it: its first search starts at the end, since   *)
(* only its own checkpoint could be mistaken for that of another shard.    *)
(***************************************************************************)
Deployed ==
  /\ \A o \in Shard : Founded(o) => firstDeploy[o] <= treeSize[o]
  /\ \A o \in Shard : checkpoint[o] # None => Founded(o) /\ checkpoint[o].size >= firstDeploy[o]
  /\ \A o \in todo : Founded(o)
  /\ hasAnyCheckpoint => \E o \in Shard : checkpoint[o] # None
  /\ job # None =>
       /\ Founded(job.origin)
       /\ job.from >= firstDeploy[job.origin] /\ job.head.size >= firstDeploy[job.origin]
  /\ \A r \in Recorded : Founded(r.origin) /\ r.index >= firstDeploy[r.origin]

SingleShard == (\A o, p \in Shard : o = p) /\ ~StaleReads

\* What no step but those of an iteration that succeed does.
DeployQuiet ==
  /\ UNCHANGED <<checkpoint, firstDeploy>>
  /\ \A o \in Shard : treeSize'[o] >= treeSize[o]
  /\ todo' \subseteq todo /\ (hasAnyCheckpoint' => hasAnyCheckpoint)
  /\ job' = job \/ job' = None
  /\ Recorded' \subseteq Recorded

LEMMA DeploySteps ==
  ASSUME TypeOK, [Next]_vars
  PROVE  DeployQuiet \/ LoadIteration \/ Search \/ Commit \/ \E o \in Shard : LoadAndVerify(o)
<1> USE LogWatchAssumption
<1>0. \A o \in Shard : treeSize[o] \in Nat
  BY DEF TypeOK
<1>1. ASSUME NEW o \in Shard, Grow(o) PROVE DeployQuiet
  BY <1>0, <1>1 DEF Grow, DeployQuiet, Recorded, dbVars, memVars, obsVars, TypeOK
<1>2. ASSUME NEW o \in Shard, Rewrite(o) \/ Reconfigure(o) PROVE DeployQuiet
  BY <1>0, <1>2 DEF Rewrite, Reconfigure, DeployQuiet, Recorded, dbVars, memVars, obsVars
<1>3. CASE Edit
  BY <1>0, <1>3 DEF Edit, CreateSubscription, UpdateSubscription, DeleteSubscription,
                    DeployQuiet, Recorded, logVars, memVars, obsVars
<1>4. CASE StartIteration \/ LoadFails \/ FinishIteration \/ Restart
  BY <1>0, <1>4 DEF StartIteration, LoadFails, FinishIteration, Restart,
                    DeployQuiet, Recorded, logVars, dbVars, obsVars, obsButFaults
<1>5. CASE CommitRejected \/ CommitFails \/ SearchFails \/ SearchAborts
  BY <1>0, <1>5 DEF CommitRejected, CommitFails, SearchFails, SearchAborts,
                    DeployQuiet, Recorded, logVars, dbVars, obsVars, obsButFaults
<1>6. ASSUME NEW o \in Shard, LoadAndVerifyFails(o) PROVE DeployQuiet
  BY <1>0, <1>6 DEF LoadAndVerifyFails, DeployQuiet, Recorded, logVars, dbVars, obsButFaults
<1>7. CASE Crash
  BY <1>0, <1>7 DEF Crash, DeployQuiet, Recorded, logVars, dbVars, obsButFaults
<1>8. CASE UNCHANGED vars
  BY <1>0, <1>8 DEF DeployQuiet, Recorded, vars, logVars, dbVars, memVars, obsVars
<1> QED
  BY <1>1, <1>2, <1>3, <1>4, <1>5, <1>6, <1>7, <1>8 DEF Next, Environment, Monitor, Failure, Edit

LEMMA DeployedNext ==
  ASSUME SingleShard, TypeOK, JobInv, Deployed, [Next]_vars
  PROVE  Deployed'
<1> USE LogWatchAssumption, NoneAssumption
<1>1. /\ TypeOK' /\ \A o \in Shard : treeSize[o] \in Nat /\ treeSize'[o] \in Nat
      /\ \A o \in Shard : Founded(o) => firstDeploy[o] \in Nat
  BY NextTypeOK DEF TypeOK, Founded
<1>2. CASE DeployQuiet
  <2>1. UNCHANGED <<checkpoint, firstDeploy>> /\ \A o \in Shard : Founded(o)' <=> Founded(o)
    BY <1>2 DEF DeployQuiet, Founded
  <2>2. ASSUME NEW o \in Shard, Founded(o) PROVE firstDeploy[o] <= treeSize'[o]
    <3>1. firstDeploy[o] <= treeSize[o] /\ treeSize[o] <= treeSize'[o]
      BY <1>2, <2>2 DEF DeployQuiet, Deployed
    <3> QED
      BY <1>1, <2>2, <3>1
  <2>3. /\ \A o \in todo' : o \in todo /\ o \in Shard
        /\ \A r \in Recorded' : r \in Recorded /\ r.origin \in Shard
        /\ job' # None => job' = job /\ job.origin \in Shard
    BY <1>2 DEF DeployQuiet, TypeOK, Recorded, Match, Job
  <2>4. hasAnyCheckpoint' => hasAnyCheckpoint
    BY <1>2 DEF DeployQuiet
  <2> QED
    BY <2>1, <2>2, <2>3, <2>4 DEF Deployed
<1>3. CASE LoadIteration
  <2>1. /\ UNCHANGED <<treeSize, checkpoint, job, Recorded>> /\ todo' = shards /\ shards \in SUBSET Shard
        /\ hasAnyCheckpoint' = (\E o \in Shard : checkpoint[o] # None)
        /\ firstDeploy' = [o \in Shard |->
                             IF o \in shards /\ ~hasAnyCheckpoint' /\ firstDeploy[o] = None
                             THEN treeSize[o] ELSE firstDeploy[o]]
    BY <1>3 DEF LoadIteration, logVars, dbVars, Recorded, TypeOK
  <2>2. \A o \in Shard : Founded(o) => Founded(o)' /\ firstDeploy'[o] = firstDeploy[o]
    BY <2>1 DEF Founded
  <2>3. ASSUME NEW o \in shards PROVE Founded(o)'
    <3>1. CASE hasAnyCheckpoint'
      <4>1. checkpoint[o] # None
        BY <2>1, <3>1 DEF SingleShard
      <4> QED
        BY <2>1, <2>2, <4>1 DEF Deployed
    <3>2. CASE ~hasAnyCheckpoint'
      <4>1. firstDeploy'[o] = IF firstDeploy[o] = None THEN treeSize[o] ELSE firstDeploy[o]
        BY <2>1, <3>2
      <4> QED
        BY <1>1, <2>1, <4>1 DEF Founded, TypeOK
    <3> QED
      BY <3>1, <3>2
  <2>4. \A o \in Shard : Founded(o)' => firstDeploy'[o] <= treeSize[o]
    <3>1. \A o \in Shard : treeSize[o] <= treeSize[o]
      BY <1>1
    <3> QED
      BY <2>1, <3>1 DEF Deployed, Founded
  <2>5. \A r \in Recorded : r.origin \in Shard
    BY DEF TypeOK, Recorded, Match
  <2>6. job # None => job.origin \in Shard
    BY DEF TypeOK, Job
  <2> QED
    BY <2>1, <2>2, <2>3, <2>4, <2>5, <2>6 DEF Deployed
<1>4. ASSUME NEW o \in Shard, LoadAndVerify(o) PROVE Deployed'
  <2>1. /\ UNCHANGED <<treeSize, checkpoint, hasAnyCheckpoint, firstDeploy, Recorded>>
        /\ o \in todo /\ todo' = todo \ {o}
    BY <1>4 DEF LoadAndVerify, logVars, dbVars, obsButFaults, Recorded
  <2>2. PICK n \in Size : LoadAndVerify(o)!3!(n)
    BY <1>4 DEF LoadAndVerify
  <2>3. n = treeSize[o] /\ Founded(o) /\ firstDeploy[o] <= n /\ n \in Nat
    BY <1>1, <2>1, <2>2 DEF SingleShard, Deployed
  <2> DEFINE head == [size |-> n, fork |-> fork[o]]
             from == DecideSearchRange(checkpoint[o], head, hasAnyCheckpoint)
  <2>4. from >= firstDeploy[o]
    <3>1. CASE checkpoint[o] # None
      BY <3>1 DEF Deployed, DecideSearchRange
    <3>2. CASE checkpoint[o] = None
      <4>1. ~hasAnyCheckpoint
        BY <3>2 DEF Deployed, SingleShard
      <4>2. from = n
        BY <3>2, <4>1 DEF DecideSearchRange
      <4> QED
        BY <1>1, <2>3, <4>2
    <3> QED
      BY <3>1, <3>2
  <2>5. \/ job' = job
        \/ job' = [origin |-> o, prev |-> checkpoint[o], head |-> head, from |-> from, reach |-> n]
    BY <2>2
  <2> HIDE DEF from
  <2>6. job' # job => job'.origin = o /\ job'.from = from /\ job'.head.size = n
    BY <2>5
  <2>7. job' # None => /\ Founded(job'.origin)
                       /\ job'.from >= firstDeploy[job'.origin] /\ job'.head.size >= firstDeploy[job'.origin]
    <3>1. n >= firstDeploy[o]
      BY <1>1, <2>3
    <3> QED
      BY <2>3, <2>4, <2>6, <3>1 DEF Deployed
  <2> QED
    BY <2>1, <2>7 DEF Deployed, Founded
<1>5. CASE Search
  <2>1. /\ UNCHANGED <<treeSize, checkpoint, hasAnyCheckpoint, todo, firstDeploy, Recorded>> /\ job \in Job
        /\ \/ UNCHANGED job
           \/ job' = [job EXCEPT !.reach = lastTileEnd]
           \/ job' = [job EXCEPT !.from = job.head.size]
    BY <1>5, JobParts DEF Search, logVars, dbVars, obsVars, Recorded
  <2>2. job # None
    BY <2>1 DEF Job
  <2>3. job'.origin = job.origin /\ job'.head = job.head /\ job'.from \in {job.from, job.head.size}
    BY <2>1 DEF Job
  <2> QED
    BY <2>1, <2>2, <2>3 DEF Deployed, Founded
<1>6. CASE Commit
  <2>1. /\ pc = "commit" /\ job' = None /\ UNCHANGED <<treeSize, hasAnyCheckpoint, todo, firstDeploy>>
        /\ job.origin \in Shard /\ checkpoint' = [checkpoint EXCEPT ![job.origin] = job.head]
        /\ job # None /\ job.head # None
    BY <1>6, JobParts, CommitMovesCheckpoint DEF Commit, logVars, Job
  <2>2. \A r \in foundMatches : r.origin = job.origin /\ r.index \in Nat /\ r.index >= job.from
    BY <2>1, FoundRange, JobParts
  <2>3. /\ Founded(job.origin) /\ job.from \in Nat /\ firstDeploy[job.origin] \in Nat
        /\ job.from >= firstDeploy[job.origin] /\ job.head.size >= firstDeploy[job.origin]
    BY <1>1, <2>1, JobParts DEF Deployed
  <2>4. \A r \in Recorded' : Founded(r.origin) /\ r.index >= firstDeploy[r.origin]
    <3>1. \A r \in foundMatches : Founded(r.origin) /\ r.index >= firstDeploy[r.origin]
      BY <2>2, <2>3
    <3> QED
      BY <1>6, <3>1, CommitRecords DEF Deployed
  <2>5. \A o \in Shard : checkpoint'[o] = IF o = job.origin THEN job.head ELSE checkpoint[o]
    BY <2>1 DEF TypeOK
  <2> QED
    BY <2>1, <2>3, <2>4, <2>5 DEF Deployed, Founded
<1> QED
  BY <1>2, <1>3, <1>4, <1>5, <1>6, DeploySteps

(***************************************************************************)
(* A first deployment over one shard whose log shows no outdated head goes *)
(* forward only, whatever fails and stops: hasAnyCheckpoint errs only when *)
(* another shard has committed before (run LogWatchFirstDeploy).           *)
(***************************************************************************)
THEOREM SingleShardForwardOnly == Spec => [](SingleShard => FirstDeployForwardOnly)
<1>1. Init => Deployed
  BY NoneAssumption DEF Init, Deployed, Founded, Recorded
<1>2. TypeOK /\ JobInv /\ (SingleShard => Deployed) /\ [Next]_vars => (SingleShard => Deployed)'
  BY DeployedNext DEF SingleShard
<1>3. (SingleShard => Deployed) => (SingleShard => FirstDeployForwardOnly)
  BY DEF Deployed, Founded, FirstDeployForwardOnly
<1> QED
  BY <1>1, <1>2, <1>3, Inductive, PTL DEF Spec

-------------------------------------------------------------------------------
(* LogWatch implements MatchFeed, step by step *)

cursor == [o \in Shard |-> IF checkpoint[o] = None THEN None ELSE checkpoint[o].size]
delivered == {[origin |-> r.origin, index |-> r.index, sub |-> r.sub] : r \in Recorded}
failures == {[origin |-> f.origin, index |-> f.index] : f \in failedEntries}

LEMMA FeedInit == Init => Feed!Init
BY DEF Init, Feed!Init, Recorded

\* An edit of the subscriptions is one of the feed.
LEMMA FeedEdit ==
  ASSUME TypeOK, Edit
  PROVE  Feed!Next
<1>1. UNCHANGED <<snapshot, checkpoint, evicted, failedEntries>>
  BY DEF Edit, CreateSubscription, UpdateSubscription, DeleteSubscription, memVars, obsVars
<1>2. ASSUME NEW s \in SubId, NEW v \in Value,
             CreateSubscription(s, v) \/ UpdateSubscription(s, v)
      PROVE  Feed!Subscribe(s, v)
  BY <1>1, <1>2 DEF CreateSubscription, UpdateSubscription, Feed!Subscribe, Recorded
<1>3. ASSUME NEW s \in SubId, DeleteSubscription(s)
      PROVE  Feed!Unsubscribe(s)
  <2>1. subs' = [subs EXCEPT ![s] = None] /\ matches' = {r \in matches : r.sub # s}
    BY <1>3 DEF DeleteSubscription
  <2>2. Recorded' \subseteq Recorded /\ \A r \in Recorded \ Recorded' : r.sub = s
    BY <1>1, <2>1 DEF Recorded
  <2>3. delivered' \subseteq delivered /\ \A d \in delivered \ delivered' : d.sub = s
    BY <2>2 DEF delivered
  <2> QED
    BY <1>1, <2>1, <2>3 DEF Feed!Unsubscribe, delivered
<1> QED
  BY <1>2, <1>3 DEF Edit, Feed!Next

\* The transaction of a shard is one advance of its cursor.
LEMMA FeedCommit ==
  ASSUME TypeOK, JobInv, CheckpointInv, Commit
  PROVE  Feed!Next
<1> DEFINE o == job.origin
           n == job.head.size
           searched == monitoredValues # {}
           from == IF searched \/ job.prev = None THEN job.from ELSE job.prev.size
           reach == job.reach
<1>1. /\ pc = "commit" /\ UNCHANGED <<subs, snapshot>>
      /\ failedEntries' = failedEntries \cup foundFailures
      /\ \A r \in foundMatches : subs[r.sub] # None
  BY DEF Commit
<1>2. /\ o \in Shard /\ checkpoint' = [checkpoint EXCEPT ![o] = job.head]
      /\ job.prev = checkpoint[o] /\ job.head # None
      /\ job.prev # None => job.prev.size < n
  BY CommitMovesCheckpoint
<1>3. /\ n \in Size /\ job.from \in Size /\ job.reach \in Size
      /\ job.prev # None => job.prev.size \in Size
  BY <1>1, JobParts
<1>4. from \in Size /\ reach \in Size
  BY <1>3
<1>5. /\ job.from = IF searched THEN DecideSearchRange(job.prev, job.head, hasAnyCheckpoint) ELSE n
      /\ reach = n \/ (PrunesBundles /\ reach > n /\ job.from < n)
  BY <1>1 DEF JobInv
<1>6. IF cursor[o] = None THEN from \in {0, n} ELSE from = cursor[o] /\ from < n
  <2>1. cursor[o] = IF job.prev = None THEN None ELSE job.prev.size
    BY <1>2 DEF cursor
  <2>2. CASE job.prev = None
    BY <1>5, <2>1, <2>2 DEF DecideSearchRange
  <2>3. CASE job.prev # None
    <3>1. from = job.prev.size
      BY <1>5, <2>3 DEF DecideSearchRange
    <3>2. job.prev.size # None
      BY <1>3, <2>3, NoneAssumption
    <3> QED
      BY <1>2, <2>1, <2>3, <3>1, <3>2
  <2> QED
    BY <2>2, <2>3
<1>7. reach = n \/ (PrunesBundles /\ reach > n /\ from < n)
  <2>1. CASE searched
    BY <1>5, <2>1
  <2>2. CASE ~searched
    BY <1>3, <1>5, <2>2
  <2> QED
    BY <2>1, <2>2
<1>8. searched \/ \A s \in SubId : snapshot[s] = None
  BY DEF monitoredValues
<1>9. searched \/ (job.from = n /\ reach = n)
  BY <1>3, <1>5
<1>10. searched => from = job.from
  OBVIOUS
<1> DEFINE range == from..(reach - 1)
           new == {[origin |-> o, index |-> p[1], sub |-> p[2]] :
                     p \in {q \in range \X SubId : q[2] \in Feed!Receivers(o, q[1])}}
           failed == {[origin |-> o, index |-> i] :
                        i \in {j \in range : j \in Unparsed[o] /\ \E s \in SubId : snapshot[s] # None}}
<1> HIDE DEF searched, from, reach, o, n
<1>11. new = {[origin |-> r.origin, index |-> r.index, sub |-> r.sub] : r \in foundMatches}
  <2>1. CASE searched
    <3> DEFINE P == {q \in (job.from .. job.reach - 1) \X SubId :
                       /\ q[1] \notin Unparsed[job.origin]
                       /\ snapshot[q[2]] \in Hits[job.origin][q[1]]}
    <3>1. \A q \in (job.from .. job.reach - 1) \X SubId :
             q[2] \in Feed!Receivers(o, q[1])
             <=> q[1] \notin Unparsed[job.origin] /\ snapshot[q[2]] \in Hits[job.origin][q[1]]
      <4> SUFFICES ASSUME NEW q \in (job.from .. job.reach - 1) \X SubId
                   PROVE  q[2] \in Feed!Receivers(o, q[1])
                          <=> /\ q[1] \notin Unparsed[job.origin]
                              /\ snapshot[q[2]] \in Hits[job.origin][q[1]]
        OBVIOUS
      <4>1. q[1] \in Index /\ q[2] \in SubId /\ job.origin \in Shard
        BY <1>1, <1>3, JobParts, LogWatchAssumption
      <4>2. None \notin Hits[job.origin][q[1]]
        BY <4>1, LogWatchAssumption, NoneAssumption
      <4> QED
        BY <4>1, <4>2 DEF Feed!Receivers, o
    <3>2. new = {[origin |-> job.origin, index |-> p[1], sub |-> p[2]] : p \in P}
      BY <1>10, <2>1, <3>1 DEF reach, o
    <3>3. foundMatches = {[origin |-> job.origin, index |-> p[1], sub |-> p[2], batch |-> batch] :
                            p \in P}
      BY DEF foundMatches
    <3> HIDE DEF P, new
    <3>4. ASSUME NEW r \in foundMatches
          PROVE  [origin |-> r.origin, index |-> r.index, sub |-> r.sub] \in new
      <4>1. PICK p \in P : r = [origin |-> job.origin, index |-> p[1], sub |-> p[2], batch |-> batch]
        BY <3>3
      <4> QED
        BY <3>2, <4>1
    <3>5. ASSUME NEW d \in new
          PROVE  \E r \in foundMatches : d = [origin |-> r.origin, index |-> r.index, sub |-> r.sub]
      <4>1. PICK p \in P : d = [origin |-> job.origin, index |-> p[1], sub |-> p[2]]
        BY <3>2
      <4> DEFINE r == [origin |-> job.origin, index |-> p[1], sub |-> p[2], batch |-> batch]
      <4>2. r \in foundMatches
        BY <3>3
      <4> QED
        BY <4>1, <4>2
    <3> QED
      BY <3>4, <3>5
  <2>2. CASE ~searched
    <3>1. foundMatches = {}
      BY <1>3, <1>9, <2>2 DEF foundMatches, n, reach
    <3>2. \A i \in range : Feed!Receivers(o, i) = {}
      BY <1>8, <2>2 DEF Feed!Receivers
    <3>3. new = {}
      BY <3>2
    <3> QED
      BY <3>1, <3>3
  <2> QED
    BY <2>1, <2>2
<1>12. failed = {[origin |-> f.origin, index |-> f.index] : f \in foundFailures}
  <2>1. CASE searched
    <3>1. \E s \in SubId : snapshot[s] # None
      BY <2>1 DEF searched, monitoredValues
    <3> DEFINE J == (job.from .. job.reach - 1) \cap Unparsed[job.origin]
    <3>2. failed = {[origin |-> job.origin, index |-> i] : i \in J}
      BY <1>10, <2>1, <3>1 DEF reach, o
    <3>3. foundFailures = {[origin |-> job.origin, index |-> i, batch |-> batch] : i \in J}
      BY DEF foundFailures
    <3> HIDE DEF J, failed
    <3>4. ASSUME NEW f \in foundFailures
          PROVE  [origin |-> f.origin, index |-> f.index] \in failed
      BY <3>2, <3>3
    <3>5. ASSUME NEW d \in failed
          PROVE  \E f \in foundFailures : d = [origin |-> f.origin, index |-> f.index]
      <4>1. PICK i \in J : d = [origin |-> job.origin, index |-> i]
        BY <3>2
      <4> DEFINE f == [origin |-> job.origin, index |-> i, batch |-> batch]
      <4>2. f \in foundFailures
        BY <3>3
      <4> QED
        BY <4>1, <4>2
    <3> QED
      BY <3>4, <3>5
  <2>2. CASE ~searched
    <3>1. foundFailures = {}
      BY <1>3, <1>9, <2>2 DEF foundFailures, n, reach
    <3> QED
      BY <1>8, <2>2, <3>1
  <2> QED
    BY <2>1, <2>2
<1>13. \A i \in range : \A s \in Feed!Receivers(o, i) : subs[s] # None
  <2> SUFFICES ASSUME NEW i \in range, NEW s \in Feed!Receivers(o, i)
               PROVE  subs[s] # None
    OBVIOUS
  <2> DEFINE d == [origin |-> o, index |-> i, sub |-> s]
  <2>1. d \in new
    <3> DEFINE p == <<i, s>>
    <3>1. p \in range \X SubId /\ p[2] \in Feed!Receivers(o, p[1])
      BY DEF Feed!Receivers
    <3>2. d = [origin |-> o, index |-> p[1], sub |-> p[2]]
      OBVIOUS
    <3> HIDE DEF p
    <3> QED
      BY <3>1, <3>2
  <2>2. PICK r \in foundMatches : d = [origin |-> r.origin, index |-> r.index, sub |-> r.sub]
    BY <1>11, <2>1
  <2>3. s = r.sub
    BY <2>2
  <2> QED
    BY <1>1, <2>3
<1>14. cursor' = [cursor EXCEPT ![o] = n]
  BY <1>2 DEF cursor, TypeOK, n
<1>15. delivered' = delivered \cup new
  BY <1>11, CommitRecords DEF delivered
<1>16. failures' = failures \cup failed
  BY <1>1, <1>12 DEF failures
<1>17. PICK x \in Shard, a, b, c \in 0..MaxSize : x = o /\ a = n /\ b = from /\ c = reach
  BY <1>2, <1>3, <1>4
<1>18. Feed!Advance(x, a, b, c)
  BY <1>1, <1>6, <1>7, <1>13, <1>14, <1>15, <1>16, <1>17
     DEF Feed!Advance, cursor, delivered, failures
<1> QED
  BY <1>17, <1>18 DEF Feed!Next

LEMMA FeedStep ==
  ASSUME TypeOK, JobInv, CheckpointInv, [Next]_vars
  PROVE  [Feed!Next]_(Feed!vars)
<1>1. CASE Edit
  BY <1>1, FeedEdit
<1>2. CASE Commit
  BY <1>2, FeedCommit
<1>3. CASE LoadIteration
  <2>1. Feed!LookUp
    BY <1>3 DEF LoadIteration, Feed!LookUp, Recorded, dbVars
  <2> QED
    BY <2>1 DEF Feed!Next
<1>4. CASE UNCHANGED <<subs, snapshot, checkpoint, matches, evicted, failedEntries>>
  BY <1>4 DEF Feed!vars, Recorded
<1>5. \/ Edit \/ Commit \/ LoadIteration
      \/ UNCHANGED <<subs, snapshot, checkpoint, matches, evicted, failedEntries>>
  BY Steps DEF Quiet, LoadAndVerify, Search, dbVars, obsVars, obsButFaults
<1> QED
  BY <1>1, <1>2, <1>3, <1>4, <1>5

(***************************************************************************)
(* Every behaviour of the monitoring loop, its failures and restarts       *)
(* included, is one of the feed.                                           *)
(***************************************************************************)
THEOREM Refinement == Spec => ImplementsMatchFeed
<1>1. TypeOK /\ JobInv /\ CheckpointInv /\ [Next]_vars => [Feed!Next]_(Feed!vars)
  BY FeedStep
<1> QED
  BY <1>1, FeedInit, Inductive, PTL DEF Spec, ImplementsMatchFeed, Feed!Spec
==============================================================================
