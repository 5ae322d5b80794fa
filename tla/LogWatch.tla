------------------------------- MODULE LogWatch -------------------------------
(***************************************************************************)
(* The monitoring loop of rekor_watch: catching up with every tracked      *)
(* shard of the log and recording matches (cmd/rekor_watch/monitor.go and  *)
(* shards.go), over the SQLite store it shares with the web handlers that  *)
(* create, edit and delete subscriptions while an iteration runs.          *)
(***************************************************************************)
EXTENDS Tiles, FiniteSets

CONSTANTS
  Shard,              \* shard origins
  SubId,              \* subscription row ids; AUTOINCREMENT never reuses one
  Value,              \* monitored values
  None,               \* no value: NULL, a nil pointer or a missing row
  MaxSize,            \* bound on the size of a shard
  Hits,               \* Hits[o][i]: monitored values that entry i of o matches
  Unparsed,           \* Unparsed[o]: indices of entries without usable identities
  Undecodable,        \* Undecodable[o]: indices of entries that are not valid entry JSON
  Forkable,           \* shards whose log may rewrite its history, once
  InitialConfig,      \* the shards of the monitor config at the first start
  MaxMatches,         \* maxMatchesPerSubscription
  PrunesBundles,      \* does the log discard obsolete partial bundles?
  StaleReads,         \* may the log answer with an older checkpoint (a cache)?
  MaxFaults           \* bound on failed steps and crashes

Index == 0..(MaxSize - 1)

ASSUME LogWatchAssumption ==
  /\ MaxSize \in Nat /\ MaxFaults \in Nat /\ MaxMatches \in Nat \ {0}
  /\ Hits \in [Shard -> [Index -> SUBSET Value]]
  /\ Unparsed \in [Shard -> SUBSET Index] /\ Undecodable \in [Shard -> SUBSET Index]
  /\ Forkable \subseteq Shard
  /\ InitialConfig \in (SUBSET Shard) \ {{}}
  /\ PrunesBundles \in BOOLEAN /\ StaleReads \in BOOLEAN

VARIABLES
  (* the log and the monitor config, outside the program *)
  treeSize,           \* entries in each shard
  fork,               \* has the shard rewritten its history?
  configured,         \* the valid v2 shards of the config file and trusted root
  (* the SQLite database *)
  checkpoint,         \* checkpoints table: origin to tree head, or None
  subs,               \* subscriptions table: id to monitored value, or None
  usedIds,            \* ids the table has handed out
  matches,            \* matches table
  failedEntries,      \* failed_entries table
  batch,              \* commits so far, which orders rows as (created_at, id) does
  (* memory of the monitoring goroutine *)
  pc,
  shards,             \* tracker.shards
  snapshot,           \* subscriptions as last listed
  hasAnyCheckpoint,
  todo,               \* shards this iteration has not reached yet
  job,                \* locals of the catchUpShard call, or None
  (* observations *)
  base,               \* size from which a shard is scanned, fixed by its first save
  since,              \* shard sizes when the loop first listed a subscription's value
  evicted,            \* rows that TrimMatches deleted
  firstDeploy,        \* shard sizes when the first iteration on an empty store began
  faults

logVars == <<treeSize, fork, configured>>
dbVars == <<checkpoint, subs, usedIds, matches, failedEntries, batch>>
memVars == <<pc, shards, snapshot, hasAnyCheckpoint, todo, job>>
obsVars == <<base, since, evicted, firstDeploy, faults>>
vars == <<logVars, dbVars, memVars, obsVars>>

-------------------------------------------------------------------------------
(* Types *)

Size == 0..MaxSize
TreeHead == [size : Size, fork : BOOLEAN]
Match == [origin : Shard, index : Index, sub : SubId, batch : Nat]
FailedEntry == [origin : Shard, index : Index, batch : Nat]

\* Locals of catchUpShard: it searches the indices from .. reach - 1.
Job == [origin : Shard, prev : TreeHead \cup {None}, head : TreeHead, from : Size, reach : Size]

ASSUME NoneAssumption ==
  None \notin Value /\ None \notin Size /\ None \notin TreeHead /\ None \notin Job

TypeOK ==
  /\ treeSize \in [Shard -> Size]
  /\ fork \in [Shard -> BOOLEAN]
  /\ configured \in SUBSET Shard
  /\ checkpoint \in [Shard -> TreeHead \cup {None}]
  /\ subs \in [SubId -> Value \cup {None}]
  /\ usedIds \in SUBSET SubId
  /\ matches \in SUBSET Match
  /\ failedEntries \in SUBSET FailedEntry
  /\ batch \in Nat
  /\ pc \in {"down", "idle", "list", "shard", "search", "commit"}
  /\ shards \in SUBSET Shard
  /\ snapshot \in [SubId -> Value \cup {None}]
  /\ hasAnyCheckpoint \in BOOLEAN
  /\ todo \in SUBSET Shard
  /\ job \in IF pc \in {"search", "commit"} THEN Job ELSE {None}
  /\ base \in [Shard -> Size \cup {None}]
  /\ since \in [SubId -> [Shard -> Size]]
  /\ evicted \in SUBSET Match
  /\ firstDeploy \in [Shard -> Size \cup {None}]
  /\ faults \in 0..MaxFaults

Init ==
  /\ treeSize \in [Shard -> Size]
  /\ fork = [o \in Shard |-> FALSE]
  /\ configured = InitialConfig
  /\ checkpoint = [o \in Shard |-> None]
  /\ subs = [s \in SubId |-> None] /\ usedIds = {}
  /\ matches = {} /\ failedEntries = {} /\ batch = 0
  /\ pc = "idle" /\ shards = configured
  /\ snapshot = [s \in SubId |-> None] /\ hasAnyCheckpoint = FALSE
  /\ todo = {} /\ job = None
  /\ base = [o \in Shard |-> None]
  /\ since = [s \in SubId |-> [o \in Shard |-> 0]]
  /\ evicted = {} /\ firstDeploy = [o \in Shard |-> None] /\ faults = 0

-------------------------------------------------------------------------------
(* The log and its operators *)

Grow(o) ==
  /\ treeSize[o] < MaxSize
  /\ treeSize' = [treeSize EXCEPT ![o] = @ + 1]
  /\ UNCHANGED <<fork, configured, dbVars, memVars, obsVars>>

\* The shard presents a history that is not an extension of the one it had.
Rewrite(o) ==
  /\ o \in Forkable /\ ~fork[o]
  /\ fork' = [fork EXCEPT ![o] = TRUE]
  /\ UNCHANGED <<treeSize, configured, dbVars, memVars, obsVars>>

\* A shard is added to the config, or taken out of it.
Reconfigure(o) ==
  /\ configured' = (IF o \in configured THEN configured \ {o} ELSE configured \cup {o})
  /\ UNCHANGED <<treeSize, fork, dbVars, memVars, obsVars>>

-------------------------------------------------------------------------------
(* The web handlers: one statement of the store each *)

CreateSubscription(s, v) ==
  /\ s \notin usedIds
  /\ subs' = [subs EXCEPT ![s] = v]
  /\ usedIds' = usedIds \cup {s}
  /\ UNCHANGED <<checkpoint, matches, failedEntries, batch, logVars, memVars, obsVars>>

\* Rows already recorded stay with the subscription.
UpdateSubscription(s, v) ==
  /\ subs[s] # None /\ subs[s] # v
  /\ subs' = [subs EXCEPT ![s] = v]
  /\ UNCHANGED <<checkpoint, usedIds, matches, failedEntries, batch, logVars, memVars, obsVars>>

\* Mutant: the foreign key does not cascade.
DeleteSubscriptionOnly(s) ==
  /\ subs[s] # None
  /\ subs' = [subs EXCEPT ![s] = None]
  /\ UNCHANGED <<checkpoint, usedIds, matches, failedEntries, batch, logVars, memVars, obsVars>>

\* ON DELETE CASCADE takes the subscription's matches with it.
DeleteSubscription(s) ==
  /\ subs[s] # None
  /\ subs' = [subs EXCEPT ![s] = None]
  /\ matches' = {r \in matches : r.sub # s}
  /\ UNCHANGED <<checkpoint, usedIds, failedEntries, batch, logVars, memVars, obsVars>>

-------------------------------------------------------------------------------
(* One iteration: runOnce *)

\* A step that fails uses up one of the faults the run allows.
Fault == faults < MaxFaults /\ faults' = faults + 1
obsButFaults == <<base, since, evicted, firstDeploy>>

\* The v2 logs of the config, each with a client; no such log is an error.
FetchShards == configured # {} /\ shards' = configured

\* tracker.refresh: fetch the configured shards, or keep the old ones on an error.
StartIteration ==
  /\ pc = "idle"
  /\ pc' = "list"
  /\ \/ FetchShards /\ UNCHANGED faults
     \/ configured = {} /\ UNCHANGED <<shards, faults>>
     \/ Fault /\ UNCHANGED shards
  /\ UNCHANGED <<snapshot, hasAnyCheckpoint, todo, job, logVars, dbVars, obsButFaults>>

ListSubscriptions == snapshot' = subs
AnyCheckpoint == \E o \in Shard : checkpoint[o] # None

(***************************************************************************)
(* ListSubscriptions and HasAnyCheckpoint. Nobody but this goroutine       *)
(* writes checkpoints, so the two reads are one step.                      *)
(***************************************************************************)
LoadIteration ==
  /\ pc = "list"
  /\ pc' = "shard"
  /\ ListSubscriptions
  /\ hasAnyCheckpoint' = AnyCheckpoint
  /\ todo' = shards
  /\ since' = [s \in SubId |->
                 IF subs[s] # None /\ subs[s] # snapshot[s] THEN treeSize ELSE since[s]]
  /\ firstDeploy' = [o \in Shard |->
                       IF o \in shards /\ ~hasAnyCheckpoint' /\ firstDeploy[o] = None
                       THEN treeSize[o] ELSE firstDeploy[o]]
  /\ UNCHANGED <<shards, job, base, evicted, faults, logVars, dbVars>>

LoadFails ==
  /\ pc = "list" /\ Fault
  /\ pc' = "idle"
  /\ UNCHANGED <<shards, snapshot, hasAnyCheckpoint, todo, job, logVars, dbVars, obsButFaults>>

\* Mutants: the checkpoint's last entry again; no search of new shards.
SearchFromLastEntry(prev, current, hasAny) ==
  CASE prev # None -> prev.size - 1
    [] prev = None /\ hasAny -> 0
    [] OTHER -> current.size

SkipNewShard(prev, current, hasAny) ==
  IF prev # None THEN prev.size ELSE current.size

(***************************************************************************)
(* decideSearchRange, as the first index to search: the range is           *)
(* (from - 1, current.size - 1], and empty when from = current.size.       *)
(***************************************************************************)
DecideSearchRange(prev, current, hasAny) ==
  CASE prev # None -> prev.size
    [] prev = None /\ hasAny -> 0
    [] OTHER -> current.size

\* Mutants: only the sizes are compared; an empty tree is consistent with nothing.
NotSmaller(prev, current) == prev = None \/ prev.size <= current.size

ConsistentIfNotEmpty(prev, current) ==
  prev = None \/ (prev.size > 0 /\ prev.size <= current.size /\ prev.fork = current.fork)

\* VerifyConsistency: an empty tree is consistent with every other one.
Consistent(prev, current) ==
  prev = None \/ (prev.size <= current.size /\ (prev.size = 0 \/ prev.fork = current.fork))

(***************************************************************************)
(* The first half of catchUpShard: load the checkpoint, fetch the log's    *)
(* current one and verify that it extends it. The log may answer with an   *)
(* older checkpoint than its newest, which counts as a fault. A shard that *)
(* fails the check or has not grown is done for this iteration.            *)
(***************************************************************************)
LoadAndVerify(o) ==
  /\ pc = "shard" /\ o \in todo
  /\ todo' = todo \ {o}
  /\ \E n \in Size :
       /\ n <= treeSize[o]
       /\ n < treeSize[o] => StaleReads /\ Fault
       /\ n = treeSize[o] => UNCHANGED faults
       /\ LET prev == checkpoint[o]
              current == [size |-> n, fork |-> fork[o]]
          IN  IF ~Consistent(prev, current) \/ (prev # None /\ prev.size = current.size)
              THEN UNCHANGED <<pc, job>>
              ELSE /\ pc' = "search"
                   /\ job' = [origin |-> o, prev |-> prev, head |-> current,
                              from |-> DecideSearchRange(prev, current, hasAnyCheckpoint),
                              reach |-> current.size]
  /\ UNCHANGED <<shards, snapshot, hasAnyCheckpoint, logVars, dbVars, obsButFaults>>

\* LoadCheckpoint, ReadCheckpoint or the proof could not be fetched.
LoadAndVerifyFails(o) ==
  /\ pc = "shard" /\ o \in todo /\ Fault
  /\ todo' = todo \ {o}
  /\ UNCHANGED <<pc, shards, snapshot, hasAnyCheckpoint, job, logVars, dbVars, obsButFaults>>

monitoredValues == {snapshot[s] : s \in SubId} \ {None}
shouldSearch == job.from < job.head.size

lastTileEnd == TileEnd(GetTileIndex(job.head.size - 1))

\* getEntriesFromTile decodes every entry of the bundles it reads, or none.
Decodes(reach) ==
  Undecodable[job.origin] \cap
    (((job.from \div TileWidth) * TileWidth) .. (reach - 1)) = {}

(***************************************************************************)
(* IdentitySearch, skipped without monitored values. The last bundle is    *)
(* used whole, so where partial bundles get discarded the search can reach *)
(* the end of the last tile (module TileReader).                           *)
(***************************************************************************)
Search ==
  /\ pc = "search"
  /\ pc' = "commit"
  /\ \/ /\ shouldSearch /\ monitoredValues # {}
        /\ \/ Decodes(job.reach) /\ UNCHANGED job
           \/ /\ PrunesBundles /\ lastTileEnd <= treeSize[job.origin]
              /\ Decodes(lastTileEnd)
              /\ job' = [job EXCEPT !.reach = lastTileEnd]
     \/ /\ ~(shouldSearch /\ monitoredValues # {})
        /\ job' = [job EXCEPT !.from = job.head.size]
  /\ UNCHANGED <<shards, snapshot, hasAnyCheckpoint, todo, logVars, dbVars, obsVars>>

\* An entry that cannot be decoded is an error, and ends this shard's turn.
SearchAborts ==
  /\ pc = "search" /\ shouldSearch /\ monitoredValues # {}
  /\ \/ ~Decodes(job.reach)
     \/ PrunesBundles /\ lastTileEnd <= treeSize[job.origin] /\ ~Decodes(lastTileEnd)
  /\ pc' = "shard" /\ job' = None
  /\ UNCHANGED <<shards, snapshot, hasAnyCheckpoint, todo, logVars, dbVars, obsVars>>

\* So is any other error: nothing was written.
SearchFails ==
  /\ pc = "search" /\ shouldSearch /\ monitoredValues # {} /\ Fault
  /\ pc' = "shard" /\ job' = None
  /\ UNCHANGED <<shards, snapshot, hasAnyCheckpoint, todo, logVars, dbVars, obsButFaults>>

\* Mutant: grouping by value keeps one subscription of each value.
foundMatchesOnePerValue ==
  {[origin |-> job.origin, index |-> p[1], batch |-> batch,
    sub |-> CHOOSE s \in SubId : snapshot[s] = p[2]] :
     p \in {q \in (job.from .. job.reach - 1) \X monitoredValues :
              /\ q[1] \notin Unparsed[job.origin]
              /\ q[2] \in Hits[job.origin][q[1]]}}

\* One match per entry and listed subscription whose value the entry matches.
foundMatches ==
  {[origin |-> job.origin, index |-> p[1], sub |-> p[2], batch |-> batch] :
     p \in {q \in (job.from .. job.reach - 1) \X SubId :
              /\ q[1] \notin Unparsed[job.origin]
              /\ snapshot[q[2]] \in Hits[job.origin][q[1]]}}

\* Mutant: the failed entries are not recorded.
noFailures == {}

foundFailures ==
  {[origin |-> job.origin, index |-> i, batch |-> batch] :
     i \in (job.from .. job.reach - 1) \cap Unparsed[job.origin]}

\* The order of (created_at, id) among the rows of one subscription.
Newer(q, r) == q.batch > r.batch \/ (q.batch = r.batch /\ q.index > r.index)

\* Mutant: the oldest rows are kept.
TrimNewestMatches(rows, S) ==
  {r \in rows : /\ r.sub \in S
                /\ Cardinality({q \in rows : q.sub = r.sub /\ Newer(r, q)}) >= MaxMatches}

(***************************************************************************)
(* TrimMatches: the rows deleted so that each subscription in S keeps at   *)
(* most its MaxMatches newest rows.                                        *)
(***************************************************************************)
TrimMatches(rows, S) ==
  {r \in rows : /\ r.sub \in S
                /\ Cardinality({q \in rows : q.sub = r.sub /\ Newer(q, r)}) >= MaxMatches}

SaveCheckpoint == checkpoint' = [checkpoint EXCEPT ![job.origin] = job.head]

(***************************************************************************)
(* The transaction of catchUpShard: matches, failed entries, retention and *)
(* the new checkpoint become visible together.                             *)
(***************************************************************************)
Commit ==
  LET inserted == matches \cup foundMatches
      affected == {r.sub : r \in foundMatches}
      trimmed  == TrimMatches(inserted, affected)
  IN
  /\ pc = "commit"
  /\ \A s \in affected : subs[s] # None
  /\ matches' = inserted \ trimmed
  /\ evicted' = evicted \cup trimmed
  /\ failedEntries' = failedEntries \cup foundFailures
  /\ SaveCheckpoint
  /\ base' = IF job.prev # None THEN base
             ELSE [base EXCEPT ![job.origin] =
                     IF hasAnyCheckpoint THEN 0 ELSE job.head.size]
  /\ batch' = batch + 1
  /\ pc' = "shard" /\ job' = None
  /\ UNCHANGED <<subs, usedIds, shards, snapshot, hasAnyCheckpoint, todo,
                 since, firstDeploy, faults, logVars>>

\* A match of a subscription deleted since it was listed violates the foreign key.
CommitRejected ==
  /\ pc = "commit"
  /\ \E r \in foundMatches : subs[r.sub] = None
  /\ pc' = "shard" /\ job' = None
  /\ UNCHANGED <<shards, snapshot, hasAnyCheckpoint, todo, logVars, dbVars, obsVars>>

\* Mutant: no transaction, so that a failure keeps the matches already saved.
CommitFailsHalfway ==
  /\ pc = "commit" /\ Fault
  /\ \A r \in foundMatches : subs[r.sub] # None
  /\ matches' = matches \cup foundMatches /\ batch' = batch + 1
  /\ pc' = "shard" /\ job' = None
  /\ UNCHANGED <<checkpoint, subs, usedIds, failedEntries, shards, snapshot,
                 hasAnyCheckpoint, todo, logVars, obsButFaults>>

\* Any other error rolls the transaction back as well.
CommitFails ==
  /\ pc = "commit" /\ Fault
  /\ pc' = "shard" /\ job' = None
  /\ UNCHANGED <<shards, snapshot, hasAnyCheckpoint, todo, logVars, dbVars, obsButFaults>>

\* Every shard had its turn: the loop waits for the next tick.
FinishIteration ==
  /\ pc = "shard" /\ todo = {}
  /\ pc' = "idle"
  /\ UNCHANGED <<shards, snapshot, hasAnyCheckpoint, todo, job, logVars, dbVars, obsVars>>

-------------------------------------------------------------------------------
(* The process stops at any point, and starts again *)

\* An open transaction is lost. (snapshot stays, for since: it is not read again.)
Crash ==
  /\ pc # "down" /\ Fault
  /\ pc' = "down" /\ shards' = {} /\ todo' = {} /\ job' = None /\ hasAnyCheckpoint' = FALSE
  /\ UNCHANGED <<snapshot, logVars, dbVars, obsButFaults>>

\* newShardTracker refreshes once; the process exits again when that fails.
Restart ==
  /\ pc = "down" /\ FetchShards
  /\ pc' = "idle"
  /\ UNCHANGED <<snapshot, hasAnyCheckpoint, todo, job, logVars, dbVars, obsVars>>

-------------------------------------------------------------------------------
Environment ==
  \/ \E o \in Shard : Grow(o) \/ Rewrite(o) \/ Reconfigure(o)
  \/ \E s \in SubId, v \in Value : CreateSubscription(s, v) \/ UpdateSubscription(s, v)
  \/ \E s \in SubId : DeleteSubscription(s)

\* Steps the goroutine takes by itself.
Monitor ==
  \/ StartIteration \/ LoadIteration \/ FinishIteration
  \/ \E o \in Shard : LoadAndVerify(o)
  \/ Search \/ SearchAborts \/ Commit \/ CommitRejected
  \/ Restart

Failure ==
  \/ LoadFails \/ SearchFails \/ CommitFails \/ Crash
  \/ \E o \in Shard : LoadAndVerifyFails(o)

Next == Environment \/ Monitor \/ Failure

Spec == Init /\ [][Next]_vars

\* The ticker keeps the loop going; nothing makes the environment act.
FairSpec == Spec /\ WF_vars(Monitor)

-------------------------------------------------------------------------------
(* Properties *)

\* The rows ever recorded for a subscription that still exists.
Recorded == matches \cup evicted

(***************************************************************************)
(* Index i of shard o lies behind the checkpoint, and subscription s was   *)
(* listed with its present value, in every iteration, since before entry i *)
(* was appended.                                                           *)
(***************************************************************************)
Watched(o, i, s) ==
  /\ checkpoint[o] # None /\ base[o] <= i /\ i < checkpoint[o].size
  /\ subs[s] # None /\ snapshot[s] = subs[s] /\ since[s][o] <= i

(***************************************************************************)
(* No match is lost: the checkpoint never moves past an entry without a    *)
(* row for every subscription that watched for it, whatever failed, was    *)
(* retried, edited, deleted or restarted in between. (A row may have been  *)
(* evicted since, which NewestRetained limits.)                            *)
(***************************************************************************)
NoMissedMatch ==
  \A o \in Shard, s \in SubId, i \in Index :
    Watched(o, i, s) /\ i \notin Unparsed[o] /\ subs[s] \in Hits[o][i] =>
      \E r \in Recorded : r.origin = o /\ r.index = i /\ r.sub = s

(***************************************************************************)
(* "A write failure rolls the whole iteration back rather than advancing   *)
(* past unrecorded failures": an unparseable entry behind the checkpoint   *)
(* that somebody watched for is in failed_entries.                         *)
(***************************************************************************)
NoUnrecordedFailure ==
  \A o \in Shard, s \in SubId, i \in Index :
    Watched(o, i, s) /\ i \in Unparsed[o] =>
      \E f \in failedEntries : f.origin = o /\ f.index = i

(***************************************************************************)
(* No entry is recorded twice for a subscription: an iteration that failed *)
(* half-way or was cut short left nothing behind, and the next one starts  *)
(* where the checkpoint says. Holds where partial bundles are kept.        *)
(***************************************************************************)
NoDuplicateMatch ==
  \A q, r \in Recorded :
    q.origin = r.origin /\ q.index = r.index /\ q.sub = r.sub => q.batch = r.batch

(***************************************************************************)
(* Retention: a subscription keeps at most MaxMatches rows, they are the   *)
(* newest it ever had, and nothing is evicted before the limit is reached. *)
(***************************************************************************)
NewestRetained ==
  \A s \in SubId :
    LET kept == {r \in matches : r.sub = s}
        gone == {r \in evicted : r.sub = s}
    IN  /\ Cardinality(kept) <= MaxMatches
        /\ \A r \in kept, g \in gone : Newer(r, g)
        /\ gone # {} /\ subs[s] # None => Cardinality(kept) = MaxMatches

(***************************************************************************)
(* Every row belongs to a subscription that exists, although the monitor   *)
(* writes rows for the subscriptions it listed at the start of the         *)
(* iteration: cascade and foreign key together.                            *)
(***************************************************************************)
NoOrphanMatch == \A r \in matches : subs[r.sub] # None

(***************************************************************************)
(* The iterations implement the feed of MatchFeed: what the transaction of *)
(* a shard makes visible is one step of the shard's cursor, and no other   *)
(* step, failure or crash shows.                                           *)
(***************************************************************************)
Feed == INSTANCE MatchFeed WITH
  view <- snapshot,
  cursor <- [o \in Shard |-> IF checkpoint[o] = None THEN None ELSE checkpoint[o].size],
  delivered <- {[origin |-> r.origin, index |-> r.index, sub |-> r.sub] : r \in Recorded},
  failures <- {[origin |-> f.origin, index |-> f.index] : f \in failedEntries},
  Overshoots <- PrunesBundles

ImplementsMatchFeed == Feed!Spec

(***************************************************************************)
(* A stored checkpoint is only ever replaced by a larger one of the same   *)
(* history: a log that shrinks or rewrites itself cannot move it, and no   *)
(* restart, stale answer or order of the shards can.                       *)
(***************************************************************************)
CheckpointOnlyExtends ==
  [][\A o \in Shard :
       checkpoint[o] # None /\ checkpoint'[o] # checkpoint[o] =>
         /\ checkpoint'[o] # None
         /\ checkpoint'[o].size > checkpoint[o].size
         /\ checkpoint[o].size > 0 => checkpoint'[o].fork = checkpoint[o].fork]_vars

(***************************************************************************)
(* "True first-time deploy (no checkpoints anywhere, monitor going forward *)
(* only)": nothing that a shard held when the first deployment began is    *)
(* ever reported. The code only keeps this while every shard of the first  *)
(* iteration succeeds.                                                     *)
(***************************************************************************)
FirstDeployForwardOnly ==
  \A r \in Recorded :
    firstDeploy[r.origin] # None => r.index >= firstDeploy[r.origin]

(***************************************************************************)
(* A shard that stays in the config and keeps its history is eventually    *)
(* caught up with, for good: failures, crashes, rejected transactions and  *)
(* another shard that fails in every iteration only delay it. (A shard     *)
(* fails for ever once it holds an entry that is not valid entry JSON.)    *)
(***************************************************************************)
EventuallyCaughtUp ==
  \A o \in Shard :
    <>[](o \in configured /\ ~fork[o] /\ \A i \in Undecodable[o] : i >= treeSize[o]) =>
      <>[](checkpoint[o] # None /\ checkpoint[o].size = treeSize[o])
==============================================================================
