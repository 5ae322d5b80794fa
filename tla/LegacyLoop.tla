----------------------------- MODULE LegacyLoop -------------------------------
(***************************************************************************)
(* The monitors of the logs that are not tile-based: MonitorLoop           *)
(* (internal/cmd/common.go) with the callbacks of RekorV1MonitorLogic      *)
(* (cmd/rekor_monitor/main.go, pkg/rekor/v1), which reads batches of       *)
(* entries with retries (pkg/util/retry.go), and with those of             *)
(* CTMonitorLogic (cmd/ct_monitor/main.go, pkg/ct/v1), which reads an      *)
(* RFC 6962 log with one get-entries request. Indices are those of         *)
(* Rekor's API, which number the entries of all trees of the log; a CT log *)
(* has one tree. Any request may fail at any time. The log is honest, but  *)
(* a front end may lag behind it. MonitorLoop has the configured ranges    *)
(* and the halves of a write, which are the same here.                     *)
(***************************************************************************)
EXTENDS Integers, Sequences, SequencesExt

CONSTANTS
  LastTree,           \* Rekor's trees are 1 .. LastTree, in the order they appear; at most two
  MaxSize,            \* bound on the size of a tree
  Batch,              \* entries of one SearchLogQuery: 10
  MaxAttempts,        \* attempts of Retry at one request
  None,               \* a nil pointer; a missing or empty file
  Torn                \* a file that cannot be parsed

Tree == 1..LastTree
Checkpoint == [tree : Tree, size : 1..MaxSize]
LogInfo == [tree : Tree, size : 0..MaxSize, inactive : 0..(LastTree * MaxSize)]

ASSUME LegacyLoopAssumption ==
  /\ LastTree \in {1, 2} /\ MaxSize \in Nat
  /\ Batch \in Nat \ {0} /\ MaxAttempts \in Nat \ {0}
  /\ None # Torn /\ {None, Torn} \cap (Int \cup [tree : Tree, size : Nat]) = {}

VARIABLES
  kind,               \* rekor or ct: which log this is
  treeSize, tree,     \* the log: the size of its active tree, and which one that is
  inactive,           \* how many entries are in the inactive trees
  file,               \* the checkpoint file
  pc, once,           \* where the process is; --once
  startIndex, endIndex, \* config.StartIndex and config.EndIndex
  prev, cur,          \* the file's checkpoint and the log's info
  fetched,            \* logEntries: the indices of the entries read so far
  attempt,            \* the attempt of Retry at the next request
  (* observations *)
  base,               \* how many entries there were when the first checkpoint was written
  reported,           \* the entries the user was told of
  withheld,           \* entries that were asked for and left out of an answer
  lost                \* was the file lost while it was written?

logVars == <<treeSize, tree, inactive>>
memVars == <<once, startIndex, endIndex, prev, cur, fetched, attempt>>
obsVars == <<base, reported, withheld, lost>>
vars == <<kind, logVars, file, pc, memVars, obsVars>>

Total == inactive + treeSize
\* Entries of the trees that come before tree t.
Before(t) == IF t = tree THEN inactive ELSE 0
IndexRange == -1..(LastTree * MaxSize)

TypeOK ==
  /\ kind \in {"rekor", "ct"}
  /\ treeSize \in 0..MaxSize /\ tree \in Tree /\ inactive \in 0..(LastTree * MaxSize)
  /\ file \in Checkpoint \cup {None, Torn}
  /\ pc \in {"off", "check", "search", "notify", "write", "wait"}
  /\ once \in BOOLEAN
  /\ startIndex \in IndexRange \cup {None} /\ endIndex \in IndexRange \cup {None}
  /\ prev \in Checkpoint \cup {None} /\ cur \in LogInfo \cup {None}
  /\ fetched \in Seq(Nat) /\ attempt \in 1..MaxAttempts
  /\ base \in Nat \cup {None}
  /\ reported \in SUBSET Nat /\ withheld \in SUBSET Nat /\ lost \in BOOLEAN

Init ==
  /\ kind \in {"rekor", "ct"}
  /\ treeSize \in 0..MaxSize /\ tree = 1 /\ inactive = 0
  /\ file = None /\ pc = "off" /\ once = TRUE
  /\ startIndex = None /\ endIndex = None
  /\ prev = None /\ cur = None /\ fetched = <<>> /\ attempt = 1
  /\ base = None /\ reported = {} /\ withheld = {} /\ lost = FALSE

-------------------------------------------------------------------------------
(* The log *)

Grow ==
  /\ treeSize < MaxSize /\ treeSize' = treeSize + 1
  /\ UNCHANGED <<kind, tree, inactive, file, pc, memVars, obsVars>>

\* Rekor starts a new tree; the old one becomes an inactive shard.
Rollover ==
  /\ kind = "rekor" /\ tree < LastTree
  /\ tree' = tree + 1 /\ inactive' = inactive + treeSize /\ treeSize' = 0
  /\ UNCHANGED <<kind, file, pc, memVars, obsVars>>

-------------------------------------------------------------------------------
(* The process *)

Stop ==
  /\ pc' = "off" /\ once' = TRUE /\ startIndex' = None /\ endIndex' = None
  /\ prev' = None /\ cur' = None /\ fetched' = <<>> /\ attempt' = 1

\* mainLoopV1 or rfc6962MainLoop, up to the loop.
Start ==
  /\ pc = "off" /\ pc' = "check" /\ once' \in BOOLEAN
  /\ UNCHANGED <<kind, logVars, file, startIndex, endIndex, prev, cur, fetched, attempt, obsVars>>

\* GetLogInfo or get-sth, from a front end that has seen the log up to some size.
Seen == [tree : {tree}, size : 0..treeSize, inactive : {inactive}]

(***************************************************************************)
(* The consistency check. The proof is asked for in the tree of the log's  *)
(* info: it exists only if the file's checkpoint is of that tree, and not  *)
(* beyond what the front end shows.                                        *)
(***************************************************************************)
\* Mutant: a log that shows less than the file's checkpoint is taken for consistent.
ConsistentTree(p, info) == p # None => p.tree = info.tree

Consistent(p, info) == p # None => p.tree = info.tree /\ p.size <= info.size

\* The index of a checkpoint: Rekor's, and the size of the tree for a CT log.
GetCheckpointIndex(info, size) == size + info.inactive - 1

GetStartIndex(p, info) == IF kind = "rekor" THEN GetCheckpointIndex(info, p.size)
                          ELSE p.size - 1
GetEndIndex(info) == IF kind = "rekor" THEN GetCheckpointIndex(info, info.size)
                     ELSE info.size

\* ReadLatestCheckpointRekorV1, ReadLatestCTSignedTreeHead: the file can be parsed.
Readable == file # Torn

\* RunConsistencyCheck hands the file's checkpoint on; a missing or empty file is nil.
SavedCheckpoint == file

(***************************************************************************)
(* The consistency check and the range of the iteration: from where the    *)
(* last iteration of this process ended, or else from the file's           *)
(* checkpoint. MonitorLoop ends on a range that starts after its end;      *)
(* RangesInOrder shows that there is none.                                 *)
(***************************************************************************)
RangeStart(p, info) == IF startIndex # None \/ p = None THEN startIndex
                       ELSE GetStartIndex(p, info)

Check ==
  /\ pc = "check" /\ Readable
  /\ prev' = SavedCheckpoint
  /\ \E info \in Seen :
       /\ Consistent(SavedCheckpoint, info)
       /\ cur' = info
       /\ \/ /\ RangeStart(SavedCheckpoint, info) # None
             /\ pc' = "search"
             /\ startIndex' = RangeStart(SavedCheckpoint, info) /\ endIndex' = GetEndIndex(info)
          \/ /\ RangeStart(SavedCheckpoint, info) = None
             /\ pc' = "write" /\ startIndex' = GetEndIndex(info) /\ endIndex' = None
  /\ UNCHANGED <<kind, logVars, file, once, fetched, attempt, obsVars>>

\* No answer, no consistency, or a torn file: a periodic monitor waits for the next tick.
CheckFails ==
  /\ pc = "check"
  /\ \/ once /\ Stop
     \/ ~once /\ pc' = "wait" /\ UNCHANGED memVars
  /\ UNCHANGED <<kind, logVars, file, obsVars>>

-------------------------------------------------------------------------------
(* Rekor: GetEntriesByIndexRange over (startIndex, endIndex], under Retry *)

\* Mutant: the range includes the index it starts with.
IndexFromStart == startIndex + Len(fetched)

NextIndex == startIndex + 1 + Len(fetched)

Lesser(a, b) == IF a < b THEN a ELSE b
NextBatch == [i \in 1..(Lesser(NextIndex + Batch, endIndex + 1) - NextIndex) |-> NextIndex + i - 1]

FetchBatch ==
  /\ pc = "search" /\ kind = "rekor" /\ NextIndex <= endIndex
  /\ fetched' = fetched \o NextBatch /\ attempt' = 1
  /\ UNCHANGED <<kind, logVars, file, pc, once, startIndex, endIndex, prev, cur, obsVars>>

\* Mutant: the batch of a failed attempt is skipped.
FetchSkips ==
  /\ pc = "search" /\ kind = "rekor" /\ NextIndex <= endIndex /\ attempt < MaxAttempts
  /\ startIndex' = startIndex + Len(NextBatch)
  /\ UNCHANGED <<kind, logVars, file, pc, once, endIndex, prev, cur, fetched, attempt, obsVars>>

\* An attempt fails, and Retry waits before the next one.
FetchRetries ==
  /\ pc = "search" /\ kind = "rekor" /\ NextIndex <= endIndex
  /\ attempt < MaxAttempts /\ attempt' = attempt + 1
  /\ UNCHANGED <<kind, logVars, file, pc, once, startIndex, endIndex, prev, cur, fetched, obsVars>>

\* After the last attempt, 30 seconds or SIGTERM the search fails, and the process ends.
FetchFails ==
  /\ pc = "search" /\ kind = "rekor" /\ NextIndex <= endIndex
  /\ Stop
  /\ UNCHANGED <<kind, logVars, file, obsVars>>

\* Every entry is one to report; without one there is nothing to notify of.
FetchDone ==
  /\ pc = "search" /\ kind = "rekor" /\ NextIndex > endIndex
  /\ \/ fetched # <<>> /\ pc' = "notify" /\ UNCHANGED <<startIndex, endIndex>>
     \/ fetched = <<>> /\ pc' = "write" /\ startIndex' = endIndex /\ endIndex' = None
  /\ UNCHANGED <<kind, logVars, file, once, prev, cur, fetched, attempt, obsVars>>

-------------------------------------------------------------------------------
(***************************************************************************)
(* CT: one get-entries for startIndex to endIndex, both inclusive. The log *)
(* answers with a prefix of what was asked, as long as it chooses, and     *)
(* with nothing beyond its own size (RFC 6962, 4.6).                       *)
(***************************************************************************)
GetEntries ==
  /\ pc = "search" /\ kind = "ct" /\ startIndex < treeSize
  /\ \E e \in startIndex..Lesser(endIndex, treeSize - 1) :
       /\ fetched' = [i \in 1..(e + 1 - startIndex) |-> startIndex + i - 1]
       /\ withheld' = withheld \cup (e + 1)..(endIndex - 1)
  /\ pc' = "notify"
  /\ UNCHANGED <<kind, logVars, file, once, startIndex, endIndex, prev, cur, attempt, base, reported, lost>>

\* The request fails, or asks for nothing that the log has: the process ends.
GetEntriesFails ==
  /\ pc = "search" /\ kind = "ct"
  /\ Stop
  /\ UNCHANGED <<kind, logVars, file, obsVars>>

-------------------------------------------------------------------------------

\* MatchedIndices: every entry is one that matches.
Matched == ToSet(fetched)

Report == reported' = reported \cup Matched

\* Mutant: the next iteration starts after the first index that was not asked for.
NotifyBeyond ==
  /\ pc = "notify" /\ Report
  /\ pc' = "write" /\ startIndex' = endIndex + 1 /\ endIndex' = None
  /\ UNCHANGED <<kind, logVars, file, once, prev, cur, fetched, attempt, base, withheld, lost>>

\* TriggerNotifications, and the range of the next iteration.
Notify ==
  /\ pc = "notify" /\ Report
  /\ pc' = "write" /\ startIndex' = endIndex /\ endIndex' = None
  /\ UNCHANGED <<kind, logVars, file, once, prev, cur, fetched, attempt, base, withheld, lost>>

NotifyFails ==
  /\ pc = "notify" /\ (Report \/ UNCHANGED reported)
  /\ Stop
  /\ UNCHANGED <<kind, logVars, file, base, withheld, lost>>

\* WriteCheckpointRekorV1, WriteCTSignedTreeHead: a size other than the file's, and not 0.
MustWrite == cur.size > 0 /\ (prev # None => prev.size # cur.size)

LatestCheckpoint == [tree |-> cur.tree, size |-> cur.size]

EndOfIteration ==
  IF once THEN Stop
  ELSE /\ pc' = "wait" /\ prev' = None /\ cur' = None /\ fetched' = <<>>
       /\ UNCHANGED <<once, startIndex, endIndex, attempt>>

WriteCheckpoint ==
  /\ pc = "write"
  /\ IF MustWrite
     THEN /\ file' = LatestCheckpoint
          /\ base' = IF base = None THEN cur.inactive + cur.size ELSE base
     ELSE UNCHANGED <<file, base>>
  /\ EndOfIteration
  /\ UNCHANGED <<kind, logVars, reported, withheld, lost>>

\* The file cannot be opened, or is cut short after it was truncated.
WriteFails ==
  /\ pc = "write" /\ MustWrite
  /\ \/ UNCHANGED <<file, lost>>
     \/ file' \in {None, Torn} /\ lost' = TRUE
  /\ Stop
  /\ UNCHANGED <<kind, logVars, base, reported, withheld>>

Tick ==
  /\ pc = "wait" /\ pc' = "check"
  /\ UNCHANGED <<kind, logVars, file, memVars, obsVars>>

\* SIGTERM while the loop waits, or a kill at any other time but the write.
Ends ==
  /\ pc # "off" /\ Stop
  /\ UNCHANGED <<kind, logVars, file, obsVars>>

Next ==
  \/ Grow \/ Rollover
  \/ Start \/ Check \/ CheckFails
  \/ FetchBatch \/ FetchRetries \/ FetchFails \/ FetchDone
  \/ GetEntries \/ GetEntriesFails
  \/ Notify \/ NotifyFails \/ WriteCheckpoint \/ WriteFails
  \/ Tick \/ Ends

Spec == Init /\ [][Next]_vars

-------------------------------------------------------------------------------
Behind == Before(file.tree) + file.size      \* entries behind the file's checkpoint

(***************************************************************************)
(* No entry behind the saved checkpoint was skipped, across retries,       *)
(* failures, processes, lagging front ends and a new tree: the user was    *)
(* told of every one that came after the first checkpoint, unless the log  *)
(* left it out of its answer, or the file was lost.                        *)
(***************************************************************************)
NothingSkipped ==
  file \in Checkpoint /\ ~lost =>
    \A i \in base..(Behind - 1) : i \in reported \cup withheld

(***************************************************************************)
(* What lies behind the saved checkpoint is not read again, except for the *)
(* last entry of a CT log, whose range is inclusive at both ends; and a    *)
(* retried batch is in the result once, in its place.                      *)
(***************************************************************************)
NothingRepeated ==
  /\ pc = "notify" /\ prev # None =>
       \A i \in ToSet(fetched) : i >= Before(prev.tree) + prev.size - (IF kind = "ct" THEN 1 ELSE 0)
  /\ \A i, j \in DOMAIN fetched : i < j => fetched[i] < fetched[j]

(***************************************************************************)
(* A monitor that waits for its next iteration goes on from memory exactly *)
(* where the file it wrote ends, although a process that starts from this  *)
(* file goes on one entry earlier for a CT log.                            *)
(***************************************************************************)
PositionsAgree ==
  pc = "wait" /\ startIndex # None /\ file \in Checkpoint =>
    startIndex = Behind - (IF kind = "rekor" THEN 1 ELSE 0)

(***************************************************************************)
(* Neither a front end that lags behind nor a new tree makes a range that  *)
(* starts after its end, which would end the monitor.                      *)
(***************************************************************************)
RangesInOrder == pc = "search" => startIndex <= endIndex

(***************************************************************************)
(* MonitorLoop writes the checkpoint "after identity search to ensure      *)
(* identities are always searched even if something fails in the middle".  *)
(* It does not hold for an RFC 6962 log that answers get-entries with      *)
(* fewer entries than asked for: the rest is never asked for again.        *)
(***************************************************************************)
AlwaysSearched ==
  file \in Checkpoint /\ ~lost => \A i \in base..(Behind - 1) : i \in reported
==============================================================================
