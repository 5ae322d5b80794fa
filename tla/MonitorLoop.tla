----------------------------- MODULE MonitorLoop -----------------------------
(***************************************************************************)
(* The one-shot and periodic monitors rekor_monitor and ct_monitor, for    *)
(* the tile-based logs: MonitorLoop (internal/cmd/common.go) with the      *)
(* callbacks of RekorV2MonitorLogic (cmd/rekor_monitor/main.go; those of   *)
(* CTMonitorLogicStaticAPI do the same), and the checkpoint file that      *)
(* carries the position from one process to the next (pkg/util/file).      *)
(* Every entry of the log is one that the user is to be told of.           *)
(***************************************************************************)
EXTENDS Tiles

CONSTANTS
  LastShard,          \* the shards are 1 .. LastShard, in the order they appear
  MaxSize,            \* bound on the size of a shard
  None,               \* a nil pointer; a missing or empty file
  Torn,               \* a file whose last line is not a checkpoint
  UserRanges,         \* pairs of startIndex and endIndex a user may configure
  MaxFaults           \* bound on failed steps and crashes

Shard == 1..LastShard
Index == 0..(MaxSize - 1)
NoRange == <<None, None>>
Checkpoint == [origin : Shard, size : 1..MaxSize]

ASSUME MonitorLoopAssumption ==
  /\ LastShard \in Nat \ {0} /\ MaxSize \in Nat /\ MaxFaults \in Nat
  /\ None # Torn /\ {None, Torn} \cap (Int \cup [origin : Shard, size : Nat]) = {}
  /\ UserRanges \subseteq ((Index \cup {None}) \X (Index \cup {None}))

VARIABLES
  treeSize, latest,   \* the log: sizes of the shards, and the newest of them
  file,               \* the checkpoint file
  pc,                 \* where the process is; off when there is none
  once,               \* --once
  home,               \* l.latestShardOrigin, fixed when the process starts
  startIndex,         \* config.StartIndex
  endIndex,           \* config.EndIndex
  inputEnd,           \* was config.EndIndex set when the iteration began?
  prev, cur,          \* checkpoints of the iteration: the file's and the log's
  found,              \* result of the search
  (* observations *)
  base,               \* size of the first shard when its first checkpoint was written
  reported,           \* the entries of each shard the user was told of
  isRanged,           \* does the iteration use a configured range?
  waived,             \* entries of the first shard a configured range left out
  lost,               \* was the file lost while it was written?
  faults

logVars == <<treeSize, latest>>
procVars == <<pc, once, home, startIndex, endIndex, inputEnd, prev, cur, found, isRanged>>
obsVars == <<base, reported, waived, lost>>
vars == <<logVars, file, procVars, obsVars, faults>>

TypeOK ==
  /\ treeSize \in [Shard -> 0..MaxSize] /\ latest \in Shard
  /\ file \in Checkpoint \cup {None, Torn}
  /\ pc \in {"off", "check", "search", "notify", "write", "truncated", "wait"}
  /\ once \in BOOLEAN /\ home \in Shard
  /\ startIndex \in Index \cup {None} /\ endIndex \in Index \cup {None}
  /\ inputEnd \in BOOLEAN
  /\ prev \in Checkpoint \cup {None}
  /\ cur \in [origin : Shard, size : 0..MaxSize] \cup {None}
  /\ found \in SUBSET Index
  /\ base \in 1..MaxSize \cup {None}
  /\ reported \in [Shard -> SUBSET Index]
  /\ isRanged \in BOOLEAN /\ waived \in SUBSET Index
  /\ lost \in BOOLEAN /\ faults \in 0..MaxFaults

Init ==
  /\ treeSize \in [Shard -> 0..MaxSize] /\ latest = 1
  /\ file = None /\ pc = "off"
  /\ once = TRUE /\ home = 1 /\ startIndex = None /\ endIndex = None /\ inputEnd = FALSE
  /\ prev = None /\ cur = None /\ found = {} /\ isRanged = FALSE
  /\ base = None /\ reported = [o \in Shard |-> {}] /\ waived = {} /\ lost = FALSE
  /\ faults = 0

-------------------------------------------------------------------------------
(* The log *)

Grow(o) ==
  /\ treeSize[o] < MaxSize
  /\ treeSize' = [treeSize EXCEPT ![o] = @ + 1]
  /\ UNCHANGED <<latest, file, procVars, obsVars, faults>>

\* The next shard takes over; the earlier ones stay in the signing config.
Rollover ==
  /\ latest < LastShard
  /\ latest' = latest + 1
  /\ UNCHANGED <<treeSize, file, procVars, obsVars, faults>>

-------------------------------------------------------------------------------
(* One process *)

Fault == faults < MaxFaults /\ faults' = faults + 1

\* The process ends, and what it had in memory is gone.
Stop ==
  /\ pc' = "off" /\ once' = TRUE /\ home' = 1
  /\ startIndex' = None /\ endIndex' = None /\ inputEnd' = FALSE
  /\ prev' = None /\ cur' = None /\ found' = {} /\ isRanged' = FALSE

\* GetRekorShards: the newest of the signing config's shards.
LatestShardOrigin == latest

\* mainWithReturn, up to the loop: the flags, the config file and the shards.
Start(o, range) ==
  /\ pc = "off"
  /\ pc' = "check" /\ once' = o /\ home' = LatestShardOrigin
  /\ startIndex' = range[1] /\ endIndex' = range[2]
  /\ isRanged' = (range # NoRange)
  /\ UNCHANGED <<logVars, file, inputEnd, prev, cur, found, obsVars, faults>>

\* The check works on a copy of the logic, and finds the shards of the start again each
\* time: shards are only added, so that they are outdated when there is a newer one.
\* (CT's static logic makes its shards anew in any case, with the same result.)
ShardsNeedUpdating == home # latest
CheckedShard == IF ShardsNeedUpdating THEN LatestShardOrigin ELSE home

(***************************************************************************)
(* What RunConsistencyCheck returns: the file's checkpoint, where an empty *)
(* file is none, and the newest shard's, although the former is verified   *)
(* against its own shard. The log is honest: the verification succeeds.    *)
(***************************************************************************)
SavedCheckpoint == IF file \in Checkpoint THEN file ELSE None
LatestCheckpoint == [origin |-> CheckedShard, size |-> treeSize[CheckedShard]]

\* The index to start after: the configured one, or the last one behind the file's checkpoint.
RangeStart == IF startIndex # None \/ SavedCheckpoint = None THEN startIndex
              ELSE SavedCheckpoint.size - 1

\* Mutant: the last index of an empty log is -1.
RangeEndOfEmptyLog == IF endIndex # None THEN endIndex ELSE treeSize[latest] - 1

\* The last index to read: the configured one, or the last one of the log, if it has any.
RangeEnd == IF endIndex # None \/ treeSize[latest] = 0 THEN endIndex
            ELSE treeSize[latest] - 1

(***************************************************************************)
(* The consistency check and the range of the iteration. Without a start   *)
(* or an end nothing is searched, and the search of the next iteration     *)
(* starts from the end of this one.                                        *)
(***************************************************************************)
Check ==
  /\ pc = "check" /\ file # Torn
  /\ prev' = SavedCheckpoint /\ cur' = LatestCheckpoint
  /\ inputEnd' = (endIndex # None)
  /\ \/ /\ RangeStart # None /\ RangeEnd # None /\ RangeStart <= RangeEnd
        /\ pc' = "search" /\ startIndex' = RangeStart /\ endIndex' = RangeEnd
     \/ /\ RangeStart = None \/ RangeEnd = None
        /\ pc' = "write" /\ startIndex' = RangeEnd /\ endIndex' = None
  /\ UNCHANGED <<once, home, found, isRanged, logVars, file, obsVars, faults>>

\* "start index must be less or equal than end index"
CheckExits ==
  /\ pc = "check" /\ file # Torn
  /\ RangeStart # None /\ RangeEnd # None /\ RangeStart > RangeEnd
  /\ Stop
  /\ UNCHANGED <<logVars, file, obsVars, faults>>

\* The metadata, the log or the file cannot be read: the loop waits for the next tick.
CheckFails ==
  /\ pc = "check"
  /\ Fault \/ (file = Torn /\ UNCHANGED faults)
  /\ \/ once /\ Stop
     \/ ~once /\ pc' = "wait" /\ inputEnd' = (endIndex # None)
        /\ UNCHANGED <<once, home, startIndex, endIndex, prev, cur, found, isRanged>>
  /\ UNCHANGED <<logVars, file, obsVars>>

(***************************************************************************)
(* IdentitySearch of (startIndex, endIndex], always in the shard the       *)
(* process began with. A partial bundle exists for a checkpoint's size;    *)
(* one that was discarded, or never existed, is replaced by the full one,  *)
(* whose other entries are then taken too.                                 *)
(***************************************************************************)
EndTile == GetTileIndex(endIndex)
PartialWidth == (endIndex + 1) % TileWidth
FullBundleExists == TileEnd(EndTile) <= treeSize[home]
PartialPublished == cur = [origin |-> home, size |-> endIndex + 1]

SearchEnds == ReadEnds(endIndex, treeSize[home])

\* Mutant: the start of the range is searched too.
SearchFromStart ==
  /\ pc = "search"
  /\ \E e \in IF startIndex = endIndex THEN {endIndex} ELSE SearchEnds :
       found' = startIndex .. e
  /\ IF found' # {} THEN pc' = "notify" /\ UNCHANGED <<startIndex, endIndex>>
                    ELSE pc' = "write" /\ startIndex' = endIndex /\ endIndex' = None
  /\ UNCHANGED <<once, home, inputEnd, prev, cur, isRanged, logVars, file, obsVars, faults>>

Search ==
  /\ pc = "search"
  /\ \E e \in IF startIndex = endIndex THEN {endIndex} ELSE SearchEnds :
       found' = (startIndex + 1) .. e
  /\ IF found' # {} THEN pc' = "notify" /\ UNCHANGED <<startIndex, endIndex>>
                    ELSE pc' = "write" /\ startIndex' = endIndex /\ endIndex' = None
  /\ UNCHANGED <<once, home, inputEnd, prev, cur, isRanged, logVars, file, obsVars, faults>>

Unreadable ==
  /\ startIndex < endIndex
  /\ \/ endIndex >= treeSize[home]
     \/ PartialWidth > 0 /\ ~PartialPublished /\ ~FullBundleExists

\* Mutant: a failed search is treated like one that found nothing.
SearchFailsUnnoticed ==
  /\ pc = "search"
  /\ Fault \/ (Unreadable /\ UNCHANGED faults)
  /\ pc' = "write" /\ startIndex' = endIndex /\ endIndex' = None
  /\ UNCHANGED <<once, home, inputEnd, prev, cur, found, isRanged, logVars, file, obsVars>>

\* A failed search ends the process.
SearchFails ==
  /\ pc = "search"
  /\ Fault \/ (Unreadable /\ UNCHANGED faults)
  /\ Stop
  /\ UNCHANGED <<logVars, file, obsVars>>

Report == reported' = [reported EXCEPT ![home] = @ \cup found]

\* Mutant: the next iteration starts where this one did.
NotifyWithoutAdvance ==
  /\ pc = "notify"
  /\ Report
  /\ pc' = "write" /\ endIndex' = None
  /\ UNCHANGED <<startIndex, once, home, inputEnd, prev, cur, found, isRanged>>
  /\ UNCHANGED <<logVars, file, base, waived, lost, faults>>

\* TriggerNotifications, and the range of the next iteration.
Notify ==
  /\ pc = "notify"
  /\ Report
  /\ pc' = "write" /\ startIndex' = endIndex /\ endIndex' = None
  /\ UNCHANGED <<once, home, inputEnd, prev, cur, found, isRanged>>
  /\ UNCHANGED <<logVars, file, base, waived, lost, faults>>

\* A platform fails, perhaps after another one sent the notification.
NotifyFails ==
  /\ pc = "notify" /\ Fault
  /\ Report \/ UNCHANGED reported
  /\ Stop
  /\ UNCHANGED <<logVars, file, base, waived, lost>>

-------------------------------------------------------------------------------
(* The checkpoint file *)

\* WriteCheckpointRekorV2 writes what differs from the previous checkpoint and is not empty.
MustWrite == cur.size > 0 /\ cur # prev

\* After the checkpoint: the process ends, or waits for the next tick.
EndOfIteration ==
  IF once \/ inputEnd THEN Stop
  ELSE /\ pc' = "wait" /\ prev' = None /\ cur' = None /\ found' = {} /\ isRanged' = FALSE
       /\ UNCHANGED <<once, home, startIndex, endIndex, inputEnd>>

SkipWrite ==
  /\ pc = "write" /\ ~MustWrite
  /\ EndOfIteration
  /\ UNCHANGED <<logVars, file, obsVars, faults>>

\* os.WriteFile truncates the file before it writes to it.
Truncate ==
  /\ pc = "write" /\ MustWrite
  /\ file' = None /\ pc' = "truncated"
  /\ UNCHANGED <<once, home, startIndex, endIndex, inputEnd, prev, cur, found, isRanged>>
  /\ UNCHANGED <<logVars, obsVars, faults>>

FinishWrite ==
  /\ pc = "truncated"
  /\ file' = cur
  /\ base' = IF base = None /\ cur.origin = 1 THEN cur.size ELSE base
  /\ waived' = IF isRanged /\ cur.origin = 1
               THEN waived \cup ((0..(cur.size - 1)) \ reported[1]) ELSE waived
  /\ EndOfIteration
  /\ UNCHANGED <<logVars, reported, lost, faults>>

\* The file cannot be opened, or the disk is full when it is already truncated.
WriteFails ==
  /\ pc \in {"write", "truncated"} /\ MustWrite /\ Fault
  /\ \/ pc = "write" /\ UNCHANGED <<file, lost>>
     \/ pc = "truncated" /\ file' \in {None, Torn} /\ lost' = TRUE
  /\ Stop
  /\ UNCHANGED <<logVars, base, reported, waived>>

-------------------------------------------------------------------------------

Tick ==
  /\ pc = "wait" /\ pc' = "check"
  /\ UNCHANGED <<once, home, startIndex, endIndex, inputEnd, prev, cur, found, isRanged>>
  /\ UNCHANGED <<logVars, file, obsVars, faults>>

\* SIGTERM is seen while the loop waits.
ShutDown ==
  /\ pc = "wait" /\ Stop
  /\ UNCHANGED <<logVars, file, obsVars, faults>>

\* The process is killed anywhere; a truncated file stays empty.
Crash ==
  /\ pc # "off" /\ Fault
  /\ lost' = (lost \/ pc = "truncated")
  /\ Stop
  /\ UNCHANGED <<logVars, file, base, reported, waived>>

Next ==
  \/ \E o \in Shard : Grow(o)
  \/ Rollover
  \/ \E o \in BOOLEAN, range \in UserRanges \cup {NoRange} : Start(o, range)
  \/ Check \/ CheckExits \/ CheckFails
  \/ Search \/ SearchFails
  \/ Notify \/ NotifyFails
  \/ SkipWrite \/ Truncate \/ FinishWrite \/ WriteFails
  \/ Tick \/ ShutDown \/ Crash

Spec == Init /\ [][Next]_vars

-------------------------------------------------------------------------------
(***************************************************************************)
(* No entry of the first shard behind the saved checkpoint was skipped:    *)
(* the user was told of every one that came after the first checkpoint,    *)
(* across failures, crashes and processes, except for those a configured   *)
(* range left out, and unless a write of the file was cut short.           *)
(***************************************************************************)
NothingSkipped ==
  file \in Checkpoint /\ file.origin = 1 /\ ~lost =>
    \A i \in base..(file.size - 1) : i \in reported[1] \cup waived

(***************************************************************************)
(* What lies behind the saved checkpoint is not reported again: a process  *)
(* that goes on from memory, and one that starts from the file, both begin *)
(* right after it.                                                         *)
(***************************************************************************)
NothingRepeated ==
  pc = "notify" /\ ~isRanged /\ prev # None /\ prev.origin = home =>
    \A i \in found : i >= prev.size

(***************************************************************************)
(* A periodic monitor that waits for its next iteration is where a process *)
(* started now would begin: config.StartIndex in memory and the checkpoint *)
(* file never drift apart, across rollovers too.                           *)
(***************************************************************************)
PositionsAgree ==
  pc = "wait" /\ ~isRanged /\ startIndex # None =>
    file \in Checkpoint /\ startIndex = file.size - 1

(***************************************************************************)
(* MonitorLoop writes the checkpoint "after identity search to ensure      *)
(* identities are always searched even if something fails in the middle",  *)
(* so that the checkpoint of a shard that took over from one the monitor   *)
(* watched means that its entries were searched. It does not hold: the     *)
(* search continues with the index that was reached in the old shard.      *)
(***************************************************************************)
RolloverSearched ==
  file \in Checkpoint /\ file.origin > 1 /\ base # None /\ ~lost =>
    \A i \in 0..(file.size - 1) : i \in reported[file.origin]
==============================================================================
