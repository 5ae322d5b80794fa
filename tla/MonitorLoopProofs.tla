-------------------------- MODULE MonitorLoopProofs --------------------------
(***************************************************************************)
(* The safety properties of MonitorLoop, for any number of shards, sizes,  *)
(* configured ranges, processes and faults.                                *)
(***************************************************************************)
EXTENDS MonitorLoop, TLAPS

USE DEF Index, LatestShardOrigin, ShardsNeedUpdating, CheckedShard

LEMMA Distinct ==
  /\ None # Torn /\ None \notin Int /\ Torn \notin Int
  /\ None \notin Checkpoint /\ Torn \notin Checkpoint
<1>1. Checkpoint \subseteq [origin : Shard, size : Nat]
  BY MonitorLoopAssumption DEF Checkpoint
<1> QED
  BY <1>1, MonitorLoopAssumption

LEMMA CheckpointType ==
  ASSUME NEW c \in Checkpoint
  PROVE  c.origin \in Shard /\ c.origin \in Nat /\ c.origin >= 1 /\ c.size \in Nat /\ c.size >= 1
<1>1. c.origin \in Shard /\ c.size \in 1..MaxSize
  BY DEF Checkpoint
<1> QED
  BY <1>1, MonitorLoopAssumption DEF Shard

LEMMA ShardType == Shard \subseteq Nat /\ 1 \in Shard /\ \A o \in Shard : o >= 1
BY MonitorLoopAssumption DEF Shard

\* A full last tile reaches to the end of the tree or beyond (TileReaderProofs has more on tiles).
LEMMA LastTileReach ==
  ASSUME NEW n \in Nat
  PROVE  TileEnd(GetTileIndex(n - 1)) \in Nat /\ TileEnd(GetTileIndex(n - 1)) >= n
<1> DEFINE q == n \div TileWidth
           r == n % TileWidth
<1>1. n = TileWidth * q + r /\ r \in 0..(TileWidth - 1) /\ q \in Nat
  BY TileWidthAssumption
<1>2. GetTileIndex(n - 1) = IF r = 0 THEN q - 1 ELSE q
  BY DEF GetTileIndex
<1> HIDE DEF q, r
<1>3. /\ TileEnd(q - 1) = TileWidth * q /\ TileEnd(q) = TileWidth * q + TileWidth
      /\ TileWidth * q \in Nat
  BY <1>1, TileWidthAssumption DEF TileEnd
<1> QED
  BY <1>1, <1>2, <1>3, TileWidthAssumption

-------------------------------------------------------------------------------
(* Type correctness *)

\* What the steps of an iteration rely on.
IterTypeOK ==
  /\ pc \in {"search", "notify", "write", "truncated"} =>
       cur \in [origin : Shard, size : 0..MaxSize]
  /\ pc \in {"search", "notify"} =>
       startIndex \in Index /\ endIndex \in Index /\ startIndex <= endIndex
  /\ pc = "truncated" => cur.size > 0

LEMMA InitTypeOK == Init => TypeOK /\ IterTypeOK
<1> SUFFICES ASSUME Init PROVE TypeOK /\ IterTypeOK
  OBVIOUS
<1> USE DEF Init
<1>1. /\ treeSize \in [Shard -> 0..MaxSize] /\ latest \in Shard /\ home \in Shard
      /\ file \in Checkpoint \cup {None, Torn} /\ pc = "off"
      /\ once \in BOOLEAN /\ inputEnd \in BOOLEAN /\ isRanged \in BOOLEAN /\ lost \in BOOLEAN
  BY ShardType
<1>2. /\ startIndex \in Index \cup {None} /\ endIndex \in Index \cup {None}
      /\ prev \in Checkpoint \cup {None}
      /\ cur \in [origin : Shard, size : 0..MaxSize] \cup {None}
      /\ found \in SUBSET Index /\ base \in 1..MaxSize \cup {None} /\ waived \in SUBSET Index
  OBVIOUS
<1>3. reported \in [Shard -> SUBSET Index] /\ faults \in 0..MaxFaults
  BY MonitorLoopAssumption
<1> QED
  BY <1>1, <1>2, <1>3 DEF TypeOK, IterTypeOK

LEMMA StopTypeOK ==
  ASSUME Stop
  PROVE  /\ pc' = "off" /\ once' \in BOOLEAN /\ home' \in Shard
         /\ startIndex' = None /\ endIndex' = None /\ inputEnd' = FALSE
         /\ prev' = None /\ cur' = None /\ found' = {} /\ isRanged' = FALSE
BY ShardType DEF Stop

LEMMA RangeType ==
  ASSUME TypeOK
  PROVE  /\ SavedCheckpoint \in Checkpoint \cup {None}
         /\ LatestCheckpoint \in [origin : Shard, size : 0..MaxSize]
         /\ RangeStart \in Index \cup {None} /\ RangeEnd \in Index \cup {None}
<1>1. /\ SavedCheckpoint \in Checkpoint \cup {None}
      /\ LatestCheckpoint \in [origin : Shard, size : 0..MaxSize]
  BY DEF TypeOK, SavedCheckpoint, LatestCheckpoint
<1>2. RangeStart \in Index \cup {None}
  BY <1>1, MonitorLoopAssumption, Distinct DEF TypeOK, RangeStart, Checkpoint
<1>3. treeSize[latest] \in 0..MaxSize
  BY DEF TypeOK
<1>4. RangeEnd \in Index \cup {None}
  BY <1>3, MonitorLoopAssumption DEF TypeOK, RangeEnd
<1> QED
  BY <1>1, <1>2, <1>4

\* A search reaches at least the end of its range, and never past the shard.
LEMMA SearchReach ==
  ASSUME TypeOK, IterTypeOK, pc = "search",
         NEW e \in IF startIndex = endIndex THEN {endIndex} ELSE SearchEnds
  PROVE  e \in Index /\ e >= endIndex
<1>1. startIndex \in Index /\ endIndex \in Index /\ treeSize[home] \in 0..MaxSize
  BY DEF TypeOK, IterTypeOK
<1>2. CASE e = endIndex
  BY <1>1, <1>2, MonitorLoopAssumption
<1>3. CASE FullBundleExists /\ e = TileEnd(EndTile) - 1
  <2>1. TileEnd(EndTile) \in Nat /\ TileEnd(EndTile) >= endIndex + 1
    <3>1. endIndex + 1 \in Nat /\ (endIndex + 1) - 1 = endIndex
      BY <1>1, MonitorLoopAssumption
    <3> QED
      BY <3>1, LastTileReach DEF EndTile
  <2>2. TileEnd(EndTile) <= treeSize[home]
    BY <1>3 DEF FullBundleExists
  <2> QED
    BY <1>1, <1>3, <2>1, <2>2, MonitorLoopAssumption
<1> QED
  BY <1>2, <1>3 DEF SearchEnds, ReadEnds, FullBundleExists, EndTile

LEMMA FaultType ==
  ASSUME TypeOK
  PROVE  /\ Fault => faults' \in 0..MaxFaults
         /\ (Fault \/ UNCHANGED faults) => faults' \in 0..MaxFaults
BY MonitorLoopAssumption DEF TypeOK, Fault

LEMMA EndOfIterationType ==
  ASSUME TypeOK, EndOfIteration
  PROVE  /\ pc' \in {"off", "wait"} /\ once' \in BOOLEAN /\ home' \in Shard
         /\ startIndex' \in Index \cup {None} /\ endIndex' \in Index \cup {None}
         /\ inputEnd' \in BOOLEAN
         /\ prev' = None /\ cur' = None /\ found' = {} /\ isRanged' = FALSE
<1>1. CASE once \/ inputEnd
  BY <1>1, StopTypeOK DEF EndOfIteration
<1>2. CASE ~(once \/ inputEnd)
  BY <1>2 DEF EndOfIteration, TypeOK
<1> QED
  BY <1>1, <1>2

LEMMA NextTypeOK == TypeOK /\ IterTypeOK /\ [Next]_vars => TypeOK' /\ IterTypeOK'
<1> SUFFICES ASSUME TypeOK, IterTypeOK, [Next]_vars PROVE TypeOK' /\ IterTypeOK'
  OBVIOUS
<1> USE MonitorLoopAssumption, Distinct
<1>1. ASSUME NEW o \in Shard, Grow(o) PROVE TypeOK' /\ IterTypeOK'
  BY <1>1 DEF Grow, TypeOK, IterTypeOK, procVars, obsVars
<1>2. CASE Rollover
  BY <1>2 DEF Rollover, TypeOK, IterTypeOK, procVars, obsVars, Shard
<1>3. ASSUME NEW o \in BOOLEAN, NEW range \in UserRanges \cup {NoRange}, Start(o, range)
      PROVE  TypeOK' /\ IterTypeOK'
  <2>1. range[1] \in Index \cup {None} /\ range[2] \in Index \cup {None}
    BY DEF NoRange
  <2>2. isRanged' \in BOOLEAN
    BY <1>3 DEF Start
  <2> QED
    BY <1>3, <2>1, <2>2 DEF Start, TypeOK, IterTypeOK, logVars, obsVars
<1>4. CASE Check
  <2>1. inputEnd' \in BOOLEAN
    BY <1>4 DEF Check
  <2> QED
    BY <1>4, <2>1, RangeType DEF Check, TypeOK, IterTypeOK, logVars, obsVars
<1>5. CASE CheckExits
  BY <1>5, StopTypeOK DEF CheckExits, TypeOK, IterTypeOK, logVars, obsVars
<1>6. CASE CheckFails
  <2>1. faults' \in 0..MaxFaults
    BY <1>6, FaultType DEF CheckFails
  <2>2. CASE Stop
    BY <1>6, <2>1, <2>2, StopTypeOK DEF CheckFails, TypeOK, IterTypeOK, logVars, obsVars
  <2>3. CASE pc' = "wait" /\ inputEnd' = (endIndex # None)
             /\ UNCHANGED <<once, home, startIndex, endIndex, prev, cur, found, isRanged>>
    <3>1. inputEnd' \in BOOLEAN
      BY <2>3
    <3> QED
      BY <1>6, <2>1, <2>3, <3>1 DEF CheckFails, TypeOK, IterTypeOK, logVars, obsVars
  <2> QED
    BY <1>6, <2>2, <2>3 DEF CheckFails
<1>7. CASE Search
  <2>1. PICK e \in IF startIndex = endIndex THEN {endIndex} ELSE SearchEnds :
          found' = (startIndex + 1) .. e
    BY <1>7 DEF Search
  <2>2. pc = "search"
    BY <1>7 DEF Search
  <2>3. e \in Index /\ startIndex \in Index /\ endIndex \in Index
    BY <2>1, <2>2, SearchReach DEF IterTypeOK
  <2>4. found' \in SUBSET Index
    BY <2>1, <2>3
  <2>5. CASE pc' = "notify" /\ UNCHANGED <<startIndex, endIndex>>
    BY <1>7, <2>2, <2>4, <2>5 DEF Search, TypeOK, IterTypeOK, logVars, obsVars
  <2>6. CASE pc' = "write" /\ startIndex' = endIndex /\ endIndex' = None
    BY <1>7, <2>2, <2>3, <2>4, <2>6 DEF Search, TypeOK, IterTypeOK, logVars, obsVars
  <2> QED
    BY <1>7, <2>5, <2>6 DEF Search
<1>8. CASE SearchFails
  BY <1>8, FaultType, StopTypeOK DEF SearchFails, TypeOK, IterTypeOK, logVars, obsVars
<1>9. ASSUME Report PROVE reported' \in [Shard -> SUBSET Index]
  BY <1>9 DEF Report, TypeOK
<1>10. CASE Notify
  BY <1>9, <1>10 DEF Notify, TypeOK, IterTypeOK, logVars
<1>11. CASE NotifyFails
  BY <1>9, <1>11, FaultType, StopTypeOK DEF NotifyFails, TypeOK, IterTypeOK, logVars
<1>12. CASE SkipWrite
  BY <1>12, EndOfIterationType DEF SkipWrite, TypeOK, IterTypeOK, logVars, obsVars
<1>13. CASE Truncate
  BY <1>13 DEF Truncate, MustWrite, TypeOK, IterTypeOK, logVars, obsVars
<1>14. CASE FinishWrite
  <2>1. cur \in Checkpoint
    BY <1>14 DEF FinishWrite, IterTypeOK, Checkpoint
  <2>2. base' \in 1..MaxSize \cup {None}
    BY <1>14, <2>1 DEF FinishWrite, TypeOK, Checkpoint
  <2>3. waived' \in SUBSET Index
    <3>1. 0..(cur.size - 1) \subseteq Index
      BY <2>1 DEF Checkpoint
    <3>2. waived' = waived \/ waived' = waived \cup ((0..(cur.size - 1)) \ reported[1])
      BY <1>14 DEF FinishWrite
    <3> QED
      BY <3>1, <3>2 DEF TypeOK
  <2>4. file' = cur /\ EndOfIteration /\ UNCHANGED <<logVars, reported, lost, faults>>
    BY <1>14 DEF FinishWrite
  <2>5. file' \in Checkpoint \cup {None, Torn}
    BY <2>1, <2>4
  <2>6. /\ pc' \in {"off", "wait"} /\ once' \in BOOLEAN /\ home' \in Shard
        /\ startIndex' \in Index \cup {None} /\ endIndex' \in Index \cup {None}
        /\ inputEnd' \in BOOLEAN
        /\ prev' = None /\ cur' = None /\ found' = {} /\ isRanged' = FALSE
    BY <2>4, EndOfIterationType
  <2>7. /\ treeSize' \in [Shard -> 0..MaxSize] /\ latest' \in Shard
        /\ reported' \in [Shard -> SUBSET Index] /\ lost' \in BOOLEAN /\ faults' \in 0..MaxFaults
    BY <2>4 DEF TypeOK, logVars
  <2> QED
    BY <2>2, <2>3, <2>5, <2>6, <2>7 DEF TypeOK, IterTypeOK
<1>15. CASE WriteFails
  BY <1>15, FaultType, StopTypeOK DEF WriteFails, TypeOK, IterTypeOK, logVars
<1>16. CASE Tick
  BY <1>16 DEF Tick, TypeOK, IterTypeOK, logVars, obsVars
<1>17. CASE ShutDown
  BY <1>17, StopTypeOK DEF ShutDown, TypeOK, IterTypeOK, logVars, obsVars
<1>18. CASE Crash
  <2>1. lost' \in BOOLEAN
    BY <1>18 DEF Crash, TypeOK
  <2> QED
    BY <1>18, <2>1, FaultType, StopTypeOK DEF Crash, TypeOK, IterTypeOK, logVars
<1>19. CASE UNCHANGED vars
  BY <1>19 DEF vars, TypeOK, IterTypeOK, logVars, procVars, obsVars
<1> QED
  BY <1>1, <1>2, <1>3, <1>4, <1>5, <1>6, <1>7, <1>8, <1>10, <1>11, <1>12, <1>13, <1>14,
     <1>15, <1>16, <1>17, <1>18, <1>19 DEF Next

(***************************************************************************)
(* Every reachable state of the monitors is well typed: no index is        *)
(* negative or beyond a shard, and no empty checkpoint reaches the file.   *)
(***************************************************************************)
THEOREM MonitorTypeCorrect == Spec => []TypeOK
<1>1. Init => TypeOK /\ IterTypeOK
  BY InitTypeOK
<1>2. (TypeOK /\ IterTypeOK) /\ [Next]_vars => (TypeOK /\ IterTypeOK)'
  BY NextTypeOK
<1> QED
  BY <1>1, <1>2, PTL DEF Spec

-------------------------------------------------------------------------------
(* The position: what the file, the memory and the reports say of each other *)

\* The first shard is watched, and the file was never cut short.
Watched == base # None /\ ~lost

\* Every entry of the first shard below n, from the first checkpoint on, is accounted for.
Behind(n) == \A i \in base..(n - 1) : i \in reported[1] \cup waived

FileInv ==
  /\ file \in Checkpoint => file.origin <= latest /\ file.size <= treeSize[file.origin]
  /\ file \in Checkpoint /\ file.origin = 1 => base # None
  /\ Watched /\ pc # "truncated" => file \in Checkpoint
  /\ Watched /\ file \in Checkpoint /\ file.origin = 1 => Behind(file.size)

\* Between two iterations, memory and file are at the same position.
RestInv ==
  /\ pc # "off" => home <= latest
  /\ pc \in {"check", "wait"} /\ ~isRanged =>
       /\ endIndex = None
       /\ startIndex # None => file \in Checkpoint /\ startIndex = file.size - 1

\* The checkpoints of an iteration.
CheckpointsInv ==
  pc \in {"search", "notify", "write", "truncated"} =>
    /\ home <= cur.origin /\ cur.origin <= latest /\ cur.size <= treeSize[cur.origin]
    /\ pc # "truncated" => prev = SavedCheckpoint
    /\ ~isRanged => ~inputEnd

\* The range of an iteration, which is passed only when it was searched and reported.
RangeInv ==
  /\ pc \in {"search", "notify"} /\ ~inputEnd => endIndex = cur.size - 1
  /\ pc \in {"search", "notify"} /\ ~isRanged =>
       file \in Checkpoint /\ startIndex = file.size - 1 /\ file.origin <= cur.origin
  /\ pc = "notify" => (startIndex + 1)..endIndex \subseteq found
  /\ pc = "notify" => \A i \in found : i > startIndex
  /\ pc \in {"write", "truncated"} =>
       /\ endIndex = None
       /\ ~inputEnd /\ cur.size = 0 => startIndex = None
       /\ ~inputEnd /\ cur.size > 0 => startIndex = cur.size - 1
       /\ Watched /\ ~isRanged /\ cur.origin = 1 => Behind(cur.size)

IInv == TypeOK /\ IterTypeOK /\ FileInv /\ RestInv /\ CheckpointsInv /\ RangeInv

LEMMA InitIInv == Init => IInv
<1> SUFFICES ASSUME Init PROVE IInv
  OBVIOUS
<1>1. FileInv
  BY Distinct DEF Init, FileInv, Watched
<1>2. RestInv /\ CheckpointsInv /\ RangeInv
  BY DEF Init, RestInv, CheckpointsInv, RangeInv
<1> QED
  BY <1>1, <1>2, InitTypeOK DEF IInv

\* The log moves in one direction.
LEMMA LogMoves ==
  ASSUME IInv, [Next]_vars
  PROVE  latest' >= latest /\ \A o \in Shard : treeSize'[o] >= treeSize[o]
<1> USE ShardType DEF IInv, TypeOK
<1>1. ASSUME NEW o \in Shard, Grow(o) PROVE latest' >= latest /\ \A q \in Shard : treeSize'[q] >= treeSize[q]
  BY <1>1 DEF Grow
<1>2. CASE Rollover
  BY <1>2 DEF Rollover
<1>3. CASE UNCHANGED logVars
  BY <1>3 DEF logVars
<1> QED
  BY <1>1, <1>2, <1>3 DEF Next, vars, Start, Check, CheckExits, CheckFails, Search, SearchFails,
     Notify, NotifyFails, SkipWrite, Truncate, FinishWrite, WriteFails, Tick, ShutDown, Crash

\* A step that leaves the file alone keeps what it says.
LEMMA FileKept ==
  ASSUME IInv, [Next]_vars, UNCHANGED <<file, base, waived, lost>>,
         reported[1] \subseteq reported'[1],
         pc' # "truncated" => pc # "truncated"
  PROVE  FileInv'
<1>1. file \in Checkpoint => file.origin <= latest' /\ file.size <= treeSize'[file.origin]
  <2> SUFFICES ASSUME file \in Checkpoint
               PROVE  file.origin <= latest' /\ file.size <= treeSize'[file.origin]
    OBVIOUS
  <2>1. /\ file.origin \in Shard /\ file.size \in 1..MaxSize
        /\ treeSize[file.origin] \in 0..MaxSize /\ treeSize'[file.origin] \in 0..MaxSize
        /\ latest \in Nat /\ latest' \in Nat /\ file.origin \in Nat
    BY NextTypeOK, ShardType DEF Checkpoint, IInv, TypeOK
  <2>2. treeSize'[file.origin] >= treeSize[file.origin] /\ latest' >= latest
    BY <2>1, LogMoves
  <2>3. file.origin <= latest /\ file.size <= treeSize[file.origin]
    BY DEF IInv, FileInv
  <2> QED
    BY <2>1, <2>2, <2>3, MonitorLoopAssumption
<1>2. Watched' = Watched
  BY DEF Watched
<1> QED
  BY <1>1, <1>2 DEF IInv, FileInv, Behind

LEMMA NextFileInv == IInv /\ [Next]_vars => FileInv'
<1> SUFFICES ASSUME IInv, [Next]_vars PROVE FileInv'
  OBVIOUS
<1> USE Distinct
<1>1. CASE UNCHANGED <<file, obsVars>> /\ (pc' # "truncated" => pc # "truncated")
  BY <1>1, FileKept DEF obsVars
<1>2. ASSUME NEW o \in Shard, Grow(o) PROVE FileInv'
  BY <1>2, <1>1 DEF Grow, procVars
<1>3. CASE Rollover
  BY <1>3, <1>1 DEF Rollover, procVars
<1>4. ASSUME NEW o \in BOOLEAN, NEW range \in UserRanges \cup {NoRange}, Start(o, range)
      PROVE  FileInv'
  BY <1>4, <1>1 DEF Start
<1>5. CASE Check \/ CheckExits \/ CheckFails \/ Search \/ SearchFails
  BY <1>5, <1>1 DEF Check, CheckExits, CheckFails, Search, SearchFails
<1>6. CASE SkipWrite \/ Tick \/ ShutDown
  BY <1>6, <1>1 DEF SkipWrite, Tick, ShutDown
<1>7. ASSUME Report PROVE reported[1] \subseteq reported'[1]
  BY <1>7, ShardType DEF Report, IInv, TypeOK
<1>8. CASE Notify
  BY <1>7, <1>8, FileKept DEF Notify
<1>9. CASE NotifyFails
  BY <1>7, <1>9, FileKept DEF NotifyFails
<1>10. CASE Truncate
  BY <1>10 DEF Truncate, FileInv
<1>11. CASE FinishWrite
  <2>1. cur \in Checkpoint /\ file' = cur
    BY <1>11 DEF FinishWrite, IInv, IterTypeOK, Checkpoint
  <2>2. cur.origin <= latest /\ cur.size <= treeSize[cur.origin] /\ UNCHANGED logVars
    BY <1>11 DEF FinishWrite, IInv, CheckpointsInv
  <2>3. ASSUME Watched', cur.origin = 1
        PROVE  \A i \in base'..(cur.size - 1) : i \in reported'[1] \cup waived'
    <3>1. UNCHANGED reported /\ lost' = lost /\ ~lost /\ cur.size \in Nat
      BY <1>11, <2>1, <2>3, MonitorLoopAssumption DEF FinishWrite, Watched, Checkpoint
    <3>2. CASE base = None
      BY <1>11, <2>3, <3>1, <3>2 DEF FinishWrite
    <3>3. CASE base # None /\ isRanged
      <4>1. base' = base /\ waived' = waived \cup ((0..(cur.size - 1)) \ reported[1])
        BY <1>11, <2>3, <3>3 DEF FinishWrite
      <4>2. base \in Nat
        BY <3>3, MonitorLoopAssumption DEF IInv, TypeOK
      <4> QED
        BY <3>1, <4>1, <4>2
    <3>4. CASE base # None /\ ~isRanged
      <4>1. base' = base /\ waived' = waived
        BY <1>11, <3>4 DEF FinishWrite
      <4>2. Behind(cur.size)
        BY <1>11, <2>3, <3>1, <3>4 DEF FinishWrite, Watched, IInv, RangeInv
      <4> QED
        BY <3>1, <4>1, <4>2 DEF Behind
    <3> QED
      BY <3>2, <3>3, <3>4
  <2> QED
    <3>1. cur.origin = 1 => base' # None
      BY <1>11, <2>1, CheckpointType DEF FinishWrite
    <3> QED
      BY <2>1, <2>2, <2>3, <3>1 DEF FileInv, Behind, logVars
<1>12. CASE WriteFails
  <2>1. CASE pc = "write" /\ UNCHANGED <<file, lost>>
    BY <1>12, <2>1, FileKept DEF WriteFails
  <2>2. CASE file' \in {None, Torn} /\ lost' = TRUE
    BY <2>2 DEF FileInv, Watched
  <2> QED
    BY <1>12, <2>1, <2>2 DEF WriteFails
<1>13. CASE Crash
  <2>1. UNCHANGED <<file, base, reported, waived>> /\ lost' = (lost \/ pc = "truncated")
    BY <1>13 DEF Crash
  <2>2. CASE pc = "truncated"
    <3>1. lost' = TRUE /\ UNCHANGED logVars
      BY <1>13, <2>1, <2>2 DEF Crash
    <3> QED
      BY <2>1, <3>1 DEF FileInv, Watched, IInv, logVars
  <2>3. CASE pc # "truncated"
    <3>1. lost' = lost
      BY <2>1, <2>3 DEF IInv, TypeOK
    <3> QED
      BY <2>1, <2>3, <3>1, FileKept
  <2> QED
    BY <2>2, <2>3
<1>14. CASE UNCHANGED vars
  BY <1>14, <1>1 DEF vars, procVars
<1> QED
  BY <1>2, <1>3, <1>4, <1>5, <1>6, <1>8, <1>9, <1>10, <1>11, <1>12, <1>13, <1>14 DEF Next

-------------------------------------------------------------------------------

\* Where an iteration ends, the memory holds the position of the file.
LEMMA RestAfterIteration ==
  ASSUME IInv, pc \in {"write", "truncated"}, EndOfIteration, UNCHANGED logVars,
         file' = cur \/ (~MustWrite /\ pc = "write" /\ UNCHANGED file)
  PROVE  RestInv'
<1>1. CASE once \/ inputEnd
  BY <1>1, StopTypeOK DEF EndOfIteration, RestInv
<1>2. CASE ~(once \/ inputEnd)
  <2>1. /\ pc' = "wait" /\ home' = home /\ startIndex' = startIndex /\ endIndex' = None
        /\ latest' = latest
    BY <1>2 DEF EndOfIteration, IInv, RangeInv, logVars
  <2>2. home <= latest
    BY DEF IInv, RestInv
  <2>3. cur \in [origin : Shard, size : 0..MaxSize]
    BY DEF IInv, IterTypeOK
  <2>4. ASSUME startIndex # None
        PROVE  cur \in Checkpoint /\ startIndex = cur.size - 1
    BY <1>2, <2>3, <2>4, MonitorLoopAssumption DEF IInv, RangeInv, Checkpoint
  <2>5. ASSUME startIndex # None PROVE file' = cur
    <3>1. CASE ~MustWrite /\ pc = "write" /\ UNCHANGED file
      <4>1. cur = prev /\ prev = SavedCheckpoint
        BY <2>4, <2>5, <3>1 DEF MustWrite, Checkpoint, IInv, CheckpointsInv
      <4> QED
        BY <2>4, <2>5, <3>1, <4>1, Distinct DEF SavedCheckpoint
    <3> QED
      BY <3>1
  <2> QED
    BY <2>1, <2>2, <2>4, <2>5 DEF RestInv
<1> QED
  BY <1>1, <1>2

LEMMA NextRestInv == IInv /\ [Next]_vars => RestInv'
<1> SUFFICES ASSUME IInv, [Next]_vars PROVE RestInv'
  OBVIOUS
<1> USE DEF IInv
<1>1. CASE Stop
  BY <1>1, StopTypeOK DEF RestInv
<1>2. CASE UNCHANGED <<pc, home, startIndex, endIndex, isRanged, file>>
  <2>1. latest \in Nat /\ home \in Nat /\ latest' \in Nat /\ latest' >= latest
    BY LogMoves, ShardType, NextTypeOK DEF TypeOK
  <2> QED
    BY <1>2, <2>1 DEF RestInv
<1>3. ASSUME NEW o \in Shard, Grow(o) PROVE RestInv'
  BY <1>3, <1>2 DEF Grow, procVars
<1>4. CASE Rollover
  BY <1>4, <1>2 DEF Rollover, procVars
<1>5. ASSUME NEW o \in BOOLEAN, NEW range \in UserRanges \cup {NoRange}, Start(o, range)
      PROVE  RestInv'
  <2>1. home' = latest /\ latest' = latest /\ latest \in Nat
    BY <1>5, ShardType DEF Start, logVars, TypeOK
  <2>2. isRanged' = (range # NoRange) /\ startIndex' = range[1] /\ endIndex' = range[2]
    BY <1>5 DEF Start
  <2>3. CASE range = NoRange
    <3>1. startIndex' = None /\ endIndex' = None
      BY <2>2, <2>3 DEF NoRange
    <3> QED
      BY <2>1, <3>1 DEF RestInv
  <2>4. CASE range # NoRange
    <3>1. isRanged'
      BY <2>2, <2>4
    <3> QED
      BY <2>1, <3>1 DEF RestInv
  <2> QED
    BY <2>3, <2>4
<1>6. CASE Check
  BY <1>6 DEF Check, RestInv, logVars
<1>7. CASE CheckExits \/ SearchFails \/ NotifyFails \/ WriteFails \/ ShutDown \/ Crash
  BY <1>7, <1>1 DEF CheckExits, SearchFails, NotifyFails, WriteFails, ShutDown, Crash
<1>8. CASE CheckFails
  BY <1>8, <1>1 DEF CheckFails, RestInv, logVars
<1>9. CASE Search \/ Notify \/ Truncate
  BY <1>9 DEF Search, Notify, Truncate, RestInv, logVars
<1>10. CASE SkipWrite
  BY <1>10, RestAfterIteration DEF SkipWrite
<1>11. CASE FinishWrite
  BY <1>11, RestAfterIteration DEF FinishWrite
<1>12. CASE Tick
  BY <1>12 DEF Tick, RestInv, logVars
<1>13. CASE UNCHANGED vars
  BY <1>13, <1>2 DEF vars, procVars
<1> QED
  BY <1>3, <1>4, <1>5, <1>6, <1>7, <1>8, <1>9, <1>10, <1>11, <1>12, <1>13 DEF Next

-------------------------------------------------------------------------------

LEMMA NextCheckpointsInv == IInv /\ [Next]_vars => CheckpointsInv'
<1> SUFFICES ASSUME IInv, [Next]_vars PROVE CheckpointsInv'
  OBVIOUS
<1> USE DEF IInv
<1>1. CASE pc' \in {"off", "check", "wait"}
  BY <1>1 DEF CheckpointsInv
<1>2. CASE UNCHANGED <<pc, home, prev, cur, inputEnd, isRanged, file>>
  <2> SUFFICES ASSUME pc \in {"search", "notify", "write", "truncated"}
               PROVE  cur.origin <= latest' /\ cur.size <= treeSize'[cur.origin]
    BY <1>2 DEF CheckpointsInv, SavedCheckpoint
  <2>1. /\ cur.origin \in Shard /\ cur.size \in 0..MaxSize
        /\ latest \in Nat /\ latest' \in Nat /\ cur.origin \in Nat
        /\ treeSize[cur.origin] \in 0..MaxSize /\ treeSize'[cur.origin] \in 0..MaxSize
    BY NextTypeOK, ShardType DEF TypeOK, IterTypeOK
  <2>2. latest' >= latest /\ treeSize'[cur.origin] >= treeSize[cur.origin]
    BY <2>1, LogMoves
  <2>3. cur.origin <= latest /\ cur.size <= treeSize[cur.origin]
    BY DEF CheckpointsInv
  <2> QED
    BY <2>1, <2>2, <2>3, MonitorLoopAssumption
<1>3. ASSUME NEW o \in Shard, Grow(o) PROVE CheckpointsInv'
  BY <1>3, <1>2 DEF Grow, procVars
<1>4. CASE Rollover
  BY <1>4, <1>2 DEF Rollover, procVars
<1>5. ASSUME NEW o \in BOOLEAN, NEW range \in UserRanges \cup {NoRange}, Start(o, range)
      PROVE  CheckpointsInv'
  BY <1>5, <1>1 DEF Start
<1>6. CASE Check
  <2>1. /\ cur' = LatestCheckpoint /\ prev' = SavedCheckpoint /\ SavedCheckpoint' = SavedCheckpoint
        /\ inputEnd' = (endIndex # None)
        /\ UNCHANGED <<isRanged, treeSize, latest, home>> /\ pc = "check"
    BY <1>6 DEF Check, SavedCheckpoint, logVars
  <2>2. cur'.origin = latest' /\ cur'.size = treeSize'[latest']
    BY <2>1 DEF LatestCheckpoint
  <2>3. latest \in Nat /\ treeSize[latest] \in Nat
    BY ShardType, MonitorLoopAssumption DEF TypeOK
  <2>4. home <= latest
    BY <2>1 DEF RestInv
  <2>5. ~isRanged => ~inputEnd'
    BY <2>1 DEF RestInv
  <2> QED
    BY <2>1, <2>2, <2>3, <2>4, <2>5 DEF CheckpointsInv
<1>7. CASE Stop
  BY <1>7, <1>1, StopTypeOK
<1>8. CASE CheckExits \/ SearchFails \/ NotifyFails \/ WriteFails \/ ShutDown \/ Crash
  BY <1>8, <1>7 DEF CheckExits, SearchFails, NotifyFails, WriteFails, ShutDown, Crash
<1>9. CASE CheckFails
  BY <1>9, <1>7, <1>1 DEF CheckFails
<1>10. CASE Search \/ Notify
  BY <1>10 DEF Search, Notify, CheckpointsInv, SavedCheckpoint, logVars
<1>11. CASE Truncate
  BY <1>11 DEF Truncate, CheckpointsInv, logVars
<1>12. CASE SkipWrite \/ FinishWrite
  BY <1>12, <1>1, EndOfIterationType DEF SkipWrite, FinishWrite
<1>13. CASE Tick
  BY <1>13, <1>1 DEF Tick
<1>14. CASE UNCHANGED vars
  BY <1>14, <1>2 DEF vars, procVars
<1> QED
  BY <1>3, <1>4, <1>5, <1>6, <1>8, <1>9, <1>10, <1>11, <1>12, <1>13, <1>14 DEF Next

-------------------------------------------------------------------------------

LEMMA NextRangeInv == IInv /\ [Next]_vars => RangeInv'
<1> SUFFICES ASSUME IInv, [Next]_vars PROVE RangeInv'
  OBVIOUS
<1> USE DEF IInv
<1>1. CASE pc' \in {"off", "check", "wait"}
  BY <1>1 DEF RangeInv
<1>2. CASE UNCHANGED <<pc, startIndex, endIndex, inputEnd, cur, found, isRanged, file, obsVars>>
  BY <1>2 DEF RangeInv, Watched, Behind, obsVars
<1>3. ASSUME NEW o \in Shard, Grow(o) PROVE RangeInv'
  BY <1>3, <1>2 DEF Grow, procVars
<1>4. CASE Rollover
  BY <1>4, <1>2 DEF Rollover, procVars
<1>5. ASSUME NEW o \in BOOLEAN, NEW range \in UserRanges \cup {NoRange}, Start(o, range)
      PROVE  RangeInv'
  BY <1>5, <1>1 DEF Start
<1>6. CASE Check
  <2>1. /\ cur' = LatestCheckpoint /\ LatestCheckpoint.origin = latest
        /\ LatestCheckpoint.size = treeSize[latest]
        /\ inputEnd' = (endIndex # None) /\ pc = "check"
        /\ UNCHANGED <<isRanged, file, base, lost, reported, waived>>
    BY <1>6 DEF Check, LatestCheckpoint, obsVars
  <2>2. /\ latest \in Nat /\ latest >= 1 /\ treeSize[latest] \in 0..MaxSize
        /\ endIndex \in Index \cup {None}
    BY ShardType DEF TypeOK
  <2>3. ~isRanged => endIndex = None
    BY <2>1 DEF RestInv
  <2>4. CASE pc' = "search"
    <3>1. /\ RangeStart # None /\ RangeEnd # None
          /\ startIndex' = RangeStart /\ endIndex' = RangeEnd
      BY <1>6, <2>4 DEF Check
    <3>2. ~inputEnd' => endIndex' = cur'.size - 1
      BY <2>1, <2>2, <3>1 DEF RangeEnd
    <3>3. ASSUME ~isRanged
          PROVE  file \in Checkpoint /\ startIndex' = file.size - 1 /\ file.origin <= latest
      <4>1. startIndex # None => file \in Checkpoint /\ startIndex = file.size - 1
        BY <2>1, <3>3 DEF RestInv
      <4>2. startIndex = None => file \in Checkpoint /\ RangeStart = file.size - 1
        BY <3>1 DEF RangeStart, SavedCheckpoint
      <4> QED
        BY <3>1, <4>1, <4>2 DEF RangeStart, FileInv
    <3> QED
      BY <2>1, <2>4, <3>2, <3>3 DEF RangeInv
  <2>5. CASE pc' = "write"
    <3>1. /\ RangeStart = None \/ RangeEnd = None
          /\ startIndex' = RangeEnd /\ endIndex' = None
      BY <1>6, <2>5 DEF Check
    <3>2. /\ ~inputEnd' /\ cur'.size = 0 => startIndex' = None
          /\ ~inputEnd' /\ cur'.size > 0 => startIndex' = cur'.size - 1
      <4>1. cur'.size = treeSize[latest] /\ treeSize[latest] \in Nat
        BY <2>1, <2>2, MonitorLoopAssumption
      <4>2. ~inputEnd' => endIndex = None
        BY <2>1
      <4> QED
        BY <3>1, <4>1, <4>2 DEF RangeEnd
    <3>3. ASSUME Watched, ~isRanged, latest = 1 PROVE FALSE
      <4>1. file \in Checkpoint /\ file.size <= treeSize[1] /\ file.origin = 1 /\ file.size >= 1
        <5>1. file \in Checkpoint
          BY <2>1, <3>3 DEF FileInv
        <5>2. file.origin \in Nat /\ file.origin >= 1 /\ file.size >= 1
          BY <5>1, CheckpointType
        <5> QED
          BY <3>3, <5>1, <5>2 DEF FileInv
      <4>2. file.size \in Nat
        BY <4>1, MonitorLoopAssumption DEF Checkpoint
      <4>3. RangeStart # None
        BY <4>1, <4>2, Distinct DEF RangeStart, SavedCheckpoint
      <4>4. RangeEnd # None
        BY <2>2, <3>3, <4>1, <4>2, Distinct, MonitorLoopAssumption DEF RangeEnd
      <4> QED
        BY <3>1, <4>3, <4>4
    <3>4. ~(Watched' /\ ~isRanged' /\ cur'.origin = 1)
      BY <2>1, <3>3 DEF Watched
    <3> QED
      BY <2>5, <3>1, <3>2, <3>4 DEF RangeInv
  <2> QED
    BY <1>6, <2>4, <2>5 DEF Check
<1>7. CASE Stop
  BY <1>7, <1>1, StopTypeOK
<1>8. CASE CheckExits \/ SearchFails \/ NotifyFails \/ WriteFails \/ ShutDown \/ Crash
  BY <1>8, <1>7 DEF CheckExits, SearchFails, NotifyFails, WriteFails, ShutDown, Crash
<1>9. CASE CheckFails
  BY <1>9, <1>7, <1>1 DEF CheckFails
<1>10. CASE Search
  <2>1. PICK e \in IF startIndex = endIndex THEN {endIndex} ELSE SearchEnds :
          found' = (startIndex + 1) .. e
    BY <1>10 DEF Search
  <2>2. /\ pc = "search" /\ startIndex \in Nat /\ endIndex \in Nat /\ startIndex <= endIndex
        /\ e \in Nat /\ e >= endIndex
    BY <1>10, <2>1, SearchReach, MonitorLoopAssumption DEF Search, IterTypeOK
  <2>3. UNCHANGED <<inputEnd, cur, isRanged, file, base, lost, reported, waived>>
    BY <1>10 DEF Search, obsVars
  <2>4. CASE pc' = "notify" /\ UNCHANGED <<startIndex, endIndex>>
    <3>1. /\ (startIndex + 1)..endIndex \subseteq found'
          /\ \A i \in found' : i > startIndex
      BY <2>1, <2>2
    <3> QED
      BY <2>2, <2>3, <2>4, <3>1 DEF RangeInv
  <2>5. CASE found' = {} /\ pc' = "write" /\ startIndex' = endIndex /\ endIndex' = None
    <3>1. startIndex = endIndex
      <4>1. ~(startIndex + 1 <= e)
        BY <2>1, <2>2, <2>5
      <4> QED
        BY <2>2, <4>1
    <3>2. cur.size \in Nat
      BY <2>2, MonitorLoopAssumption DEF IterTypeOK
    <3>3. ~inputEnd => cur.size > 0 /\ endIndex = cur.size - 1
      BY <2>2, <3>2 DEF RangeInv
    <3>4. ASSUME Watched, ~isRanged, cur.origin = 1 PROVE Behind(cur.size)
      <4>1. file \in Checkpoint /\ startIndex = file.size - 1 /\ file.origin <= cur.origin
        BY <2>2, <3>4 DEF RangeInv
      <4>2. file.origin = 1 /\ file.size \in Nat
        <5>1. cur.origin = 1 /\ file.origin \in Nat /\ file.origin >= 1 /\ file.size \in Nat
          BY <3>4, <4>1, CheckpointType
        <5> QED
          BY <4>1, <5>1
      <4>3. file.size = cur.size
        BY <2>2, <3>1, <3>2, <3>3, <3>4, <4>1, <4>2 DEF CheckpointsInv
      <4> QED
        BY <3>4, <4>1, <4>2, <4>3 DEF FileInv
    <3> QED
      BY <2>2, <2>3, <2>5, <3>2, <3>3, <3>4 DEF RangeInv, Watched, Behind
  <2> QED
    BY <1>10, <2>4, <2>5 DEF Search
<1>11. CASE Notify
  <2>1. /\ pc = "notify" /\ pc' = "write" /\ startIndex' = endIndex /\ endIndex' = None
        /\ UNCHANGED <<inputEnd, cur, isRanged, file, base, lost, waived>>
    BY <1>11 DEF Notify
  <2>2. cur.size \in Nat /\ startIndex \in Nat /\ endIndex \in Nat
    BY <2>1, MonitorLoopAssumption DEF IterTypeOK
  <2>3. ~inputEnd => cur.size > 0 /\ endIndex = cur.size - 1
    BY <2>1, <2>2 DEF RangeInv
  <2>4. ASSUME Watched, ~isRanged, cur.origin = 1
        PROVE  \A i \in base..(cur.size - 1) : i \in reported'[1] \cup waived
    <3>1. file \in Checkpoint /\ startIndex = file.size - 1 /\ file.origin <= cur.origin
      BY <2>1, <2>4 DEF RangeInv
    <3>2. file.origin = 1 /\ file.size \in Nat
      <4>1. cur.origin = 1 /\ file.origin \in Nat /\ file.origin >= 1 /\ file.size \in Nat
        BY <2>4, <3>1, CheckpointType
      <4> QED
        BY <3>1, <4>1
    <3>3. home = 1
      BY <2>1, <2>4, ShardType DEF CheckpointsInv, TypeOK
    <3>4. reported'[1] = reported[1] \cup found
      BY <1>11, <3>3, ShardType DEF Notify, Report, TypeOK
    <3>5. (startIndex + 1)..endIndex \subseteq found /\ endIndex = cur.size - 1
      BY <2>1, <2>3, <2>4 DEF RangeInv, CheckpointsInv
    <3>6. base \in Nat
      BY <2>4, MonitorLoopAssumption DEF Watched, TypeOK
    <3>7. Behind(file.size)
      BY <2>4, <3>1, <3>2 DEF FileInv
    <3> QED
      BY <2>2, <3>1, <3>2, <3>4, <3>5, <3>6, <3>7 DEF Behind
  <2> QED
    BY <2>1, <2>2, <2>3, <2>4 DEF RangeInv, Watched, Behind
<1>12. CASE SkipWrite \/ FinishWrite
  BY <1>12, <1>1, EndOfIterationType DEF SkipWrite, FinishWrite
<1>13. CASE Truncate
  BY <1>13 DEF Truncate, RangeInv, Watched, Behind, obsVars
<1>14. CASE Tick
  BY <1>14, <1>1 DEF Tick
<1>15. CASE UNCHANGED vars
  BY <1>15, <1>2 DEF vars, procVars
<1> QED
  BY <1>3, <1>4, <1>5, <1>6, <1>8, <1>9, <1>10, <1>11, <1>12, <1>13, <1>14, <1>15 DEF Next

-------------------------------------------------------------------------------

LEMMA Invariance == Spec => []IInv
<1>1. Init => IInv
  BY InitIInv
<1>2. IInv /\ [Next]_vars => IInv'
  BY NextTypeOK, NextFileInv, NextRestInv, NextCheckpointsInv, NextRangeInv DEF IInv
<1> QED
  BY <1>1, <1>2, PTL DEF Spec

(***************************************************************************)
(* No entry behind the saved checkpoint was skipped: for any log, ranges,  *)
(* failures and sequence of processes, unless the file was cut short.      *)
(***************************************************************************)
THEOREM NoneSkipped == Spec => []NothingSkipped
<1>1. IInv => NothingSkipped
  <2> SUFFICES ASSUME IInv, file \in Checkpoint, file.origin = 1, ~lost
               PROVE  \A i \in base..(file.size - 1) : i \in reported[1] \cup waived
    BY DEF NothingSkipped
  <2> QED
    BY DEF IInv, FileInv, Watched, Behind
<1> QED
  BY <1>1, Invariance, PTL

(***************************************************************************)
(* An iteration reports only what lies after the saved checkpoint.         *)
(***************************************************************************)
THEOREM NoneRepeated == Spec => []NothingRepeated
<1>1. IInv => NothingRepeated
  <2> SUFFICES ASSUME IInv, pc = "notify", ~isRanged, NEW i \in found
               PROVE  i >= prev.size
    BY DEF NothingRepeated
  <2>1. prev = file /\ file \in Checkpoint /\ startIndex = file.size - 1 /\ i > startIndex
    BY DEF IInv, RangeInv, CheckpointsInv, SavedCheckpoint
  <2>2. i \in Int /\ startIndex \in Int /\ file.size \in Int
    BY <2>1, MonitorLoopAssumption DEF IInv, TypeOK, IterTypeOK, Checkpoint
  <2> QED
    BY <2>1, <2>2
<1> QED
  BY <1>1, Invariance, PTL

(***************************************************************************)
(* A waiting monitor is where a process started now would begin.           *)
(***************************************************************************)
THEOREM Agreement == Spec => []PositionsAgree
<1>1. IInv => PositionsAgree
  BY DEF IInv, RestInv, PositionsAgree
<1> QED
  BY <1>1, Invariance, PTL
==============================================================================
