--------------------------- MODULE LegacyLoopProofs ---------------------------
(***************************************************************************)
(* Proofs about LegacyLoop for trees and batches of any size and any       *)
(* number of attempts. The inductive invariant follows one iteration: what *)
(* it was told of the log and of the file (IterationInv), where its range  *)
(* begins and what of it has been read (RangeInv), what is accounted for   *)
(* before the checkpoint is written (WriteInv), and where the next         *)
(* iteration of the same process goes on (WaitInv).                        *)
(***************************************************************************)
EXTENDS LegacyLoop, TLAPS

USE LegacyLoopAssumption

-------------------------------------------------------------------------------
(* The invariant *)

Reading == pc \in {"search", "notify"}
Iterating == pc \in {"search", "notify", "write"}

\* The first index that the search asks for, which is one later for Rekor.
Offset == IF kind = "rekor" THEN 1 ELSE 0
First == startIndex + Offset

\* Entries below n and after the first checkpoint were reported, or left out by the log.
Accounted(n) == base # None /\ ~lost => \A i \in base..(n - 1) : i \in reported \cup withheld

LogInv ==
  /\ kind = "ct" => tree = 1
  /\ tree = 1 => inactive = 0
  /\ inactive <= MaxSize

FileInv ==
  /\ file \in Checkpoint => base \in Nat /\ file.tree <= tree /\ Accounted(Behind)
  /\ base # None /\ ~lost => file \in Checkpoint

\* The log cannot change what the iteration was told, and nobody else writes the file.
IterationInv ==
  Iterating =>
    /\ cur \in LogInfo /\ cur.tree <= tree /\ cur.inactive = Before(cur.tree)
    /\ prev = file /\ file # Torn
    /\ file \in Checkpoint => file.tree = cur.tree /\ file.size <= cur.size

RangeInv ==
  Reading =>
    /\ startIndex \in Int /\ First >= 0 /\ endIndex = GetEndIndex(cur) /\ startIndex <= endIndex
    /\ file \in Checkpoint => First <= Behind /\ First >= Behind - (1 - Offset)
    /\ \A k \in DOMAIN fetched : fetched[k] = First + k - 1
    /\ pc = "search" => IF kind = "rekor" THEN NextIndex <= endIndex + 1 ELSE fetched = <<>>
    /\ pc = "notify" => \A i \in First..(endIndex - 1 + Offset) : i \in Matched \cup withheld

WriteInv ==
  pc = "write" => startIndex = GetEndIndex(cur) /\ Accounted(cur.inactive + cur.size)

WaitInv ==
  pc \in {"off", "check", "wait"} =>
    /\ fetched = <<>> /\ (pc = "off" => startIndex = None)
    /\ startIndex # None =>
         IF file \in Checkpoint THEN startIndex = Behind - Offset
         ELSE 0 - Offset <= startIndex /\ startIndex <= inactive - Offset

Ascending == \A i, j \in DOMAIN fetched : i < j => fetched[i] < fetched[j]

Inv == TypeOK /\ LogInv /\ FileInv /\ IterationInv /\ RangeInv /\ WriteInv /\ WaitInv /\ Ascending

-------------------------------------------------------------------------------
(* Lemmas *)

LEMMA Nil ==
  /\ None # Torn /\ None \notin Int /\ Torn \notin Int
  /\ None \notin Checkpoint /\ Torn \notin Checkpoint
BY DEF Checkpoint, Tree

LEMMA CheckpointFields ==
  ASSUME NEW p \in Checkpoint
  PROVE  p.tree \in {1, 2} /\ p.tree \in Tree /\ p.size \in 1..MaxSize
BY DEF Checkpoint, Tree

LEMMA InfoFields ==
  ASSUME NEW info \in LogInfo
  PROVE  /\ info.tree \in Tree /\ info.size \in 0..MaxSize
         /\ info.inactive \in 0..(LastTree * MaxSize) /\ info.inactive \in Nat
<1>1. LastTree * MaxSize \in Nat
  OBVIOUS
<1> QED BY <1>1 DEF LogInfo

\* The indices of the log's entries are in IndexRange.
LEMMA Room ==
  ASSUME TypeOK, LogInv
  PROVE  /\ tree \in {1, 2} /\ treeSize \in 0..MaxSize /\ inactive \in Nat /\ MaxSize \in Nat
         /\ MaxSize \in 0..(LastTree * MaxSize)
         /\ \A n \in 0..MaxSize : inactive + n \in 0..(LastTree * MaxSize)
<1>1. tree \in {1, 2} /\ (tree = 2 => LastTree = 2) /\ treeSize \in 0..MaxSize
  BY DEF TypeOK, Tree
<1>2. CASE LastTree = 1
  <2>1. LastTree * MaxSize = MaxSize /\ inactive = 0
    BY <1>1, <1>2 DEF LogInv
  <2> QED BY <1>1, <2>1
<1>3. CASE LastTree = 2
  <2>1. LastTree * MaxSize = MaxSize + MaxSize /\ inactive \in Nat /\ inactive <= MaxSize
    BY <1>3 DEF LogInv, TypeOK
  <2> QED BY <1>1, <2>1
<1> QED BY <1>2, <1>3

LEMMA BatchProperties ==
  ASSUME TypeOK, startIndex \in Int, endIndex \in Int, NextIndex <= endIndex, NextIndex >= 0
  PROVE  /\ NextBatch \in Seq(Nat) /\ Len(NextBatch) >= 1 /\ Len(NextBatch) \in Nat
         /\ NextIndex + Len(NextBatch) <= endIndex + 1
         /\ \A k \in 1..Len(NextBatch) : NextBatch[k] = NextIndex + k - 1
<1> DEFINE n == Lesser(NextIndex + Batch, endIndex + 1) - NextIndex
<1>1. NextIndex \in Nat
  BY DEF NextIndex, TypeOK
<1>2. n \in Nat /\ n >= 1 /\ NextIndex + n <= endIndex + 1
  BY <1>1 DEF Lesser
<1> HIDE DEF n
<1>3. NextBatch = [i \in 1..n |-> NextIndex + i - 1]
  BY DEF NextBatch, n
<1> QED BY <1>1, <1>2, <1>3

\* The observations and the form of what was fetched.
LEMMA Fetched ==
  ASSUME TypeOK, FetchBatch, RangeInv
  PROVE  /\ fetched' \in Seq(Nat) /\ Len(fetched') = Len(fetched) + Len(NextBatch)
         /\ \A k \in DOMAIN fetched' : fetched'[k] = First + k - 1
         /\ NextIndex' <= endIndex + 1 /\ startIndex \in Int /\ endIndex \in Int
<1>1. /\ pc = "search" /\ kind = "rekor" /\ NextIndex <= endIndex /\ startIndex \in Int
      /\ First = startIndex + 1 /\ First >= 0
      /\ fetched' = fetched \o NextBatch /\ startIndex' = startIndex
      /\ \A k \in DOMAIN fetched : fetched[k] = First + k - 1
  BY DEF FetchBatch, RangeInv, Reading, First, Offset
<1>2. endIndex \in Int
  BY <1>1 DEF RangeInv, Reading, TypeOK, IndexRange, GetEndIndex, GetCheckpointIndex
<1>3. fetched \in Seq(Nat) /\ Len(fetched) \in Nat /\ DOMAIN fetched = 1..Len(fetched)
  BY DEF TypeOK
<1>4. NextIndex = First + Len(fetched) /\ NextIndex >= 0
  BY <1>1, <1>3 DEF NextIndex
<1> HIDE DEF First
<1>5. /\ NextBatch \in Seq(Nat) /\ Len(NextBatch) \in Nat
      /\ NextIndex + Len(NextBatch) <= endIndex + 1
      /\ \A k \in 1..Len(NextBatch) : NextBatch[k] = NextIndex + k - 1
  BY <1>1, <1>2, <1>4, BatchProperties
<1>6. /\ fetched' \in Seq(Nat) /\ Len(fetched') = Len(fetched) + Len(NextBatch)
      /\ DOMAIN fetched' = 1..Len(fetched')
      /\ \A k \in 1..Len(fetched') :
           fetched'[k] = IF k <= Len(fetched) THEN fetched[k] ELSE NextBatch[k - Len(fetched)]
  BY <1>1, <1>3, <1>5
<1>7. ASSUME NEW k \in DOMAIN fetched' PROVE fetched'[k] = First + k - 1
  <2>1. CASE k <= Len(fetched)
    BY <1>1, <1>3, <1>6, <1>7, <2>1
  <2>2. CASE k > Len(fetched)
    <3>1. k \in 1..Len(fetched') /\ k - Len(fetched) \in 1..Len(NextBatch)
      BY <1>3, <1>5, <1>6, <1>7, <2>2
    <3>2. fetched'[k] = NextBatch[k - Len(fetched)]
      BY <1>3, <1>6, <2>2, <3>1
    <3>3. fetched'[k] = NextIndex + (k - Len(fetched)) - 1
      BY <1>5, <3>1, <3>2
    <3>4. k \in Int /\ First \in Int
      BY <1>1, <3>1 DEF First, Offset
    <3> QED BY <1>3, <1>4, <3>3, <3>4
  <2> QED BY <1>3, <1>6, <1>7, <2>1, <2>2
<1>8. NextIndex' = NextIndex + Len(NextBatch)
  BY <1>1, <1>3, <1>5, <1>6 DEF NextIndex
<1> QED BY <1>1, <1>2, <1>5, <1>6, <1>7, <1>8

LEMMA Stopped ==
  ASSUME Stop
  PROVE  IterationInv' /\ RangeInv' /\ WriteInv' /\ WaitInv' /\ Ascending'
BY DEF Stop, IterationInv, Iterating, RangeInv, Reading, WriteInv, WaitInv, Ascending

LEMMA StopType ==
  ASSUME TypeOK, Stop
  PROVE  /\ pc' \in {"off", "check", "search", "notify", "write", "wait"} /\ once' \in BOOLEAN
         /\ startIndex' \in IndexRange \cup {None} /\ endIndex' \in IndexRange \cup {None}
         /\ prev' \in Checkpoint \cup {None} /\ cur' \in LogInfo \cup {None}
         /\ fetched' \in Seq(Nat) /\ attempt' \in 1..MaxAttempts
BY DEF Stop

-------------------------------------------------------------------------------
(* The steps of the log *)

LEMMA GrowStep ==
  ASSUME Inv, Grow
  PROVE  Inv'
<1>1. UNCHANGED <<kind, tree, inactive, file, pc, memVars, obsVars>> /\ treeSize' \in 0..MaxSize
  BY DEF Inv, TypeOK, Grow
<1>2. TypeOK'
  BY <1>1 DEF Inv, TypeOK, memVars, obsVars
<1>3. LogInv' /\ FileInv'
  BY <1>1 DEF Inv, LogInv, FileInv, Accounted, Behind, Before, memVars, obsVars
<1>4. IterationInv' /\ WaitInv' /\ Ascending'
  BY <1>1 DEF Inv, IterationInv, Iterating, WaitInv, Ascending, Behind, Before, Offset, memVars, obsVars
<1>5. RangeInv' /\ WriteInv'
  BY <1>1 DEF Inv, RangeInv, WriteInv, Reading, First, Offset, GetEndIndex, GetCheckpointIndex,
              Behind, Before, Matched, NextIndex, Accounted, memVars, obsVars
<1> QED BY <1>2, <1>3, <1>4, <1>5 DEF Inv

\* What the file and the iteration know of are entries of the first tree, which stay where they are.
LEMMA RolloverStep ==
  ASSUME Inv, Rollover
  PROVE  Inv'
<1>1. /\ UNCHANGED <<kind, file, pc, memVars, obsVars>> /\ kind = "rekor"
      /\ tree = 1 /\ inactive = 0 /\ LastTree = 2
      /\ tree' = 2 /\ inactive' = treeSize /\ treeSize' = 0 /\ treeSize \in 0..MaxSize
  <2>1. tree = 1 /\ LastTree = 2 /\ treeSize \in 0..MaxSize
    BY DEF Inv, TypeOK, Tree, Rollover
  <2> QED BY <2>1 DEF Inv, LogInv, Rollover
<1>2. file \in Checkpoint => Behind' = Behind
  BY <1>1, CheckpointFields DEF Inv, FileInv, Behind, Before
<1>3. Iterating => cur' = cur /\ Before(cur.tree)' = Before(cur.tree)
  BY <1>1, InfoFields DEF Inv, IterationInv, Before, Tree, memVars
<1>4. TypeOK'
  <2>1. inactive' \in 0..(LastTree * MaxSize)
    BY <1>1, Room DEF Inv
  <2> QED BY <1>1, <2>1 DEF Inv, TypeOK, Tree, memVars, obsVars
<1>5. LogInv' /\ FileInv'
  BY <1>1, <1>2, CheckpointFields DEF Inv, LogInv, FileInv, Accounted, obsVars
<1>6. IterationInv' /\ Ascending'
  <2>1. Iterating => cur.tree <= tree'
    BY <1>1, InfoFields DEF Inv, IterationInv, Tree
  <2> QED BY <1>1, <1>3, <2>1 DEF Inv, IterationInv, Iterating, Ascending, memVars
<1>7. WaitInv'
  <2>1. startIndex # None => startIndex \in Int
    BY DEF Inv, TypeOK, IndexRange
  <2>2. UNCHANGED <<kind, pc, file, startIndex, fetched>> /\ inactive = 0 /\ inactive' \in Nat
    BY <1>1 DEF memVars
  <2>3. Offset' = Offset /\ Offset \in {0, 1}
    BY <2>2 DEF Offset
  <2>4. startIndex # None => (startIndex <= inactive - Offset => startIndex <= inactive' - Offset)
    BY <2>1, <2>2, <2>3
  <2> QED BY <1>2, <2>2, <2>3, <2>4 DEF Inv, WaitInv
<1>8. RangeInv' /\ WriteInv'
  BY <1>1, <1>2 DEF Inv, RangeInv, WriteInv, Reading, First, Offset, GetEndIndex, GetCheckpointIndex,
                    Matched, NextIndex, Accounted, memVars, obsVars
<1> QED BY <1>4, <1>5, <1>6, <1>7, <1>8 DEF Inv

-------------------------------------------------------------------------------
(* The steps between iterations *)

\* A process that starts, or waits no longer, knows what it knew.
LEMMA StartStep ==
  ASSUME Inv, Start \/ Tick
  PROVE  Inv'
<1>1. /\ UNCHANGED <<kind, logVars, file, startIndex, endIndex, prev, cur, fetched, attempt, obsVars>>
      /\ pc \in {"off", "wait"} /\ pc' = "check" /\ once' \in BOOLEAN
  BY DEF Inv, TypeOK, Start, Tick, memVars
<1>2. TypeOK'
  BY <1>1 DEF Inv, TypeOK, logVars, obsVars
<1>3. LogInv' /\ FileInv'
  BY <1>1 DEF Inv, LogInv, FileInv, Accounted, Behind, Before, logVars, obsVars
<1>4. IterationInv' /\ RangeInv' /\ WriteInv'
  BY <1>1 DEF IterationInv, Iterating, RangeInv, Reading, WriteInv
<1>5. WaitInv' /\ Ascending'
  BY <1>1 DEF Inv, WaitInv, Ascending, Behind, Before, Offset, logVars
<1> QED BY <1>2, <1>3, <1>4, <1>5 DEF Inv

\* The parts of the invariant that only the log and the file are in.
LEMMA FileUntouched ==
  ASSUME Inv, UNCHANGED <<kind, logVars, file, obsVars>>
  PROVE  LogInv' /\ FileInv'
BY DEF Inv, LogInv, FileInv, Accounted, Behind, Before, logVars, obsVars

LEMMA CheckFailsStep ==
  ASSUME Inv, CheckFails
  PROVE  Inv'
<1>1. UNCHANGED <<kind, logVars, file, obsVars>> /\ pc = "check"
  BY DEF CheckFails
<1>2. LogInv' /\ FileInv'
  BY <1>1, FileUntouched
<1>3. CASE Stop
  <2>1. TypeOK'
    BY <1>1, <1>3, StopType DEF Inv, TypeOK, logVars, obsVars
  <2> QED BY <1>2, <1>3, <2>1, Stopped DEF Inv
<1>4. CASE pc' = "wait" /\ UNCHANGED memVars
  <2>1. TypeOK'
    BY <1>1, <1>4 DEF Inv, TypeOK, logVars, memVars, obsVars
  <2>2. IterationInv' /\ RangeInv' /\ WriteInv'
    BY <1>4 DEF IterationInv, Iterating, RangeInv, Reading, WriteInv
  <2>3. WaitInv' /\ Ascending'
    BY <1>1, <1>4 DEF Inv, WaitInv, Ascending, Behind, Before, Offset, logVars, memVars
  <2> QED BY <1>2, <2>1, <2>2, <2>3 DEF Inv
<1> QED BY <1>3, <1>4 DEF CheckFails

\* A process that ends outside of the write leaves the file and the log as they are.
LEMMA EndsStep ==
  ASSUME Inv, FetchFails \/ GetEntriesFails \/ Ends
  PROVE  Inv'
<1>1. Stop /\ UNCHANGED <<kind, logVars, file, obsVars>>
  BY DEF FetchFails, GetEntriesFails, Ends
<1>2. TypeOK'
  BY <1>1, StopType DEF Inv, TypeOK, logVars, obsVars
<1> QED BY <1>1, <1>2, Stopped, FileUntouched DEF Inv

-------------------------------------------------------------------------------
(* The check *)

\* What a front end shows is the log's info, of its active tree.
LEMMA SeenInfo ==
  ASSUME Inv, NEW info \in Seen
  PROVE  /\ info \in LogInfo /\ info.tree = tree /\ info.inactive = inactive
         /\ info.size \in 0..MaxSize /\ info.size <= treeSize
         /\ GetEndIndex(info) = inactive + info.size - Offset
         /\ GetEndIndex(info) \in IndexRange
<1>1. /\ info.tree = tree /\ info.inactive = inactive /\ info.size \in 0..treeSize
      /\ info = [tree |-> info.tree, size |-> info.size, inactive |-> info.inactive]
  BY DEF Seen
<1>2. /\ treeSize \in 0..MaxSize /\ inactive \in Nat /\ MaxSize \in Nat
      /\ \A n \in 0..MaxSize : inactive + n \in 0..(LastTree * MaxSize)
  BY Room DEF Inv
<1>3. info.size \in 0..MaxSize /\ info.size <= treeSize
  BY <1>1, <1>2
<1>4. info \in LogInfo
  BY <1>1, <1>3 DEF LogInfo, Inv, TypeOK
<1>5. kind = "ct" => inactive = 0
  BY DEF Inv, LogInv
<1>6. GetEndIndex(info) = inactive + info.size - Offset
  BY <1>1, <1>2, <1>3, <1>5 DEF GetEndIndex, GetCheckpointIndex, Offset, Inv, TypeOK
<1>7. inactive + info.size \in 0..(LastTree * MaxSize) /\ LastTree * MaxSize \in Nat
  BY <1>2, <1>3
<1>8. inactive + info.size - Offset \in IndexRange
  <2> DEFINE x == inactive + info.size
             room == LastTree * MaxSize
  <2>1. x \in 0..room /\ room \in Nat /\ Offset \in {0, 1}
    BY <1>7 DEF Offset
  <2> HIDE DEF x, room
  <2>2. x - Offset \in -1..room
    BY <2>1
  <2>3. IndexRange = -1..room
    BY DEF IndexRange, room
  <2>4. x - Offset \in IndexRange
    BY <2>2, <2>3
  <2> QED BY <1>2, <1>3, <2>1, <2>4 DEF x
<1> QED BY <1>1, <1>3, <1>4, <1>6, <1>8

(***************************************************************************)
(* The range starts where the file's checkpoint ends, be it after the last *)
(* iteration or at the start of the process, and no later than any end     *)
(* that a consistent log's info gives.                                     *)
(***************************************************************************)
LEMMA CheckedStart ==
  ASSUME Inv, pc = "check", Readable, NEW info \in Seen, Consistent(file, info),
         RangeStart(file, info) # None
  PROVE  /\ RangeStart(file, info) \in IndexRange
         /\ RangeStart(file, info) + Offset >= 0
         /\ RangeStart(file, info) <= GetEndIndex(info)
         /\ file \in Checkpoint =>
              /\ RangeStart(file, info) + Offset <= Behind
              /\ RangeStart(file, info) + Offset >= Behind - (1 - Offset)
<1> DEFINE s == RangeStart(file, info)
<1>1. /\ info.tree = tree /\ info.inactive = inactive /\ info.size \in Nat
      /\ GetEndIndex(info) = inactive + info.size - Offset /\ GetEndIndex(info) \in IndexRange
  BY SeenInfo
<1>2. inactive \in Nat /\ Offset \in {0, 1} /\ (kind = "ct" => inactive = 0) /\ kind \in {"rekor", "ct"}
  BY DEF Inv, LogInv, TypeOK, Offset
<1>3. IndexRange \subseteq Int /\ GetEndIndex(info) \in Int
  BY <1>1, <1>2 DEF IndexRange
<1>4. CASE file \in Checkpoint
  <2>1. file.tree = tree /\ file.size \in Nat /\ file.size >= 1 /\ file.size <= info.size
    BY <1>1, <1>4, Nil, CheckpointFields DEF Consistent
  <2>2. Behind = inactive + file.size
    BY <2>1 DEF Behind, Before
  <2>3. CASE startIndex # None
    <3>1. s = startIndex /\ startIndex = Behind - Offset /\ s \in IndexRange
      BY <1>4, <2>3 DEF Inv, WaitInv, RangeStart, TypeOK
    <3> QED BY <1>1, <1>2, <2>1, <2>2, <3>1
  <2>4. CASE startIndex = None
    <3>1. s = inactive + file.size - 1
      BY <1>1, <1>2, <1>4, <2>1, <2>4, Nil DEF RangeStart, GetStartIndex, GetCheckpointIndex
    <3>2. inactive + file.size \in 1..(LastTree * MaxSize)
      BY <1>1, <1>2, <1>4, <2>1, CheckpointFields, Room DEF Inv
    <3>3. s \in IndexRange
      BY <1>2, <2>1, <3>1, <3>2 DEF IndexRange
    <3> QED BY <1>1, <1>2, <2>1, <2>2, <3>1, <3>3
  <2> QED BY <2>3, <2>4
<1>5. CASE file \notin Checkpoint
  <2>1. file = None
    BY <1>5 DEF Inv, TypeOK, Readable
  <2>2. s = startIndex /\ startIndex # None /\ s \in IndexRange
    BY <2>1 DEF RangeStart, Inv, TypeOK
  <2>3. 0 - Offset <= s /\ s <= inactive - Offset
    BY <1>5, <2>2 DEF Inv, WaitInv
  <2>4. /\ s \in Int
        /\ GetEndIndex(info) >= inactive - Offset /\ inactive - Offset \in Int
    <3>1. s \in Int
      BY <1>3, <2>2
    <3> QED BY <1>1, <1>2, <3>1
  <2>5. s + Offset >= 0 /\ s <= GetEndIndex(info)
    BY <1>2, <1>3, <2>3, <2>4
  <2> QED BY <1>5, <2>2, <2>5
<1> QED BY <1>4, <1>5

\* Without a start the file is missing, and nothing was checkpointed or the file was lost.
LEMMA CheckStep ==
  ASSUME Inv, Check
  PROVE  Inv'
<1>1. PICK info \in Seen :
        /\ Consistent(file, info) /\ cur' = info
        /\ \/ /\ RangeStart(file, info) # None /\ pc' = "search"
              /\ startIndex' = RangeStart(file, info) /\ endIndex' = GetEndIndex(info)
           \/ /\ RangeStart(file, info) = None /\ pc' = "write"
              /\ startIndex' = GetEndIndex(info) /\ endIndex' = None
  BY DEF Check, SavedCheckpoint
<1>2. /\ pc = "check" /\ Readable /\ prev' = file
      /\ UNCHANGED <<kind, logVars, file, once, fetched, attempt, obsVars>>
  BY DEF Check, SavedCheckpoint
<1>3. /\ info \in LogInfo /\ info.tree = tree /\ info.inactive = inactive
      /\ info.size \in 0..MaxSize
      /\ GetEndIndex(info) = inactive + info.size - Offset /\ GetEndIndex(info) \in IndexRange
  BY SeenInfo
<1>4. /\ kind' = kind /\ tree' = tree /\ inactive' = inactive /\ treeSize' = treeSize /\ file' = file
      /\ fetched' = fetched /\ fetched = <<>> /\ reported' = reported /\ withheld' = withheld
      /\ base' = base /\ lost' = lost
  BY <1>2 DEF Inv, WaitInv, logVars, obsVars
<1>5. file \in Checkpoint \cup {None}
  BY <1>2 DEF Inv, TypeOK, Readable
<1>6. TypeOK'
  <2>1. startIndex' \in IndexRange \cup {None} /\ endIndex' \in IndexRange \cup {None}
    BY <1>1, <1>2, <1>3, CheckedStart
  <2>2. pc' \in {"search", "write"} /\ prev' \in Checkpoint \cup {None} /\ cur' \in LogInfo
    BY <1>1, <1>2, <1>3, <1>5
  <2> QED BY <1>2, <1>4, <2>1, <2>2 DEF Inv, TypeOK
<1>7. LogInv' /\ FileInv'
  BY <1>2, FileUntouched
<1>8. IterationInv'
  <2>1. tree \in Int
    BY Room DEF Inv
  <2>2. file \in Checkpoint => file.tree = info.tree /\ file.size <= info.size
    BY <1>1, Nil DEF Consistent
  <2> QED BY <1>1, <1>2, <1>3, <1>4, <2>1, <2>2 DEF IterationInv, Readable, Before
<1>9. RangeInv'
  <2>1. SUFFICES ASSUME Reading' PROVE RangeInv'
    BY DEF RangeInv
  <2>2. /\ RangeStart(file, info) # None /\ pc' = "search"
        /\ startIndex' = RangeStart(file, info) /\ endIndex' = GetEndIndex(info)
    BY <1>1, <2>1 DEF Reading
  <2>3. /\ startIndex' \in IndexRange /\ startIndex' + Offset >= 0 /\ startIndex' <= endIndex'
        /\ file \in Checkpoint => /\ startIndex' + Offset <= Behind
                                  /\ startIndex' + Offset >= Behind - (1 - Offset)
    BY <1>1, <1>2, <2>2, CheckedStart
  <2>4. First' = startIndex' + Offset /\ Offset' = Offset /\ Behind' = Behind /\ GetEndIndex(cur)' = GetEndIndex(info)
    BY <1>1, <1>4 DEF First, Offset, Behind, Before, GetEndIndex, GetCheckpointIndex
  <2>5. startIndex' \in Int /\ endIndex' \in Int
    BY <1>3, <2>2, <2>3 DEF IndexRange
  <2>6. DOMAIN fetched' = {} /\ fetched' = <<>> /\ Len(fetched') = 0
    BY <1>4
  <2>7. kind = "rekor" => NextIndex' <= endIndex' + 1
    <3>1. NextIndex' = startIndex' + 1
      BY <2>5, <2>6 DEF NextIndex
    <3>2. startIndex' <= endIndex'
      BY <2>3
    <3>3. ASSUME NEW x \in Int, NEW y \in Int, x <= y PROVE x + 1 <= y + 1
      BY <3>3
    <3> QED BY <2>5, <3>1, <3>2, <3>3
  <2> QED BY <1>4, <2>2, <2>3, <2>4, <2>5, <2>6, <2>7 DEF RangeInv
<1>10. WriteInv'
  <2>1. SUFFICES ASSUME pc' = "write" PROVE WriteInv'
    BY DEF WriteInv
  <2>2. RangeStart(file, info) = None /\ startIndex' = GetEndIndex(info)
    BY <1>1, <2>1
  <2>3. file = None
    <3>1. CASE file \in Checkpoint
      <4>1. startIndex = None => GetStartIndex(file, info) \in Int
        BY <1>3, <3>1, CheckpointFields, InfoFields DEF GetStartIndex, GetCheckpointIndex
      <4> QED BY <2>2, <3>1, <4>1, Nil DEF RangeStart
    <3> QED BY <1>5, <3>1
  <2>4. base = None \/ lost
    BY <2>3, Nil DEF Inv, FileInv, TypeOK
  <2>5. GetEndIndex(cur)' = GetEndIndex(info)
    BY <1>1, <1>4 DEF GetEndIndex, GetCheckpointIndex
  <2> QED BY <1>4, <2>2, <2>4, <2>5 DEF WriteInv, Accounted
<1>11. WaitInv' /\ Ascending'
  BY <1>1, <1>4 DEF WaitInv, Ascending
<1> QED BY <1>6, <1>7, <1>8, <1>9, <1>10, <1>11 DEF Inv

-------------------------------------------------------------------------------
(* The search *)

\* Reports and answers add to what is accounted for.
LEMMA MoreAccounted ==
  ASSUME Inv, UNCHANGED <<kind, logVars, file, base, lost>>,
         reported \subseteq reported', withheld \subseteq withheld'
  PROVE  /\ LogInv' /\ FileInv'
         /\ \A n \in Int : Accounted(n) =>
              (base' # None /\ ~lost' => \A i \in base'..(n - 1) : i \in reported' \cup withheld')
<1>1. UNCHANGED <<tree, inactive>> /\ Behind' = Behind
  BY DEF logVars, Behind, Before
<1>2. LogInv'
  BY <1>1 DEF Inv, LogInv
<1>3. ASSUME NEW n, Accounted(n)
      PROVE  base' # None /\ ~lost' => \A i \in base'..(n - 1) : i \in reported' \cup withheld'
  BY <1>3 DEF Accounted
<1>4. FileInv'
  BY <1>1, <1>3 DEF Inv, FileInv, Accounted
<1> QED BY <1>2, <1>3, <1>4

\* Where the iteration ends, in the log's info.
LEMMA EndOfRange ==
  ASSUME Inv, Iterating
  PROVE  /\ cur.inactive \in {0, inactive} /\ cur.inactive \in Nat /\ cur.size \in Nat
         /\ Offset \in {0, 1} /\ inactive \in Nat
         /\ GetEndIndex(cur) = (cur.inactive + cur.size) - Offset
         /\ file \in Checkpoint => Behind = cur.inactive + file.size /\ Behind \in Nat
<1>1. cur \in LogInfo /\ cur.tree <= tree /\ cur.inactive = Before(cur.tree)
  BY DEF Inv, IterationInv
<1>2. cur.inactive \in Nat /\ cur.size \in Nat /\ cur.tree \in Tree
  BY <1>1, InfoFields
<1>3. cur.inactive \in {0, inactive} /\ inactive \in Nat /\ kind \in {"rekor", "ct"}
  BY <1>1, Room DEF Before, Inv, TypeOK
<1>4. kind = "ct" => cur.inactive = 0
  BY <1>3 DEF Inv, LogInv
<1>5. GetEndIndex(cur) = (cur.inactive + cur.size) - Offset
  BY <1>2, <1>3, <1>4 DEF GetEndIndex, GetCheckpointIndex, Offset
<1>6. file \in Checkpoint => Behind = cur.inactive + file.size /\ Behind \in Nat
  BY <1>1, <1>2, CheckpointFields DEF Inv, IterationInv, Behind
<1> QED BY <1>2, <1>3, <1>5, <1>6 DEF Offset

\* Consecutive indices ascend.
LEMMA Consecutive ==
  ASSUME NEW f \in Seq(Nat), NEW n \in Int, \A k \in DOMAIN f : f[k] = n + k - 1
  PROVE  \A i, j \in DOMAIN f : i < j => f[i] < f[j]
OBVIOUS

LEMMA FetchBatchStep ==
  ASSUME Inv, FetchBatch
  PROVE  Inv'
<1>1. /\ pc = "search" /\ kind = "rekor" /\ attempt' = 1
      /\ UNCHANGED <<kind, logVars, file, pc, once, startIndex, endIndex, prev, cur, obsVars>>
  BY DEF FetchBatch
<1>2. /\ fetched' \in Seq(Nat) /\ NextIndex' <= endIndex + 1
      /\ \A k \in DOMAIN fetched' : fetched'[k] = First + k - 1
      /\ startIndex \in Int /\ endIndex \in Int
  BY Fetched DEF Inv
<1>3. TypeOK'
  BY <1>1, <1>2 DEF Inv, TypeOK, logVars, obsVars
<1>4. LogInv' /\ FileInv'
  BY <1>1, FileUntouched
<1>5. UNCHANGED <<First, Offset, Behind, GetEndIndex(cur)>>
  BY <1>1 DEF First, Offset, Behind, Before, GetEndIndex, GetCheckpointIndex, logVars
<1>6. IterationInv' /\ WriteInv' /\ WaitInv'
  BY <1>1 DEF Inv, IterationInv, Iterating, WriteInv, WaitInv, Before, logVars
<1>7. RangeInv'
  BY <1>1, <1>2, <1>5 DEF Inv, RangeInv, Reading
<1>8. Ascending'
  <2>1. First \in Int
    BY <1>2 DEF First, Offset
  <2> QED BY <1>2, <2>1, Consecutive DEF Ascending
<1> QED BY <1>3, <1>4, <1>6, <1>7, <1>8 DEF Inv

LEMMA FetchRetriesStep ==
  ASSUME Inv, FetchRetries
  PROVE  Inv'
<1>1. /\ pc = "search" /\ attempt' \in 1..MaxAttempts
      /\ UNCHANGED <<kind, logVars, file, pc, once, startIndex, endIndex, prev, cur, fetched, obsVars>>
  BY DEF Inv, TypeOK, FetchRetries
<1>2. TypeOK'
  BY <1>1 DEF Inv, TypeOK, logVars, obsVars
<1>3. LogInv' /\ FileInv'
  BY <1>1, FileUntouched
<1>4. UNCHANGED <<First, Offset, Behind, GetEndIndex(cur), NextIndex>>
  BY <1>1 DEF First, Offset, Behind, Before, GetEndIndex, GetCheckpointIndex, NextIndex, logVars
<1>5. IterationInv' /\ WriteInv' /\ WaitInv' /\ Ascending'
  BY <1>1 DEF Inv, IterationInv, Iterating, WriteInv, WaitInv, Ascending, Before, logVars
<1>6. RangeInv'
  BY <1>1, <1>4 DEF Inv, RangeInv, Reading
<1> QED BY <1>2, <1>3, <1>5, <1>6 DEF Inv

\* What was fetched reaches the end of the range; without anything to fetch the file is there already.
LEMMA FetchDoneStep ==
  ASSUME Inv, FetchDone
  PROVE  Inv'
<1>1. /\ pc = "search" /\ kind = "rekor" /\ NextIndex > endIndex
      /\ UNCHANGED <<kind, logVars, file, once, prev, cur, fetched, attempt, obsVars>>
  BY DEF FetchDone
<1>2. Reading /\ Iterating /\ Offset = 1
  BY <1>1 DEF Reading, Iterating, Offset
<1>3. /\ startIndex \in Int /\ First \in Int /\ endIndex = GetEndIndex(cur) /\ startIndex <= endIndex
      /\ file \in Checkpoint => First <= Behind
      /\ \A k \in DOMAIN fetched : fetched[k] = First + k - 1
      /\ NextIndex <= endIndex + 1
  BY <1>1, <1>2 DEF Inv, RangeInv, First
<1>4. /\ cur.inactive \in Nat /\ cur.size \in Nat /\ endIndex = (cur.inactive + cur.size) - 1
      /\ endIndex \in Int
  BY <1>2, <1>3, EndOfRange
<1>5. First + Len(fetched) = endIndex + 1 /\ Len(fetched) \in Nat /\ DOMAIN fetched = 1..Len(fetched)
  BY <1>1, <1>2, <1>3, <1>4 DEF NextIndex, First, Inv, TypeOK
<1>6. LogInv' /\ FileInv'
  BY <1>1, FileUntouched
<1>7. UNCHANGED <<Offset, Behind, GetEndIndex(cur)>>
  BY <1>1 DEF Offset, Behind, Before, GetEndIndex, GetCheckpointIndex, logVars
<1>8. CASE pc' = "notify" /\ UNCHANGED <<startIndex, endIndex>>
  <2>1. TypeOK'
    BY <1>1, <1>8 DEF Inv, TypeOK, logVars, obsVars
  <2>2. IterationInv' /\ WriteInv' /\ WaitInv' /\ Ascending'
    BY <1>1, <1>8 DEF Inv, IterationInv, Iterating, WriteInv, WaitInv, Ascending, Before, logVars
  <2>3. ASSUME NEW i \in First..endIndex PROVE i \in Matched
    <3>1. i - First + 1 \in DOMAIN fetched /\ fetched[i - First + 1] = i
      <4>1. i - First + 1 \in 1..Len(fetched)
        BY <1>3, <1>4, <1>5
      <4> QED BY <1>3, <1>5, <4>1
    <3> QED BY <3>1 DEF Matched, ToSet
  <2>4. First' = First /\ Matched' = Matched /\ endIndex - 1 + Offset = endIndex
    BY <1>1, <1>2, <1>4, <1>7, <1>8 DEF First, Matched
  <2>5. RangeInv'
    BY <1>1, <1>2, <1>7, <1>8, <2>3, <2>4 DEF Inv, RangeInv, Reading
  <2> QED BY <1>6, <2>1, <2>2, <2>5 DEF Inv
<1>9. CASE fetched = <<>> /\ pc' = "write" /\ startIndex' = endIndex /\ endIndex' = None
  <2>1. TypeOK'
    BY <1>1, <1>4, <1>9, Nil DEF Inv, TypeOK, logVars, obsVars
  <2>2. IterationInv' /\ RangeInv' /\ WaitInv' /\ Ascending'
    BY <1>1, <1>9 DEF Inv, IterationInv, Iterating, RangeInv, Reading, WaitInv, Ascending, Before, logVars
  <2>3. Accounted(cur.inactive + cur.size)
    <3>1. cur.inactive + cur.size = First
      BY <1>3, <1>4, <1>5, <1>9
    <3>2. SUFFICES ASSUME base # None, ~lost PROVE Accounted(First)
      BY <3>1 DEF Accounted
    <3>3. file \in Checkpoint /\ base \in Nat /\ Accounted(Behind) /\ Behind \in Int
      BY <1>2, <3>2, EndOfRange DEF Inv, FileInv
    <3> QED BY <1>3, <3>3 DEF Accounted
  <2>4. WriteInv'
    BY <1>1, <1>3, <1>7, <1>9, <2>3 DEF WriteInv, Accounted, obsVars
  <2> QED BY <1>6, <2>1, <2>2, <2>4 DEF Inv
<1> QED BY <1>8, <1>9 DEF FetchDone

\* The answer of a CT log is a prefix of the range; the rest of the range is what it withheld.
LEMMA GetEntriesStep ==
  ASSUME Inv, GetEntries
  PROVE  Inv'
<1>1. PICK e \in startIndex..Lesser(endIndex, treeSize - 1) :
        /\ fetched' = [i \in 1..(e + 1 - startIndex) |-> startIndex + i - 1]
        /\ withheld' = withheld \cup (e + 1)..(endIndex - 1)
  BY DEF GetEntries
<1>2. /\ pc = "search" /\ kind = "ct" /\ pc' = "notify"
      /\ UNCHANGED <<kind, logVars, file, once, startIndex, endIndex, prev, cur, attempt, base, reported, lost>>
  BY DEF GetEntries
<1>3. Reading /\ Iterating /\ Offset = 0
  BY <1>2 DEF Reading, Iterating, Offset
<1>4. startIndex \in Nat /\ First = startIndex /\ endIndex = GetEndIndex(cur)
  BY <1>3 DEF Inv, RangeInv, First
<1>5. endIndex \in Int
  BY <1>3, <1>4, EndOfRange
<1>6. treeSize \in Nat /\ Lesser(endIndex, treeSize - 1) \in Int
  BY <1>5, Room DEF Inv, Lesser
<1>7. e \in Nat /\ e >= startIndex
  BY <1>4, <1>5, <1>6
<1> DEFINE n == e + 1 - startIndex
<1>8. /\ n \in Nat /\ fetched' \in Seq(Nat) /\ DOMAIN fetched' = 1..n
      /\ \A k \in DOMAIN fetched' : fetched'[k] = startIndex + k - 1
  <2>1. n \in Nat /\ fetched' = [i \in 1..n |-> startIndex + i - 1]
    BY <1>1, <1>4, <1>7
  <2> HIDE DEF n
  <2>2. \A i \in 1..n : startIndex + i - 1 \in Nat
    BY <1>4, <2>1
  <2>3. fetched' \in [1..n -> Nat]
    BY <2>1, <2>2
  <2>4. fetched' \in Seq(Nat)
    BY <2>1, <2>3
  <2> QED BY <2>1, <2>3, <2>4
<1>9. TypeOK'
  <2>1. (e + 1)..(endIndex - 1) \subseteq Nat
    BY <1>5, <1>7
  <2> QED BY <1>1, <1>2, <1>8, <2>1 DEF Inv, TypeOK, logVars
<1>10. LogInv' /\ FileInv'
  BY <1>1, <1>2, MoreAccounted
<1>11. IterationInv' /\ WriteInv' /\ WaitInv'
  BY <1>2 DEF Inv, IterationInv, Iterating, WriteInv, WaitInv, Before, logVars
<1>12. ASSUME NEW i \in First..(endIndex - 1) PROVE i \in Matched' \cup withheld'
  <2>1. CASE i <= e
    <3>1. i - startIndex + 1 \in 1..n /\ startIndex + (i - startIndex + 1) - 1 = i
      BY <1>4, <1>5, <1>7, <2>1
    <3> QED BY <1>8, <3>1 DEF Matched, ToSet
  <2>2. CASE i > e
    BY <1>1, <1>4, <1>5, <1>7, <2>2
  <2> QED BY <1>4, <1>5, <1>7, <2>1, <2>2
<1>13. RangeInv'
  <2>1. UNCHANGED <<First, Offset, Behind, GetEndIndex(cur)>> /\ endIndex - 1 + Offset = endIndex - 1
    BY <1>2, <1>3, <1>5 DEF First, Offset, Behind, Before, GetEndIndex, GetCheckpointIndex, logVars
  <2>2. \A k \in DOMAIN fetched' : fetched'[k] = First + k - 1
    BY <1>4, <1>8
  <2> QED BY <1>2, <1>3, <1>12, <2>1, <2>2 DEF Inv, RangeInv, Reading
<1>14. Ascending'
  BY <1>4, <1>8, Consecutive DEF Ascending
<1> QED BY <1>9, <1>10, <1>11, <1>13, <1>14 DEF Inv

-------------------------------------------------------------------------------
(* The report *)

LEMMA MatchedType ==
  ASSUME TypeOK
  PROVE  Matched \subseteq Nat
BY DEF TypeOK, Matched, ToSet

\* Before the range there is what was behind the file's checkpoint.
LEMMA NotifyStep ==
  ASSUME Inv, Notify
  PROVE  Inv'
<1>1. /\ pc = "notify" /\ pc' = "write" /\ startIndex' = endIndex /\ endIndex' = None
      /\ reported' = reported \cup Matched
      /\ UNCHANGED <<kind, logVars, file, once, prev, cur, fetched, attempt, base, withheld, lost>>
  BY DEF Notify, Report
<1>2. Reading /\ Iterating
  BY <1>1 DEF Reading, Iterating
<1>3. /\ First \in Int /\ endIndex = GetEndIndex(cur)
      /\ file \in Checkpoint => First <= Behind
      /\ \A i \in First..(endIndex - 1 + Offset) : i \in Matched \cup withheld
  BY <1>1, <1>2 DEF Inv, RangeInv, First, Offset
<1>4. /\ cur.inactive + cur.size \in Nat /\ Offset \in {0, 1} /\ endIndex \in Int
      /\ endIndex = (cur.inactive + cur.size) - Offset
      /\ endIndex - 1 + Offset = (cur.inactive + cur.size) - 1
  BY <1>2, <1>3, EndOfRange
<1>5. TypeOK'
  <2>1. startIndex' \in IndexRange \cup {None} /\ reported' \subseteq Nat
    BY <1>1, MatchedType DEF Inv, TypeOK
  <2> QED BY <1>1, <2>1 DEF Inv, TypeOK, logVars
<1>6. LogInv' /\ FileInv'
  BY <1>1, MoreAccounted
<1>7. IterationInv' /\ RangeInv' /\ WaitInv' /\ Ascending'
  BY <1>1 DEF Inv, IterationInv, Iterating, RangeInv, Reading, WaitInv, Ascending, Before, logVars
<1>8. WriteInv'
  <2>1. SUFFICES ASSUME base # None, ~lost, NEW i \in base..((cur.inactive + cur.size) - 1)
                 PROVE  i \in reported' \cup withheld'
    <3>1. GetEndIndex(cur)' = GetEndIndex(cur)
      BY <1>1 DEF GetEndIndex, GetCheckpointIndex, logVars
    <3> QED BY <1>1, <1>3, <3>1 DEF WriteInv, Accounted
  <2>2. file \in Checkpoint /\ base \in Nat /\ Accounted(Behind) /\ Behind \in Nat
    BY <1>2, <2>1, EndOfRange DEF Inv, FileInv
  <2>3. i \in Int
    BY <1>4, <2>1, <2>2
  <2>4. CASE i < First
    <3>1. i \in base..(Behind - 1)
      BY <1>3, <1>4, <2>1, <2>2, <2>3, <2>4
    <3> QED BY <1>1, <2>1, <2>2, <3>1 DEF Accounted
  <2>5. CASE i >= First
    <3>1. i \in First..(endIndex - 1 + Offset)
      BY <1>3, <1>4, <2>1, <2>2, <2>3, <2>5
    <3> QED BY <1>1, <1>3, <3>1
  <2> QED BY <1>3, <2>3, <2>4, <2>5
<1> QED BY <1>5, <1>6, <1>7, <1>8 DEF Inv

LEMMA NotifyFailsStep ==
  ASSUME Inv, NotifyFails
  PROVE  Inv'
<1>1. /\ Stop /\ UNCHANGED <<kind, logVars, file, base, withheld, lost>>
      /\ reported \subseteq reported' /\ reported' \subseteq Nat
  BY MatchedType DEF Inv, NotifyFails, Report, TypeOK
<1>2. TypeOK'
  BY <1>1, StopType DEF Inv, TypeOK, logVars
<1>3. LogInv' /\ FileInv'
  BY <1>1, MoreAccounted
<1> QED BY <1>1, <1>2, <1>3, Stopped DEF Inv

-------------------------------------------------------------------------------
(* The write *)

\* The checkpoint that is written has everything behind it accounted for.
LEMMA Written ==
  ASSUME Inv, pc = "write", MustWrite, UNCHANGED <<kind, logVars, reported, withheld, lost>>,
         file' = LatestCheckpoint, base' = IF base = None THEN cur.inactive + cur.size ELSE base
  PROVE  /\ file' \in Checkpoint /\ base' \in Nat /\ Behind' = cur.inactive + cur.size
         /\ LogInv' /\ FileInv'
<1>1. /\ cur \in LogInfo /\ cur.tree <= tree /\ cur.inactive = Before(cur.tree)
      /\ Accounted(cur.inactive + cur.size)
  BY DEF Inv, IterationInv, Iterating, WriteInv
<1>2. cur.tree \in Tree /\ cur.size \in 1..MaxSize /\ cur.inactive + cur.size \in Nat
  BY <1>1, InfoFields DEF MustWrite
<1>3. file' \in Checkpoint /\ file'.tree = cur.tree /\ file'.size = cur.size
  BY <1>2 DEF LatestCheckpoint, Checkpoint
<1>4. Behind' = cur.inactive + cur.size
  BY <1>1, <1>3 DEF Behind, Before, logVars
<1>5. base' \in Nat
  BY <1>2 DEF Inv, TypeOK
<1>6. Accounted(Behind)'
  <2>1. ASSUME base = None PROVE base'..(Behind' - 1) = {}
    BY <1>2, <1>4, <2>1
  <2>2. ASSUME base # None, ~lost, NEW i \in base..(Behind' - 1) PROVE i \in reported \cup withheld
    BY <1>1, <1>4, <2>2 DEF Accounted
  <2> QED BY <2>1, <2>2 DEF Accounted
<1>7. LogInv'
  BY DEF Inv, LogInv, logVars
<1>8. FileInv'
  BY <1>1, <1>3, <1>4, <1>5, <1>6 DEF FileInv, Accounted, logVars
<1> QED BY <1>3, <1>4, <1>5, <1>7, <1>8

LEMMA WriteCheckpointStep ==
  ASSUME Inv, WriteCheckpoint
  PROVE  Inv'
<1>1. /\ pc = "write" /\ EndOfIteration /\ UNCHANGED <<kind, logVars, reported, withheld, lost>>
      /\ Iterating
  BY DEF WriteCheckpoint, Iterating
<1>2. /\ file' \in Checkpoint \cup {None, Torn} /\ base' \in Nat \cup {None} /\ LogInv' /\ FileInv'
      /\ MustWrite => file' \in Checkpoint /\ Behind' = cur.inactive + cur.size
      /\ ~MustWrite => file' = file
  <2>1. CASE MustWrite
    BY <1>1, <2>1, Written DEF WriteCheckpoint
  <2>2. CASE ~MustWrite
    <3>1. UNCHANGED <<file, base>>
      BY <2>2 DEF WriteCheckpoint
    <3>2. LogInv' /\ FileInv'
      BY <1>1, <3>1, FileUntouched DEF obsVars
    <3> QED BY <2>2, <3>1, <3>2 DEF Inv, TypeOK
  <2> QED BY <2>1, <2>2
<1>3. CASE Stop
  <2>1. TypeOK'
    BY <1>1, <1>2, <1>3, StopType DEF Inv, TypeOK, logVars
  <2> QED BY <1>2, <1>3, <2>1, Stopped DEF Inv
<1>4. CASE /\ pc' = "wait" /\ prev' = None /\ cur' = None /\ fetched' = <<>>
           /\ UNCHANGED <<once, startIndex, endIndex, attempt>>
  <2>1. TypeOK'
    BY <1>1, <1>2, <1>4 DEF Inv, TypeOK, logVars
  <2>2. IterationInv' /\ RangeInv' /\ WriteInv' /\ Ascending'
    BY <1>4 DEF IterationInv, Iterating, RangeInv, Reading, WriteInv, Ascending
  <2>3. /\ startIndex' = (cur.inactive + cur.size) - Offset /\ Offset' = Offset /\ Offset \in {0, 1}
        /\ cur.inactive \in {0, inactive} /\ cur.inactive \in Nat /\ cur.size \in Nat
        /\ inactive' = inactive /\ inactive \in Nat
    BY <1>1, <1>4, EndOfRange DEF Inv, WriteInv, Offset, logVars
  <2>4. CASE file' \in Checkpoint
    <3>1. Behind' = cur.inactive + cur.size
      <4>1. CASE ~MustWrite
        <5>1. file \in Checkpoint /\ file' = file /\ prev = file /\ file.size <= cur.size
          BY <1>1, <1>2, <2>4, <4>1 DEF Inv, IterationInv
        <5>2. file.size = cur.size
          BY <2>3, <4>1, <5>1, CheckpointFields DEF MustWrite
        <5>3. Behind' = Behind /\ Behind = cur.inactive + file.size
          BY <1>1, <5>1, EndOfRange DEF Behind, Before, logVars
        <5> QED BY <5>2, <5>3
      <4> QED BY <1>2, <4>1
    <3>2. startIndex' = Behind' - Offset'
      BY <2>3, <3>1
    <3>3. WaitInv'
      BY <1>4, <2>4, <3>2 DEF WaitInv
    <3> QED BY <1>2, <2>1, <2>2, <3>3 DEF Inv
  <2>5. CASE file' \notin Checkpoint
    <3>1. ~MustWrite /\ file' = file /\ prev = file /\ file = None
      BY <1>1, <1>2, <2>5 DEF Inv, IterationInv, TypeOK
    <3>2. cur.size = 0
      BY <2>3, <3>1 DEF MustWrite
    <3>3. 0 - Offset <= startIndex' /\ startIndex' <= inactive - Offset
      <4>1. startIndex' = cur.inactive - Offset
        BY <2>3, <3>2
      <4> QED BY <2>3, <4>1
    <3>4. 0 - Offset' <= startIndex' /\ startIndex' <= inactive' - Offset'
      BY <2>3, <3>3
    <3>5. WaitInv'
      BY <1>4, <2>5, <3>4 DEF WaitInv
    <3> QED BY <1>2, <2>1, <2>2, <3>5 DEF Inv
  <2> QED BY <2>4, <2>5
<1> QED BY <1>1, <1>3, <1>4 DEF EndOfIteration

\* A write that fails leaves the checkpoint as it was, or the file is lost.
LEMMA WriteFailsStep ==
  ASSUME Inv, WriteFails
  PROVE  Inv'
<1>1. /\ Stop /\ UNCHANGED <<kind, logVars, base, reported, withheld>>
      /\ UNCHANGED <<file, lost>> \/ (file' \in {None, Torn} /\ lost' = TRUE)
  BY DEF WriteFails
<1>2. TypeOK'
  BY <1>1, StopType DEF Inv, TypeOK, logVars
<1>3. LogInv' /\ FileInv'
  <2>1. CASE UNCHANGED <<file, lost>>
    BY <1>1, <2>1, FileUntouched DEF obsVars
  <2>2. CASE file' \in {None, Torn} /\ lost' = TRUE
    BY <1>1, <2>2, Nil DEF Inv, LogInv, FileInv, logVars
  <2> QED BY <1>1, <2>1, <2>2
<1> QED BY <1>1, <1>2, <1>3, Stopped DEF Inv

-------------------------------------------------------------------------------
(* Every step *)

LEMMA InitInv ==
  Init => Inv
<1> SUFFICES ASSUME Init PROVE Inv
  OBVIOUS
<1>1. TypeOK
  <2>1. LastTree * MaxSize \in Nat
    OBVIOUS
  <2>2. /\ kind \in {"rekor", "ct"} /\ pc \in {"off", "check", "search", "notify", "write", "wait"}
        /\ treeSize \in 0..MaxSize /\ tree \in Tree /\ inactive \in 0..(LastTree * MaxSize)
    BY <2>1 DEF Init, Tree
  <2>3. fetched \in Seq(Nat) /\ attempt \in 1..MaxAttempts
    BY DEF Init
  <2>4. base \in Nat \cup {None} /\ reported \in SUBSET Nat /\ withheld \in SUBSET Nat
    BY DEF Init
  <2> QED BY <2>2, <2>3, <2>4 DEF Init, TypeOK
<1>2. LogInv /\ FileInv
  BY Nil DEF Init, LogInv, FileInv
<1>3. IterationInv /\ RangeInv /\ WriteInv /\ WaitInv /\ Ascending
  BY DEF Init, IterationInv, Iterating, RangeInv, Reading, WriteInv, WaitInv, Ascending
<1> QED BY <1>1, <1>2, <1>3 DEF Inv

LEMMA NextInv ==
  Inv /\ [Next]_vars => Inv'
<1> SUFFICES ASSUME Inv, [Next]_vars PROVE Inv'
  OBVIOUS
<1>1. CASE Grow
  BY <1>1, GrowStep
<1>2. CASE Rollover
  BY <1>2, RolloverStep
<1>3. CASE Start \/ Tick
  BY <1>3, StartStep
<1>4. CASE Check
  BY <1>4, CheckStep
<1>5. CASE CheckFails
  BY <1>5, CheckFailsStep
<1>6. CASE FetchBatch
  BY <1>6, FetchBatchStep
<1>7. CASE FetchRetries
  BY <1>7, FetchRetriesStep
<1>8. CASE FetchDone
  BY <1>8, FetchDoneStep
<1>9. CASE GetEntries
  BY <1>9, GetEntriesStep
<1>10. CASE FetchFails \/ GetEntriesFails \/ Ends
  BY <1>10, EndsStep
<1>11. CASE Notify
  BY <1>11, NotifyStep
<1>12. CASE NotifyFails
  BY <1>12, NotifyFailsStep
<1>13. CASE WriteCheckpoint
  BY <1>13, WriteCheckpointStep
<1>14. CASE WriteFails
  BY <1>14, WriteFailsStep
<1>15. CASE UNCHANGED vars
  <2>1. TypeOK'
    BY <1>15 DEF Inv, TypeOK, vars, logVars, memVars, obsVars
  <2>2. LogInv' /\ FileInv'
    BY <1>15, FileUntouched DEF vars
  <2>3. UNCHANGED <<Offset, First, Behind, NextIndex, GetEndIndex(cur), Matched>>
    BY <1>15 DEF vars, logVars, memVars, Offset, First, Behind, Before, NextIndex, GetEndIndex,
                 GetCheckpointIndex, Matched
  <2>4. IterationInv' /\ WriteInv' /\ WaitInv' /\ Ascending'
    BY <1>15, <2>3 DEF Inv, IterationInv, Iterating, WriteInv, Accounted, WaitInv, Ascending, Before,
                       vars, logVars, memVars, obsVars
  <2>5. RangeInv'
    BY <1>15, <2>3 DEF Inv, RangeInv, Reading, vars, logVars, memVars, obsVars
  <2> QED BY <2>1, <2>2, <2>4, <2>5 DEF Inv
<1> QED BY <1>1, <1>2, <1>3, <1>4, <1>5, <1>6, <1>7, <1>8, <1>9, <1>10, <1>11, <1>12, <1>13, <1>14,
           <1>15 DEF Next

(***************************************************************************)
(* The inductive invariant holds in every reachable state, for all sizes   *)
(* of the trees and the batches and any number of attempts.                *)
(***************************************************************************)
THEOREM Invariance ==
  Spec => []Inv
BY InitInv, NextInv, PTL DEF Spec

(***************************************************************************)
(* Every variable of MonitorLoop with the legacy logs has its type; the    *)
(* indices the monitors compute are those of the log's entries, or -1.     *)
(***************************************************************************)
THEOREM TypeCorrect ==
  Spec => []TypeOK
<1>1. Inv => TypeOK
  BY DEF Inv
<1> QED BY <1>1, Invariance, PTL

(***************************************************************************)
(* Every entry between the first checkpoint and the one in the file was    *)
(* reported, unless the log left it out of an answer or the file was lost, *)
(* whatever fails, stops, lags behind or rolls over.                       *)
(***************************************************************************)
THEOREM NoEntrySkipped ==
  Spec => []NothingSkipped
<1>1. Inv => NothingSkipped
  BY Nil DEF Inv, FileInv, NothingSkipped, Accounted
<1> QED BY <1>1, Invariance, PTL

(***************************************************************************)
(* MonitorLoop asks again for nothing behind the saved checkpoint but for  *)
(* the last entry of a CT log, and GetEntriesByIndexRange returns a batch  *)
(* once, however often Retry asked for it.                                 *)
(***************************************************************************)
THEOREM NoEntryRepeated ==
  Spec => []NothingRepeated
<1>1. ASSUME Inv PROVE NothingRepeated
  <2>1. ASSUME pc = "notify", prev # None, NEW i \in ToSet(fetched)
        PROVE  i >= Before(prev.tree) + prev.size - (IF kind = "ct" THEN 1 ELSE 0)
    <3>1. Reading /\ Iterating
      BY <2>1 DEF Reading, Iterating
    <3>2. prev = file /\ file \in Checkpoint /\ kind \in {"rekor", "ct"}
      BY <1>1, <2>1, <3>1 DEF Inv, IterationInv, TypeOK
    <3>3. Behind \in Nat /\ Behind = Before(prev.tree) + prev.size /\ prev.size \in Nat
      BY <1>1, <3>1, <3>2, EndOfRange, CheckpointFields DEF Behind
    <3>4. Before(prev.tree) \in Nat
      BY <1>1, Room DEF Inv, Before
    <3>5. Offset = IF kind = "rekor" THEN 1 ELSE 0
      BY DEF Offset
    <3>6. First \in Int /\ First >= Behind - (1 - Offset)
      BY <1>1, <3>1, <3>2 DEF Inv, RangeInv, First, Offset
    <3>7. PICK k \in DOMAIN fetched : i = fetched[k] /\ fetched[k] = First + k - 1
      BY <1>1, <3>1 DEF Inv, RangeInv, ToSet
    <3>8. k \in Nat /\ k >= 1
      BY <1>1, <3>7 DEF Inv, TypeOK
    <3>9. i >= Behind - (1 - Offset) /\ i \in Int
      BY <3>3, <3>5, <3>6, <3>7, <3>8
    <3> QED BY <3>2, <3>3, <3>4, <3>5, <3>9
  <2> QED BY <1>1, <2>1 DEF NothingRepeated, Inv, Ascending
<1> QED BY <1>1, Invariance, PTL

(***************************************************************************)
(* The start index that MonitorLoop keeps in memory between two iterations *)
(* is where the checkpoint it wrote to the file ends.                      *)
(***************************************************************************)
THEOREM MemoryAgreesWithFile ==
  Spec => []PositionsAgree
<1>1. Inv => PositionsAgree
  BY DEF Inv, WaitInv, PositionsAgree, Offset
<1> QED BY <1>1, Invariance, PTL

(***************************************************************************)
(* MonitorLoop never ends because startIndex is greater than endIndex: no  *)
(* front end that lags behind, no new tree and no restart brings it there. *)
(***************************************************************************)
THEOREM NoRangeReversed ==
  Spec => []RangesInOrder
<1>1. Inv => RangesInOrder
  BY DEF Inv, RangeInv, Reading, RangesInOrder
<1> QED BY <1>1, Invariance, PTL

(***************************************************************************)
(* The comment in MonitorLoop is right about a Rekor log: without the      *)
(* answers that a CT log may cut short, every entry behind the saved       *)
(* checkpoint was searched (run LegacyLoopShort has the other case).       *)
(***************************************************************************)
THEOREM RekorAlwaysSearched ==
  Spec => [](kind = "rekor" => AlwaysSearched)
<1> DEFINE NoneWithheld == kind = "rekor" => withheld = {}
<1>1. Init => NoneWithheld
  BY DEF Init
<1>2. NoneWithheld /\ [Next]_vars => NoneWithheld'
  <2> SUFFICES ASSUME NoneWithheld, [Next]_vars PROVE NoneWithheld'
    OBVIOUS
  <2>1. CASE Grow \/ Rollover
    BY <2>1 DEF Grow, Rollover, obsVars
  <2>2. CASE Start \/ Check \/ CheckFails
    BY <2>2 DEF Start, Check, CheckFails, obsVars
  <2>3. CASE FetchBatch \/ FetchRetries \/ FetchFails \/ FetchDone
    BY <2>3 DEF FetchBatch, FetchRetries, FetchFails, FetchDone, obsVars
  <2>4. CASE GetEntries \/ GetEntriesFails
    BY <2>4 DEF GetEntries, GetEntriesFails, obsVars
  <2>5. CASE Notify \/ NotifyFails \/ WriteCheckpoint \/ WriteFails
    BY <2>5 DEF Notify, NotifyFails, WriteCheckpoint, WriteFails
  <2>6. CASE Tick \/ Ends \/ UNCHANGED vars
    BY <2>6 DEF Tick, Ends, vars, obsVars
  <2> QED BY <2>1, <2>2, <2>3, <2>4, <2>5, <2>6 DEF Next
<1>3. NoneWithheld /\ NothingSkipped => (kind = "rekor" => AlwaysSearched)
  BY DEF NothingSkipped, AlwaysSearched
<1> QED BY <1>1, <1>2, <1>3, NoEntrySkipped, PTL DEF Spec
================================================================================
