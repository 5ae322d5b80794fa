--------------------------- MODULE TileReaderProofs ---------------------------
(***************************************************************************)
(* Proofs about TileReader for every width of the tiles and every size of  *)
(* the log. The arithmetic is done once, in the lemmas about tiles; the    *)
(* inductive invariant then says that what was read so far is the indices  *)
(* after start, up to the tile that is read next.                          *)
(***************************************************************************)
EXTENDS TileReader, TLAPS

USE TileWidthAssumption, TileReaderAssumption

-------------------------------------------------------------------------------
(* The invariant *)

\* The first index of tile t.
TileStart(t) == t * TileWidth

\* Consecutive indices from n + 1 on, which is what bundles and results are.
Run(f, n) == f = [k \in 1..Len(f) |-> n + k]

\* What was read are the indices that follow start.
Contiguous == Run(entries, start)

\* The newest checkpoint is the largest, and only full tiles lose their partial bundles.
LogInv ==
  /\ treeSize \in published /\ \A m \in published : m <= treeSize
  /\ \A t \in pruned : HasFullBundle(t) /\ PrunesBundles

RequestInv == pc # "idle" => Requested(start, end, byUser) /\ end \in -1..(MaxSize - 1)

StartInv == pc = "start" => start < end /\ entries = <<>> /\ tile = GetTileIndex(start)

\* Up to the last tile, what was read ends where the next tile starts.
FullInv ==
  pc = "full" =>
    /\ start < end /\ Contiguous
    /\ \/ /\ GetTileIndex(start) < tile /\ tile <= GetTileIndex(end)
          /\ start + Len(entries) + 1 = TileStart(tile)
       \/ /\ GetTileIndex(start) = GetTileIndex(end) /\ tile = GetTileIndex(end) + 1
          /\ entries = <<>>

\* The partial bundle of the last tile ends the result where the range ends.
DoneInv ==
  pc = "done" =>
    /\ Contiguous
    /\ Len(entries) = end - start
       \/ (Len(entries) > end - start /\ start + Len(entries) + 1 = TileEnd(GetTileIndex(end)))
    /\ ~byUser /\ GetTileIndex(end) \notin pruned => Len(entries) = end - start

\* Only a call that ended with an error met a fault.
FaultInv == fault => pc = "error"

Inv ==
  /\ TypeOK /\ LogInv /\ RequestInv /\ StartInv /\ FullInv /\ DoneInv
  /\ FaultInv /\ NoBundleMissing

-------------------------------------------------------------------------------
(* Tiles *)

LEMMA Division ==
  ASSUME NEW n \in Nat
  PROVE  /\ n \div TileWidth \in Nat
         /\ n % TileWidth \in 0..(TileWidth - 1)
         /\ n = TileWidth * (n \div TileWidth) + (n % TileWidth)
OBVIOUS

LEMMA TileBounds ==
  ASSUME NEW t \in Int
  PROVE  /\ TileStart(t) \in Int /\ TileEnd(t) \in Int
         /\ TileEnd(t) = TileStart(t) + TileWidth /\ TileEnd(t) = TileStart(t + 1)
         /\ t >= 0 => TileStart(t) >= t
<1>1. (t + 1) * TileWidth = t * TileWidth + TileWidth /\ t * TileWidth \in Int
  OBVIOUS
<1>2. ASSUME t >= 0 PROVE t * TileWidth >= t
  <2>1. t * (TileWidth - 1) >= 0 /\ t * TileWidth = t * (TileWidth - 1) + t
    BY <1>2
  <2> QED BY <1>1, <2>1
<1> QED BY <1>1, <1>2 DEF TileStart, TileEnd

LEMMA TilesInOrder ==
  ASSUME NEW s \in Int, NEW t \in Int, s < t
  PROVE  TileEnd(s) <= TileStart(t)
<1> DEFINE d == t - (s + 1)
<1>1. d \in Nat /\ t = s + 1 + d
  OBVIOUS
<1>2. t * TileWidth = (s + 1) * TileWidth + d * TileWidth /\ d * TileWidth \in Nat
  BY <1>1
<1> QED BY <1>2 DEF TileStart, TileEnd

(***************************************************************************)
(* The tile of index i is the one i is in, and the number of entries up to *)
(* i modulo the width is the size of its bundle, where 0 is the full one.  *)
(***************************************************************************)
LEMMA TileOfIndex ==
  ASSUME NEW i \in Int, i >= -1
  PROVE  /\ GetTileIndex(i) \in Int /\ GetTileIndex(i) >= -1 /\ GetTileIndex(i) <= i
         /\ i >= 0 => GetTileIndex(i) >= 0
         /\ TileStart(GetTileIndex(i)) <= i /\ i < TileEnd(GetTileIndex(i))
         /\ (i + 1) % TileWidth \in 0..(TileWidth - 1)
         /\ IF (i + 1) % TileWidth = 0 THEN TileEnd(GetTileIndex(i)) = i + 1
            ELSE i + 1 = TileStart(GetTileIndex(i)) + ((i + 1) % TileWidth)
<1> DEFINE n == i + 1
           q == n \div TileWidth
           r == n % TileWidth
           t == GetTileIndex(i)
<1>1. n \in Nat /\ q \in Nat /\ r \in 0..(TileWidth - 1) /\ n = TileWidth * q + r
  BY Division
<1>2. t = IF r = 0 THEN q - 1 ELSE q
  BY DEF GetTileIndex
<1>3. t \in Int /\ t >= -1
  BY <1>1, <1>2
<1>4. IF r = 0 THEN TileEnd(t) = n ELSE n = TileStart(t) + r
  <2>1. TileWidth * q = q * TileWidth /\ TileWidth * q \in Int
    BY <1>1
  <2>2. r = 0 => TileEnd(t) = TileWidth * q
    BY <1>1, <1>2, <2>1 DEF TileEnd
  <2>3. r # 0 => TileStart(t) = TileWidth * q
    BY <1>2, <2>1 DEF TileStart
  <2> HIDE DEF q, r, t
  <2> QED BY <1>1, <2>1, <2>2, <2>3
<1> HIDE DEF q, r, t
<1>5. TileStart(t) <= i /\ i < TileEnd(t)
  BY <1>1, <1>3, <1>4, TileBounds
<1>6. i >= 0 => t >= 0
  <2>1. t = -1 => TileEnd(t) = 0
    BY DEF TileEnd
  <2> QED BY <1>3, <1>5, <2>1
<1>7. t <= i
  <2>1. t >= 0 => TileStart(t) >= t /\ TileStart(t) \in Int
    BY <1>3, TileBounds
  <2> QED BY <1>3, <1>5, <2>1
<1> QED BY <1>1, <1>3, <1>4, <1>5, <1>6, <1>7 DEF t, r

(***************************************************************************)
(* The last tile of a tree of n entries, when it is full, holds all of     *)
(* them: reading to its end never stops short of the checkpoint.           *)
(***************************************************************************)
THEOREM LastTileCovers ==
  ASSUME NEW n \in Nat
  PROVE  /\ TileEnd(GetTileIndex(n - 1)) \in Nat
         /\ TileEnd(GetTileIndex(n - 1)) >= n
<1>1. /\ GetTileIndex(n - 1) \in Int
      /\ n - 1 < TileEnd(GetTileIndex(n - 1))
  BY TileOfIndex
<1> QED BY <1>1, TileBounds

\* A later index is not in an earlier tile.
LEMMA TileIndexInOrder ==
  ASSUME NEW i \in Int, NEW j \in Int, i >= -1, i <= j
  PROVE  GetTileIndex(i) <= GetTileIndex(j)
<1>1. /\ GetTileIndex(i) \in Int /\ GetTileIndex(j) \in Int
      /\ TileStart(GetTileIndex(i)) <= i /\ j < TileEnd(GetTileIndex(j))
  BY TileOfIndex
<1>2. CASE GetTileIndex(j) < GetTileIndex(i)
  <2>1. TileEnd(GetTileIndex(j)) <= TileStart(GetTileIndex(i))
    BY <1>1, <1>2, TilesInOrder
  <2> QED BY <1>1, <2>1, TileBounds
<1> QED BY <1>1, <1>2

-------------------------------------------------------------------------------
(* Runs of consecutive indices *)

\* A sequence of integers whose k-th is n + k is the run after n.
LEMMA IsRun ==
  ASSUME NEW S \in SUBSET Int, NEW f \in Seq(S), NEW n \in Int, \A k \in 1..Len(f) : f[k] = n + k
  PROVE  Run(f, n)
<1>1. f = [k \in 1..Len(f) |-> f[k]]
  OBVIOUS
<1> QED BY <1>1 DEF Run

LEMMA RunAppend ==
  ASSUME NEW S \in SUBSET Int, NEW f \in Seq(S), NEW g \in Seq(S), NEW n \in Int,
         Run(f, n), Run(g, n + Len(f))
  PROVE  f \o g \in Seq(S) /\ Len(f \o g) = Len(f) + Len(g) /\ Run(f \o g, n)
<1>1. f \o g \in Seq(S) /\ Len(f \o g) = Len(f) + Len(g) /\ Len(f) \in Nat /\ Len(g) \in Nat
  OBVIOUS
<1>2. ASSUME NEW k \in 1..Len(f \o g) PROVE (f \o g)[k] = n + k
  <2>1. CASE k <= Len(f)
    <3>1. k \in 1..Len(f) /\ (f \o g)[k] = f[k]
      BY <1>1, <2>1
    <3> QED BY <3>1 DEF Run
  <2>2. CASE k > Len(f)
    <3>1. k - Len(f) \in 1..Len(g) /\ (f \o g)[k] = g[k - Len(f)]
      BY <1>1, <2>2
    <3>2. g[k - Len(f)] = (n + Len(f)) + (k - Len(f))
      BY <3>1 DEF Run
    <3> QED BY <1>1, <3>1, <3>2
  <2> QED BY <1>1, <2>1, <2>2
<1> QED BY <1>1, <1>2, IsRun

LEMMA RunRest ==
  ASSUME NEW S \in SUBSET Int, NEW b \in Seq(S), NEW n \in Int, NEW u \in Nat, u <= Len(b), Run(b, n)
  PROVE  /\ SubSeq(b, u + 1, Len(b)) \in Seq(S) /\ Len(SubSeq(b, u + 1, Len(b))) = Len(b) - u
         /\ Run(SubSeq(b, u + 1, Len(b)), n + u)
<1> DEFINE c == SubSeq(b, u + 1, Len(b))
<1>1. c \in Seq(S) /\ Len(c) = Len(b) - u /\ Len(b) \in Nat
  OBVIOUS
<1>2. ASSUME NEW k \in 1..Len(c) PROVE c[k] = (n + u) + k
  <2>1. u + k \in 1..Len(b) /\ c[k] = b[u + k]
    BY <1>1
  <2>2. b[u + k] = n + (u + k)
    BY <2>1 DEF Run
  <2> QED BY <2>1, <2>2
<1> HIDE DEF c
<1>3. Run(c, n + u)
  BY <1>1, <1>2, IsRun
<1> QED BY <1>1, <1>3 DEF c

(***************************************************************************)
(* A bundle holds the entries of its tile from the tile's start, all of    *)
(* them or as many as the width asks for, and the log has them. A partial  *)
(* bundle that exists is what is read.                                     *)
(***************************************************************************)
LEMMA Bundle ==
  ASSUME TypeOK, LogInv, NEW t \in Nat, NEW p \in 0..(TileWidth - 1), NEW b \in ReadEntryBundle(t, p)
  PROVE  /\ b \in Seq(0..(MaxSize - 1)) /\ Run(b, TileStart(t) - 1)
         /\ Len(b) = TileWidth \/ (p > 0 /\ Len(b) = p)
         /\ IF p > 0 /\ PartialExists(t, p) THEN Len(b) = p
            ELSE Len(b) = TileWidth /\ HasFullBundle(t)
<1>1. TileStart(t) \in Nat /\ TileEnd(t) = TileStart(t) + TileWidth
  BY TileBounds
<1>2. treeSize \in 0..MaxSize /\ published \subseteq 0..MaxSize
  BY DEF TypeOK, LogInv
<1>3. ASSUME NEW w \in 0..(TileWidth - 1), NEW n \in Nat, n = IF w = 0 THEN TileWidth ELSE w,
             TileStart(t) + n <= MaxSize
      PROVE  /\ BundleEntries(t, w) \in Seq(0..(MaxSize - 1)) /\ Len(BundleEntries(t, w)) = n
             /\ Run(BundleEntries(t, w), TileStart(t) - 1)
  <2>1. BundleEntries(t, w) = [k \in 1..n |-> TileStart(t) + k - 1]
    BY <1>3 DEF BundleEntries, TileStart
  <2>2. \A k \in 1..n : TileStart(t) + k - 1 \in 0..(MaxSize - 1) /\ TileStart(t) + k - 1 = (TileStart(t) - 1) + k
    BY <1>1, <1>3
  <2>3. BundleEntries(t, w) \in [1..n -> 0..(MaxSize - 1)]
    BY <2>1, <2>2
  <2>4. Len(BundleEntries(t, w)) = n /\ BundleEntries(t, w) \in Seq(0..(MaxSize - 1))
    BY <1>3, <2>3
  <2> QED BY <2>1, <2>2, <2>4 DEF Run
<1>4. CASE p > 0 /\ PartialExists(t, p)
  <2>1. TileStart(t) + p <= MaxSize /\ b = BundleEntries(t, p)
    BY <1>1, <1>2, <1>4 DEF PartialExists, TileStart, ReadEntryBundle
  <2> QED BY <1>3, <1>4, <2>1
<1>5. CASE ~(p > 0 /\ PartialExists(t, p))
  <2>1. HasFullBundle(t) /\ b = BundleEntries(t, 0)
    BY <1>5 DEF ReadEntryBundle
  <2>2. TileStart(t) + TileWidth <= MaxSize
    BY <1>1, <1>2, <2>1 DEF HasFullBundle
  <2> QED BY <1>3, <1>5, <2>1, <2>2
<1> QED BY <1>4, <1>5

\* The call's arguments lie within the log's bound.
LEMMA Range ==
  ASSUME TypeOK, RequestInv, pc # "idle"
  PROVE  /\ start \in Int /\ end \in Int /\ start >= -1 /\ end >= -1 /\ end < MaxSize
         /\ tile \in Int /\ tile >= -1 /\ entries \in Seq(0..(MaxSize - 1)) /\ Len(entries) \in Nat
         /\ 0..(MaxSize - 1) \in SUBSET Int
BY DEF TypeOK, RequestInv

-------------------------------------------------------------------------------
(* The log's steps *)

\* Bundles that were full stay so; partial ones of the last tile are there or superseded.
LEMMA GrowStep ==
  ASSUME Inv, Grow
  PROVE  Inv'
<1>1. PICK n \in treeSize + 1 .. MaxSize : published' = published \cup {n}
  BY DEF Grow
<1>2. UNCHANGED <<pruned, pc, byUser, start, end, tile, entries, fault>>
  BY DEF Grow, callVars
<1>3. /\ treeSize \in published /\ published \subseteq 0..MaxSize /\ treeSize \in Nat
      /\ \A m \in published : m <= treeSize
  BY DEF Inv, TypeOK, LogInv
<1>4. n \in published' /\ \A m \in published' : m <= n
  BY <1>1, <1>3
<1>5. treeSize' \in published' /\ \A m \in published' : m <= treeSize'
  BY <1>4 DEF treeSize
<1>6. treeSize' >= treeSize /\ treeSize' \in Nat
  BY <1>1, <1>3, <1>5
<1>7. \A t \in pruned : HasFullBundle(t)'
  <2> SUFFICES ASSUME NEW t \in pruned PROVE t >= 0 /\ TileEnd(t) <= treeSize'
    BY DEF HasFullBundle
  <2>1. t \in Int /\ t >= 0 /\ TileEnd(t) <= treeSize
    BY DEF Inv, TypeOK, LogInv, HasFullBundle
  <2> QED BY <1>3, <1>6, <2>1, TileBounds
<1>8. TypeOK' /\ LogInv'
  <2>1. published' \subseteq 0..MaxSize
    BY <1>1, <1>3
  <2> QED BY <1>2, <1>5, <1>7, <2>1 DEF Inv, TypeOK, LogInv
<1>9. RequestInv'
  BY <1>1, <1>2 DEF Inv, RequestInv, Requested
<1>10. StartInv' /\ FullInv' /\ DoneInv' /\ FaultInv' /\ NoBundleMissing'
  BY <1>2 DEF Inv, StartInv, FullInv, DoneInv, FaultInv, NoBundleMissing, Contiguous, Run
<1> QED BY <1>8, <1>9, <1>10 DEF Inv

LEMMA PruneStep ==
  ASSUME Inv, Prune
  PROVE  Inv'
<1>1. PICK t \in 0..MaxSize : HasFullBundle(t) /\ pruned' = pruned \cup {t}
  BY DEF Prune
<1>2. UNCHANGED <<published, pc, byUser, start, end, tile, entries, fault>>
  BY DEF Prune, callVars
<1>3. treeSize' = treeSize /\ \A x : HasFullBundle(x) => HasFullBundle(x)'
  BY <1>2 DEF treeSize, HasFullBundle
<1>4. TypeOK' /\ LogInv'
  <2>1. \A x \in pruned' : HasFullBundle(x)'
    BY <1>1, <1>2 DEF Inv, LogInv, HasFullBundle, treeSize
  <2>2. \A x \in pruned' : PrunesBundles
    BY DEF Prune
  <2> QED BY <2>2, <1>1, <1>2, <1>3, <2>1 DEF Inv, TypeOK, LogInv
<1>5. RequestInv' /\ StartInv' /\ FullInv' /\ FaultInv' /\ NoBundleMissing'
  BY <1>2 DEF Inv, RequestInv, Requested, StartInv, FullInv, FaultInv, NoBundleMissing, Contiguous, Run
<1>6. DoneInv'
  BY <1>1, <1>2 DEF Inv, DoneInv, Contiguous, Run
<1> QED BY <1>4, <1>5, <1>6 DEF Inv

-------------------------------------------------------------------------------
(* The call's steps *)

\* A call and its reads leave the log alone.
LEMMA LogUntouched ==
  ASSUME Inv, UNCHANGED logVars
  PROVE  LogInv' /\ published' \in SUBSET (0..MaxSize) /\ pruned' \in SUBSET (0..MaxSize)
<1>1. UNCHANGED <<published, pruned, treeSize>>
  BY DEF logVars, treeSize
<1> QED BY <1>1 DEF Inv, TypeOK, LogInv, HasFullBundle

LEMMA CallStep ==
  ASSUME Inv, NEW s \in -1..(MaxSize - 1), NEW e \in -1..(MaxSize - 1), NEW user \in BOOLEAN,
         Call(s, e, user)
  PROVE  Inv'
<1>1. /\ Requested(s, e, user) /\ byUser' = user /\ start' = s /\ end' = e /\ entries' = <<>>
      /\ tile' = GetTileIndex(s) /\ UNCHANGED <<fault, logVars>> /\ ~fault
      /\ pc' = CASE s > e -> "error" [] s = e -> "done" [] OTHER -> "start"
  BY DEF Call, Inv, FaultInv
<1>2. pc' = IF s > e THEN "error" ELSE IF s = e THEN "done" ELSE "start"
  BY <1>1
<1>3. TypeOK' /\ LogInv'
  <2>1. tile' \in -1..MaxSize
    BY <1>1, TileOfIndex
  <2>2. start' \in -1..MaxSize /\ end' \in -1..MaxSize /\ entries' \in Seq(0..(MaxSize - 1))
    BY <1>1
  <2> QED BY <1>1, <1>2, <2>1, <2>2, LogUntouched DEF TypeOK, Inv
<1>4. RequestInv'
  BY <1>1 DEF RequestInv, Requested, logVars
<1>5. StartInv' /\ FullInv' /\ FaultInv' /\ NoBundleMissing'
  BY <1>1, <1>2 DEF StartInv, FullInv, FaultInv, NoBundleMissing
<1>6. DoneInv'
  <2>1. Len(entries') = 0 /\ entries' = [k \in 1..0 |-> start' + k]
    BY <1>1
  <2> QED BY <1>1, <1>2, <2>1 DEF DoneInv, Contiguous, Run
<1> QED BY <1>3, <1>4, <1>5, <1>6 DEF Inv

LEMMA ReturnStep ==
  ASSUME Inv, Return
  PROVE  Inv'
<1>1. TypeOK' /\ LogInv'
  <2>1. -1 \in -1..MaxSize /\ <<>> \in Seq(0..(MaxSize - 1))
    OBVIOUS
  <2> QED BY <2>1, LogUntouched DEF Return, TypeOK
<1>2. RequestInv' /\ StartInv' /\ FullInv' /\ DoneInv' /\ FaultInv' /\ NoBundleMissing'
  BY DEF Return, RequestInv, StartInv, FullInv, DoneInv, FaultInv, NoBundleMissing
<1> QED BY <1>1, <1>2 DEF Inv

\* A read that goes on where the last one ended.
LEMMA Take ==
  ASSUME TypeOK, RequestInv, pc # "idle", Contiguous, start' = start,
         NEW c \in Seq(0..(MaxSize - 1)), Run(c, start + Len(entries)), entries' = entries \o c
  PROVE  /\ entries' \in Seq(0..(MaxSize - 1)) /\ Len(entries') = Len(entries) + Len(c)
         /\ Contiguous'
<1>1. Run(entries', start) /\ entries' \in Seq(0..(MaxSize - 1)) /\ Len(entries') = Len(entries) + Len(c)
  BY Range, RunAppend DEF Contiguous
<1> QED BY <1>1 DEF Contiguous, Run

\* A step within a call keeps its arguments.
LEMMA WithinCall ==
  ASSUME Inv, pc # "idle", pc' \in {"start", "full", "done", "error"},
         UNCHANGED <<byUser, start, end, logVars>>, fault' \in BOOLEAN,
         tile' \in -1..MaxSize, entries' \in Seq(0..(MaxSize - 1))
  PROVE  TypeOK' /\ LogInv' /\ RequestInv'
<1>1. TypeOK' /\ LogInv'
  BY LogUntouched DEF Inv, TypeOK
<1>2. RequestInv'
  BY DEF Inv, RequestInv, Requested, logVars
<1> QED BY <1>1, <1>2

\* Where the range starts within its first tile, and that this tile is not after the last one.
LEMMA StartTile ==
  ASSUME Inv, pc \in {"start", "full"}
  PROVE  /\ start < end /\ GetTileIndex(start) \in Int /\ GetTileIndex(start) >= -1
         /\ GetTileIndex(end) \in Nat /\ GetTileIndex(end) < MaxSize
         /\ GetTileIndex(start) <= GetTileIndex(end)
         /\ startUnread \in 0..(TileWidth - 1)
         /\ IF startUnread = 0
            THEN TileEnd(GetTileIndex(start)) = start + 1 /\ GetTileIndex(start) < GetTileIndex(end)
            ELSE start + 1 = TileStart(GetTileIndex(start)) + startUnread /\ GetTileIndex(start) >= 0
<1>1. /\ start < end /\ start \in Int /\ end \in Int /\ start >= -1 /\ end < MaxSize /\ end >= 0
  BY Range DEF Inv, StartInv, FullInv
<1>2. /\ GetTileIndex(start) \in Int /\ GetTileIndex(start) >= -1
      /\ start >= 0 => GetTileIndex(start) >= 0
      /\ startUnread \in 0..(TileWidth - 1)
      /\ IF startUnread = 0 THEN TileEnd(GetTileIndex(start)) = start + 1
         ELSE start + 1 = TileStart(GetTileIndex(start)) + startUnread
  BY <1>1, TileOfIndex DEF startUnread
<1>3. /\ GetTileIndex(end) \in Nat /\ GetTileIndex(end) <= end
      /\ end < TileEnd(GetTileIndex(end))
  BY <1>1, TileOfIndex
<1>4. GetTileIndex(start) <= GetTileIndex(end)
  BY <1>1, TileIndexInOrder
<1>5. startUnread # 0 => start >= 0
  <2>1. 0 % TileWidth = 0
    OBVIOUS
  <2> QED BY <1>1, <2>1 DEF startUnread
<1>6. startUnread = 0 => GetTileIndex(start) # GetTileIndex(end)
  BY <1>1, <1>2, <1>3
<1> QED BY <1>1, <1>2, <1>3, <1>4, <1>5, <1>6

LEMMA SkipStartTileStep ==
  ASSUME Inv, SkipStartTile
  PROVE  Inv'
<1>1. /\ pc = "start" /\ pc' = "full" /\ ~NeedsStartTile /\ tile' = GetTileIndex(start) + 1
      /\ UNCHANGED <<byUser, start, end, entries, fault, logVars>> /\ entries = <<>>
  BY DEF SkipStartTile, Inv, StartInv
<1>2. TypeOK' /\ LogInv' /\ RequestInv'
  <2>1. tile' \in -1..MaxSize /\ entries' \in Seq(0..(MaxSize - 1))
    BY <1>1, StartTile
  <2> QED BY <1>1, <2>1, WithinCall DEF Inv, TypeOK
<1>3. FullInv'
  <2>1. start < end /\ Run(entries, start) /\ Len(entries) = 0
    BY <1>1, StartTile DEF Run
  <2>2. Contiguous'
    BY <1>1, <2>1 DEF Contiguous, Run
  <2>3. CASE GetTileIndex(start) = GetTileIndex(end)
    BY <1>1, <2>1, <2>2, <2>3 DEF FullInv
  <2>4. CASE GetTileIndex(start) # GetTileIndex(end)
    <3>1. startUnread = 0 /\ GetTileIndex(start) < GetTileIndex(end)
      BY <1>1, <2>4, StartTile DEF NeedsStartTile
    <3>2. TileEnd(GetTileIndex(start)) = start + 1 /\ start + Len(entries) + 1 = start + 1
      BY <1>1, <2>1, <3>1, StartTile, Range DEF Inv
    <3>3. start + Len(entries) + 1 = TileStart(tile')
      BY <1>1, <3>2, StartTile, TileBounds
    <3>4. GetTileIndex(start) < tile' /\ tile' <= GetTileIndex(end)
      BY <1>1, <3>1, StartTile
    <3>5. (start + Len(entries) + 1 = TileStart(tile))'
      BY <1>1, <3>3 DEF TileStart
    <3>6. (GetTileIndex(start) < tile)' /\ (tile <= GetTileIndex(end))' /\ (start < end)'
      BY <1>1, <2>1, <3>4 DEF GetTileIndex
    <3> QED BY <2>2, <3>5, <3>6 DEF FullInv
  <2> QED BY <2>3, <2>4
<1>4. StartInv' /\ DoneInv' /\ FaultInv' /\ NoBundleMissing'
  BY <1>1 DEF Inv, StartInv, DoneInv, FaultInv, NoBundleMissing
<1> QED BY <1>2, <1>3, <1>4 DEF Inv

\* A full bundle that starts where the next index is takes the call to the next tile.
LEMMA NextTile ==
  ASSUME Inv, pc \in {"start", "full"}, pc' = "full", UNCHANGED <<byUser, start, end, fault, logVars>>, Contiguous,
         tile \in Nat, GetTileIndex(start) <= tile, tile < GetTileIndex(end), tile' = tile + 1,
         NEW c \in Seq(0..(MaxSize - 1)), entries' = entries \o c,
         Run(c, start + Len(entries)), start + Len(entries) + Len(c) + 1 = TileEnd(tile)
  PROVE  Inv'
<1>1. /\ entries' \in Seq(0..(MaxSize - 1)) /\ Len(entries') = Len(entries) + Len(c)
      /\ Contiguous'
  BY Take DEF Inv
<1>2. TypeOK' /\ LogInv' /\ RequestInv'
  <2>1. tile' \in -1..MaxSize
    BY StartTile
  <2> QED BY <1>1, <2>1, WithinCall DEF Inv, TypeOK
<1>3. FullInv'
  <2>1. (start < end)' /\ (GetTileIndex(start) < tile)' /\ (tile <= GetTileIndex(end))'
    BY StartTile DEF GetTileIndex
  <2>2. start + Len(entries') + 1 = TileStart(tile + 1)
    <3>1. start \in Int /\ Len(entries) \in Nat /\ Len(c) \in Nat
      BY Range DEF Inv
    <3> QED BY <1>1, <3>1, TileBounds
  <2>3. (start + Len(entries) + 1 = TileStart(tile))'
    BY <2>2 DEF TileStart
  <2> QED BY <1>1, <2>1, <2>3 DEF FullInv
<1>4. StartInv' /\ DoneInv' /\ FaultInv' /\ NoBundleMissing'
  BY DEF Inv, StartInv, DoneInv, FaultInv, NoBundleMissing
<1> QED BY <1>2, <1>3, <1>4 DEF Inv

LEMMA ReadStartTileStep ==
  ASSUME Inv, ReadStartTile
  PROVE  Inv'
<1>1. /\ pc = "start" /\ pc' = "full" /\ NeedsStartTile /\ tile' = tile + 1
      /\ UNCHANGED <<byUser, start, end, fault, logVars>> /\ entries = <<>> /\ tile = GetTileIndex(start)
  BY DEF ReadStartTile, Inv, StartInv
<1>2. PICK b \in ReadEntryBundle(tile, 0) : entries' = entries \o SubSeq(b, startUnread + 1, Len(b))
  BY DEF ReadStartTile
<1>3. /\ tile \in Nat /\ tile < GetTileIndex(end)
      /\ startUnread \in 0..(TileWidth - 1) /\ start + 1 = TileStart(tile) + startUnread
  BY <1>1, StartTile DEF NeedsStartTile
<1>4. /\ b \in Seq(0..(MaxSize - 1)) /\ Run(b, TileStart(tile) - 1) /\ Len(b) = TileWidth
  BY <1>2, <1>3, Bundle DEF Inv
<1> DEFINE c == SubSeq(b, startUnread + 1, Len(b))
<1>5. /\ c \in Seq(0..(MaxSize - 1)) /\ Len(c) = TileWidth - startUnread
      /\ Run(c, (TileStart(tile) - 1) + startUnread)
  <2>1. TileStart(tile) - 1 \in Int /\ 0..(MaxSize - 1) \in SUBSET Int
    BY <1>3, TileBounds
  <2>2. startUnread \in Nat /\ startUnread <= Len(b)
    BY <1>3, <1>4
  <2> QED BY <1>4, <2>1, <2>2, RunRest
<1> HIDE DEF c
<1>6. Len(entries) = 0 /\ Contiguous
  BY <1>1 DEF Contiguous, Run
<1>7. start \in Int /\ TileStart(tile) \in Int /\ TileEnd(tile) = TileStart(tile) + TileWidth
  BY <1>1, <1>3, TileBounds, Range DEF Inv
<1>8. /\ (TileStart(tile) - 1) + startUnread = start + Len(entries)
      /\ start + Len(entries) + Len(c) + 1 = TileEnd(tile)
  <2>1. startUnread \in Int /\ TileWidth \in Int
    BY <1>3
  <2>2. (TileStart(tile) - 1) + startUnread = start
    BY <1>3, <1>7, <2>1
  <2>3. start + 1 = TileStart(tile) + startUnread /\ Len(c) = TileWidth - startUnread
    BY <1>3, <1>5
  <2>4. start + Len(c) + 1 = TileEnd(tile)
    BY <1>7, <2>1, <2>3
  <2> QED BY <1>6, <1>7, <2>2, <2>4
<1>9. entries' = entries \o c /\ Run(c, start + Len(entries)) /\ GetTileIndex(start) <= tile
  BY <1>1, <1>2, <1>3, <1>5, <1>8 DEF c
<1> QED BY <1>1, <1>3, <1>5, <1>6, <1>8, <1>9, NextTile

LEMMA ReadFullTileStep ==
  ASSUME Inv, ReadFullTile
  PROVE  Inv'
<1>1. /\ pc = "full" /\ pc' = "full" /\ tile < GetTileIndex(end) /\ tile' = tile + 1
      /\ UNCHANGED <<byUser, start, end, fault, logVars>>
  BY DEF ReadFullTile
<1>2. PICK b \in ReadEntryBundle(tile, 0) : entries' = entries \o b
  BY DEF ReadFullTile
<1>3. /\ Contiguous /\ GetTileIndex(start) < tile /\ start + Len(entries) + 1 = TileStart(tile)
  BY <1>1, StartTile DEF Inv, FullInv
<1>4. tile \in Nat /\ start \in Int /\ Len(entries) \in Nat
  BY <1>1, <1>3, StartTile, Range DEF Inv
<1>5. b \in Seq(0..(MaxSize - 1)) /\ Run(b, TileStart(tile) - 1) /\ Len(b) = TileWidth
  BY <1>2, <1>4, Bundle DEF Inv
<1>6. /\ TileStart(tile) - 1 = start + Len(entries)
      /\ start + Len(entries) + Len(b) + 1 = TileEnd(tile)
  BY <1>3, <1>4, <1>5, TileBounds
<1>7. Run(b, start + Len(entries)) /\ GetTileIndex(start) <= tile
  BY <1>1, <1>3, <1>4, <1>5, <1>6, StartTile
<1> QED BY <1>1, <1>2, <1>3, <1>4, <1>5, <1>6, <1>7, NextTile

(***************************************************************************)
(* The last bundle ends where the range ends when it is the partial one,   *)
(* and otherwise where its tile ends; what precedes the range is in it     *)
(* only when the range starts in the same tile.                            *)
(***************************************************************************)
LEMMA EndTileRead ==
  ASSUME Inv, ReadEndTile
  PROVE  /\ entries' \in Seq(0..(MaxSize - 1)) /\ Len(entries') \in Nat /\ Contiguous'
         /\ \E b \in ReadEntryBundle(GetTileIndex(end), (end + 1) % TileWidth) :
              start + Len(entries') + 1 = TileStart(GetTileIndex(end)) + Len(b)
<1> DEFINE t == GetTileIndex(end)
           p == (end + 1) % TileWidth
           same == GetTileIndex(start) = GetTileIndex(end)
<1>1. /\ pc = "full" /\ pc' = "done" /\ tile >= t
      /\ UNCHANGED <<byUser, start, end, tile, fault, logVars>> /\ Contiguous
  BY DEF ReadEndTile, Inv, FullInv
<1>2. PICK b \in ReadEntryBundle(t, p) :
        entries' = entries \o (IF same THEN SubSeq(b, startUnread + 1, Len(b)) ELSE b)
  BY DEF ReadEndTile
<1>3. /\ start \in Int /\ end \in Int /\ end >= -1 /\ Len(entries) \in Nat /\ start < end
  BY <1>1, StartTile, Range DEF Inv
<1>4. /\ t \in Nat /\ p \in 0..(TileWidth - 1) /\ TileStart(t) \in Int
      /\ TileEnd(t) = TileStart(t) + TileWidth /\ end < TileEnd(t)
      /\ IF p = 0 THEN TileEnd(t) = end + 1 ELSE end + 1 = TileStart(t) + p
  BY <1>1, <1>3, StartTile, TileOfIndex, TileBounds
<1> HIDE DEF t, p
<1>5. /\ b \in Seq(0..(MaxSize - 1)) /\ Run(b, TileStart(t) - 1) /\ Len(b) \in Nat
      /\ Len(b) = TileWidth \/ (p > 0 /\ Len(b) = p)
      /\ p > 0 /\ PartialExists(t, p) => Len(b) = p
  BY <1>2, <1>4, Bundle DEF Inv
<1>6. PICK c \in Seq(0..(MaxSize - 1)) :
        /\ entries' = entries \o c /\ Run(c, start + Len(entries))
        /\ start + Len(entries) + Len(c) + 1 = TileStart(t) + Len(b)
  <2>1. CASE same
    <3>1. entries = <<>> /\ Len(entries) = 0
      <4>1. GetTileIndex(start) < tile /\ tile <= t => FALSE
        BY <1>1, <1>4, <2>1, StartTile, Range DEF Inv, t
      <4> QED BY <1>1, <4>1 DEF Inv, FullInv, t
    <3>2. startUnread \in 0..(TileWidth - 1) /\ start + 1 = TileStart(t) + startUnread
      BY <1>1, <2>1, StartTile DEF t
    <3>3. startUnread <= Len(b)
      BY <1>3, <1>4, <1>5, <3>2
    <3> DEFINE c == SubSeq(b, startUnread + 1, Len(b))
    <3>4. /\ c \in Seq(0..(MaxSize - 1)) /\ Len(c) = Len(b) - startUnread
          /\ Run(c, (TileStart(t) - 1) + startUnread)
      <4>1. TileStart(t) - 1 \in Int /\ 0..(MaxSize - 1) \in SUBSET Int
        BY <1>4
      <4>2. startUnread \in Nat
        BY <3>2
      <4> QED BY <1>5, <3>3, <4>1, <4>2, RunRest
    <3>5. entries' = entries \o c
      BY <1>2, <2>1
    <3> HIDE DEF c
    <3>6. (TileStart(t) - 1) + startUnread = start + Len(entries)
      BY <1>3, <1>4, <3>1, <3>2
    <3>7. start + Len(entries) + Len(c) + 1 = TileStart(t) + Len(b)
      <4>1. Len(c) = Len(b) - startUnread /\ startUnread \in Int /\ Len(b) \in Int
        BY <1>5, <3>2, <3>4
      <4>2. start \in Int /\ TileStart(t) \in Int /\ start + 1 = TileStart(t) + startUnread
        BY <1>3, <1>4, <3>2
      <4>3. start + Len(c) + 1 = TileStart(t) + Len(b)
        BY <4>1, <4>2
      <4> QED BY <3>1, <4>1, <4>2, <4>3
    <3> QED BY <3>4, <3>5, <3>6, <3>7
  <2>2. CASE ~same
    <3>1. start + Len(entries) + 1 = TileStart(t)
      BY <1>1, <1>4, <2>2, Range DEF Inv, FullInv, t
    <3>2. TileStart(t) - 1 = start + Len(entries) /\ start + Len(entries) + Len(b) + 1 = TileStart(t) + Len(b)
      BY <1>3, <1>4, <1>5, <3>1
    <3> QED BY <1>2, <1>5, <2>2, <3>2
  <2> QED BY <2>1, <2>2
<1>7. /\ entries' \in Seq(0..(MaxSize - 1)) /\ Len(entries') = Len(entries) + Len(c)
      /\ Contiguous'
  BY <1>1, <1>6, Take DEF Inv
<1>8. Len(c) \in Nat /\ start + Len(entries') + 1 = TileStart(t) + Len(b)
  BY <1>3, <1>6, <1>7
<1>9. Len(entries') \in Nat
  BY <1>3, <1>7, <1>8
<1> QED BY <1>2, <1>7, <1>8, <1>9 DEF t, p

\* The result ends at end, or at the end of its tile, and the log has what is in it.
LEMMA EndTileReach ==
  ASSUME Inv, ReadEndTile
  PROVE  LET t == GetTileIndex(end)
         IN  /\ \/ Len(entries') = end - start /\ end < treeSize
                \/ /\ Len(entries') > end - start /\ start + Len(entries') + 1 = TileEnd(t)
                   /\ (end + 1) % TileWidth > 0 /\ TileEnd(t) <= treeSize
             /\ ~byUser /\ t \notin pruned => Len(entries') = end - start
<1> DEFINE t == GetTileIndex(end)
           p == (end + 1) % TileWidth
           n == Len(entries')
<1>1. pc = "full"
  BY DEF ReadEndTile
<1>2. /\ start \in Int /\ end \in Int /\ start < end /\ n \in Nat
      /\ t \in Nat /\ p \in 0..(TileWidth - 1) /\ TileStart(t) \in Int
      /\ TileEnd(t) = TileStart(t) + TileWidth /\ end < TileEnd(t)
      /\ IF p = 0 THEN TileEnd(t) = end + 1 ELSE end + 1 = TileStart(t) + p
  BY <1>1, StartTile, Range, TileOfIndex, TileBounds, EndTileRead DEF Inv
<1>3. PICK b \in ReadEntryBundle(t, p) : start + n + 1 = TileStart(t) + Len(b)
  BY EndTileRead
<1> HIDE DEF t, p, n
<1>4. IF p > 0 /\ PartialExists(t, p) THEN Len(b) = p ELSE Len(b) = TileWidth /\ HasFullBundle(t)
  BY <1>2, <1>3, Bundle DEF Inv
<1>5. p > 0 => t * TileWidth + p = end + 1
  BY <1>2 DEF TileStart
<1>6. treeSize \in Nat /\ \A m \in published : m <= treeSize /\ m \in Int
  BY DEF Inv, TypeOK, LogInv
<1>7. CASE p > 0 /\ PartialExists(t, p)
  <2>1. end < treeSize
    BY <1>2, <1>5, <1>6, <1>7 DEF PartialExists
  <2>2. Len(b) = p /\ Len(b) \in Int
    BY <1>2, <1>4, <1>7
  <2>3. start + n + 1 = end + 1
    BY <1>2, <1>3, <1>7, <2>2
  <2>4. n = end - start
    BY <1>2, <2>3
  <2> QED BY <2>1, <2>4 DEF t, n
<1>8. CASE ~(p > 0 /\ PartialExists(t, p))
  <2>1. TileEnd(t) <= treeSize /\ Len(b) = TileWidth
    BY <1>4, <1>8 DEF HasFullBundle
  <2>2. p > 0 => byUser \/ t \in pruned
    BY <1>1, <1>5, <1>8 DEF Inv, RequestInv, Requested, PartialExists
  <2>3. start + n + 1 = TileEnd(t)
    BY <1>2, <1>3, <2>1
  <2>4. CASE p = 0
    <3>1. n = end - start /\ end < treeSize
      BY <1>2, <1>6, <2>1, <2>3, <2>4
    <3> QED BY <3>1 DEF t, n
  <2>5. CASE p > 0
    <3>1. end + 1 < TileEnd(t)
      BY <1>2, <2>5
    <3>2. n > end - start
      BY <1>2, <2>3, <3>1
    <3> QED BY <2>1, <2>2, <2>3, <2>5, <3>2 DEF t, n, p
  <2> QED BY <1>2, <2>4, <2>5
<1> QED BY <1>7, <1>8

LEMMA ReadEndTileStep ==
  ASSUME Inv, ReadEndTile
  PROVE  Inv'
<1>1. pc = "full" /\ pc' = "done" /\ UNCHANGED <<byUser, start, end, tile, fault, logVars>>
  BY DEF ReadEndTile
<1>2. TypeOK' /\ LogInv' /\ RequestInv'
  <2>1. tile' \in -1..MaxSize
    BY <1>1 DEF Inv, TypeOK
  <2> QED BY <1>1, <2>1, EndTileRead, WithinCall DEF Inv, TypeOK
<1>3. DoneInv'
  <2>1. GetTileIndex(end)' = GetTileIndex(end) /\ TileEnd(GetTileIndex(end))' = TileEnd(GetTileIndex(end))
    BY <1>1 DEF GetTileIndex, TileEnd
  <2>2. UNCHANGED <<byUser, start, end, pruned>>
    BY <1>1 DEF logVars
  <2> QED BY <2>1, <2>2, EndTileRead, EndTileReach DEF DoneInv
<1>4. StartInv' /\ FullInv' /\ FaultInv' /\ NoBundleMissing'
  BY <1>1 DEF Inv, StartInv, FullInv, FaultInv, NoBundleMissing
<1> QED BY <1>2, <1>3, <1>4 DEF Inv

\* Between two checkpoints, every bundle before the last one is full, and the last one is there.
LEMMA CheckpointBundles ==
  ASSUME Inv, BundleMissing
  PROVE  byUser
<1> SUFFICES ASSUME ~byUser PROVE FALSE
  OBVIOUS
<1> DEFINE t == GetTileIndex(end)
           p == (end + 1) % TileWidth
<1>1. pc \in {"start", "full"}
  BY DEF BundleMissing
<1>2. end + 1 \in published /\ end + 1 <= treeSize /\ treeSize \in Nat
  BY <1>1 DEF Inv, RequestInv, Requested, LogInv, TypeOK
<1>3. /\ end \in Int /\ t \in Nat /\ p \in 0..(TileWidth - 1) /\ TileStart(t) \in Int
      /\ TileStart(t) <= end
      /\ IF p = 0 THEN TileEnd(t) = end + 1 ELSE end + 1 = TileStart(t) + p
  BY <1>1, StartTile, Range, TileOfIndex, TileBounds DEF Inv
<1>4. ASSUME NEW x \in Nat, x < t PROVE ReadEntryBundle(x, 0) # {}
  <2>1. TileEnd(x) <= TileStart(t) /\ TileEnd(x) \in Int
    BY <1>3, <1>4, TilesInOrder, TileBounds
  <2>2. HasFullBundle(x)
    BY <1>2, <1>3, <2>1 DEF HasFullBundle
  <2> QED BY <2>2 DEF ReadEntryBundle
<1>5. ReadEntryBundle(t, p) # {}
  <2>1. CASE p = 0
    <3>1. HasFullBundle(t)
      BY <1>2, <1>3, <2>1 DEF HasFullBundle
    <3> QED BY <2>1, <3>1 DEF ReadEntryBundle
  <2>2. CASE p > 0
    <3>1. PartialExists(t, p) \/ HasFullBundle(t)
      BY <1>2, <1>3, <2>2 DEF PartialExists, TileStart, Inv, LogInv
    <3> QED BY <2>2, <3>1 DEF ReadEntryBundle
  <2> QED BY <1>3, <2>1, <2>2
<1>6. CASE pc = "start" /\ NeedsStartTile /\ ReadEntryBundle(tile, 0) = {}
  <2>1. tile = GetTileIndex(start) /\ tile < t /\ tile \in Nat
    BY <1>6, StartTile DEF Inv, StartInv, NeedsStartTile
  <2> QED BY <1>4, <1>6, <2>1
<1>7. CASE pc = "full" /\ tile < t /\ ReadEntryBundle(tile, 0) = {}
  <2>1. GetTileIndex(start) < tile /\ GetTileIndex(start) \in Int /\ GetTileIndex(start) >= -1
    BY <1>3, <1>7, StartTile DEF Inv, FullInv
  <2>2. tile \in Nat
    BY <1>1, <2>1, Range DEF Inv
  <2> QED BY <1>4, <1>7, <2>2
<1> QED BY <1>5, <1>6, <1>7 DEF BundleMissing

\* A read between two checkpoints fails by a fault only.
LEMMA ReadFailsStep ==
  ASSUME Inv, ReadFails
  PROVE  Inv'
<1>1. /\ pc \in {"start", "full"} /\ pc' = "error"
      /\ UNCHANGED <<byUser, start, end, tile, entries, logVars>>
      /\ \/ BundleMissing /\ UNCHANGED fault
         \/ fault' = TRUE
  BY DEF ReadFails, BundleMissing, Asking
<1>2. TypeOK' /\ LogInv' /\ RequestInv'
  <2>1. tile' \in -1..MaxSize /\ entries' \in Seq(0..(MaxSize - 1)) /\ fault' \in BOOLEAN
    BY <1>1 DEF Inv, TypeOK
  <2> QED BY <1>1, <2>1, WithinCall
<1>3. NoBundleMissing'
  BY <1>1, CheckpointBundles DEF NoBundleMissing
<1>4. StartInv' /\ FullInv' /\ DoneInv' /\ FaultInv'
  BY <1>1 DEF StartInv, FullInv, DoneInv, FaultInv
<1> QED BY <1>2, <1>3, <1>4 DEF Inv

-------------------------------------------------------------------------------
(* Every step *)

LEMMA InitInv ==
  Init => Inv
<1> SUFFICES ASSUME Init PROVE Inv
  OBVIOUS
<1>1. PICK n \in 0..MaxSize : published = {n}
  BY DEF Init
<1>2. treeSize = n
  BY <1>1 DEF treeSize
<1>3. TypeOK
  <2>1. -1 \in -1..MaxSize /\ <<>> \in Seq(0..(MaxSize - 1))
    OBVIOUS
  <2> QED BY <1>1, <2>1 DEF Init, TypeOK
<1>4. LogInv
  BY <1>1, <1>2 DEF Init, LogInv
<1>5. RequestInv /\ StartInv /\ FullInv /\ DoneInv /\ FaultInv /\ NoBundleMissing
  BY DEF Init, RequestInv, StartInv, FullInv, DoneInv, FaultInv, NoBundleMissing
<1> QED BY <1>3, <1>4, <1>5 DEF Inv

LEMMA NextInv ==
  Inv /\ [Next]_vars => Inv'
<1> SUFFICES ASSUME Inv, [Next]_vars PROVE Inv'
  OBVIOUS
<1>1. CASE Grow
  BY <1>1, GrowStep
<1>2. CASE Prune
  BY <1>2, PruneStep
<1>3. ASSUME NEW s \in -1..(MaxSize - 1), NEW e \in -1..(MaxSize - 1), NEW user \in BOOLEAN, Call(s, e, user)
      PROVE  Inv'
  BY <1>3, CallStep
<1>4. CASE SkipStartTile
  BY <1>4, SkipStartTileStep
<1>5. CASE ReadStartTile
  BY <1>5, ReadStartTileStep
<1>6. CASE ReadFullTile
  BY <1>6, ReadFullTileStep
<1>7. CASE ReadEndTile
  BY <1>7, ReadEndTileStep
<1>8. CASE ReadFails
  BY <1>8, ReadFailsStep
<1>9. CASE Return
  BY <1>9, ReturnStep
<1>10. CASE UNCHANGED vars
  <2>1. UNCHANGED <<published, pruned, pc, byUser, start, end, tile, entries, fault, treeSize>>
    BY <1>10 DEF vars, logVars, callVars, treeSize
  <2>2. TypeOK' /\ LogInv' /\ RequestInv'
    BY <2>1 DEF Inv, TypeOK, LogInv, HasFullBundle, RequestInv, Requested
  <2>3. StartInv' /\ FullInv' /\ DoneInv' /\ FaultInv' /\ NoBundleMissing'
    BY <2>1 DEF Inv, StartInv, FullInv, DoneInv, FaultInv, NoBundleMissing, Contiguous, Run
  <2> QED BY <2>2, <2>3 DEF Inv
<1> QED BY <1>1, <1>2, <1>3, <1>4, <1>5, <1>6, <1>7, <1>8, <1>9, <1>10 DEF Next

(***************************************************************************)
(* The inductive invariant holds in every reachable state, for all widths  *)
(* of the tiles and sizes of the log, pruned or not.                       *)
(***************************************************************************)
THEOREM Invariance ==
  Spec => []Inv
BY InitInv, NextInv, PTL DEF Spec

(***************************************************************************)
(* Every variable of the reader has its type: in particular no index that  *)
(* GetEntriesByIndexRange returns is one the log does not have.            *)
(***************************************************************************)
THEOREM TypeCorrect ==
  Spec => []TypeOK
<1>1. Inv => TypeOK
  BY DEF Inv
<1> QED BY <1>1, Invariance, PTL

(***************************************************************************)
(* For a range between two checkpoints GetEntriesByIndexRange returns      *)
(* exactly its entries, in order, if the last tile keeps its partial       *)
(* bundles.                                                                *)
(***************************************************************************)
THEOREM ExactRange ==
  Spec => []RangeExact
<1>1. Inv => RangeExact
  BY DEF Inv, DoneInv, Contiguous, Run, RangeExact
<1> QED BY <1>1, Invariance, PTL

(***************************************************************************)
(* Every result of GetEntriesByIndexRange starts after start, has no hole  *)
(* or repetition and reaches end; beyond end it goes to the end of end's   *)
(* tile or not at all.                                                     *)
(***************************************************************************)
THEOREM RangeCovered ==
  Spec => []RangeCovers
<1>1. ASSUME Inv PROVE RangeCovers
  <2> SUFFICES ASSUME pc = "done" PROVE RangeCovers
    BY DEF RangeCovers
  <2>1. start \in Int /\ end \in Int /\ Len(entries) \in Nat
    BY <1>1, Range DEF Inv
  <2> QED BY <1>1, <2>1 DEF Inv, DoneInv, Contiguous, Run, RangeCovers
<1> QED BY <1>1, Invariance, PTL

(***************************************************************************)
(* Between two checkpoints in order GetEntriesByIndexRange finds every     *)
(* bundle it asks for, or the full one in its place, whatever the log has  *)
(* published and discarded since; only a fault can make it fail.           *)
(***************************************************************************)
THEOREM BundlesFound ==
  Spec => []NoBundleMissing
<1>1. Inv => NoBundleMissing
  BY DEF Inv
<1> QED BY <1>1, Invariance, PTL

-------------------------------------------------------------------------------
(* TileReader implements RangeRead, step by step *)

state == CASE pc \in {"start", "full"} -> "reading"
           [] pc = "done" -> "returned"
           [] pc = "error" /\ ~fault -> "failed"
           [] pc = "error" /\ fault -> "broken"
           [] OTHER -> "idle"
result == IF pc = "done" THEN entries ELSE <<>>

\* The arithmetic of the two modules is the same.
LEMMA SameTiles ==
  /\ \A e, n : Read!ReadEnds(e, n) = ReadEnds(e, n)
  /\ Read!TileEnd(Read!GetTileIndex(end)) = TileEnd(GetTileIndex(end))
BY DEF Read!ReadEnds, Read!TileEnd, Read!GetTileIndex, ReadEnds, TileEnd, GetTileIndex

LEMMA ReadInit ==
  Init => Read!Init
<1> SUFFICES ASSUME Init PROVE Read!Init
  OBVIOUS
<1>1. PICK n \in 0..MaxSize : published = {n}
  BY DEF Init
<1>2. treeSize = n
  BY <1>1 DEF treeSize
<1> QED BY <1>1, <1>2 DEF Init, Read!Init

\* The size of the log is that of its newest checkpoint.
LEMMA ReadGrow ==
  ASSUME Inv, Grow
  PROVE  Read!Grow
<1>1. PICK n \in treeSize + 1 .. MaxSize : published' = published \cup {n}
  BY DEF Grow
<1>2. treeSize \in Nat /\ \A m \in published : m <= treeSize /\ m \in Int
  BY DEF Inv, TypeOK, LogInv
<1>3. n \in Int /\ n \in published' /\ \A m \in published' : m <= n
  BY <1>1, <1>2
<1>4. treeSize' \in published' /\ \A m \in published' : m <= treeSize'
  BY <1>3 DEF treeSize
<1>5. treeSize' = n
  <2>1. treeSize' \in Int /\ treeSize' <= n /\ n <= treeSize'
    BY <1>1, <1>2, <1>3, <1>4
  <2> QED BY <1>3, <2>1
<1> QED BY <1>1, <1>5 DEF Grow, callVars, Read!Grow, Read!callVars

LEMMA ReadAsk ==
  ASSUME Inv, NEW s \in -1..(MaxSize - 1), NEW e \in -1..(MaxSize - 1), NEW user \in BOOLEAN,
         Call(s, e, user)
  PROVE  Read!Ask(s, e, user)
<1>1. /\ pc = "idle" /\ Requested(s, e, user) /\ byUser' = user /\ start' = s /\ end' = e
      /\ entries' = <<>> /\ UNCHANGED <<published, treeSize>>
      /\ pc' = CASE s > e -> "error" [] s = e -> "done" [] OTHER -> "start"
      /\ ~fault /\ ~fault'
  BY DEF Call, logVars, treeSize, Inv, FaultInv
<1>2. user \/ (s < treeSize /\ e < treeSize)
  <2>1. treeSize \in Nat /\ \A m \in published : m <= treeSize
    BY DEF Inv, TypeOK, LogInv
  <2> QED BY <1>1, <2>1 DEF Requested
<1>3. result = <<>> /\ result' = <<>>
  BY <1>1 DEF result
<1>4. state = "idle" /\ state' = CASE s > e -> "failed" [] s = e -> "returned" [] OTHER -> "reading"
  <2>1. CASE s > e
    BY <1>1, <2>1 DEF state
  <2>2. CASE s = e
    BY <1>1, <2>2 DEF state
  <2>3. CASE ~(s > e) /\ s # e
    BY <1>1, <2>3 DEF state
  <2> QED BY <2>1, <2>2, <2>3
<1> QED BY <1>1, <1>2, <1>3, <1>4 DEF Read!Ask, state, result

(***************************************************************************)
(* The last bundle decides where the result ends, and it is read from the  *)
(* log as it is now.                                                       *)
(***************************************************************************)
LEMMA ReadAnswer ==
  ASSUME Inv, ReadEndTile
  PROVE  Read!Answer
<1> DEFINE t == GetTileIndex(end)
           last == start + Len(entries')
<1>1. pc = "full" /\ pc' = "done" /\ UNCHANGED <<byUser, start, end, treeSize>>
  BY DEF ReadEndTile, logVars, treeSize
<1>2. start \in Int /\ end \in Int /\ Len(entries') \in Nat /\ t \in Nat /\ TileEnd(t) \in Int
  BY <1>1, StartTile, Range, TileBounds, EndTileRead DEF Inv
<1>3. last \in Int /\ Len(entries') = last - start
  BY <1>2
<1>4. /\ \/ last = end /\ end < treeSize
         \/ last = TileEnd(t) - 1 /\ (end + 1) % TileWidth > 0 /\ TileEnd(t) <= treeSize
      /\ ~byUser /\ t \notin pruned => last = end
  <2> HIDE DEF t
  <2>1. Len(entries') = end - start => last = end
    BY <1>2
  <2>2. start + Len(entries') + 1 = TileEnd(t) => last = TileEnd(t) - 1
    BY <1>2
  <2> QED BY <2>1, <2>2, EndTileReach DEF t
<1> HIDE DEF last
<1>5. last \in ReadEnds(end, treeSize)
  BY <1>4 DEF ReadEnds
<1>6. last = end \/ byUser \/ PrunesBundles
  BY <1>4 DEF Inv, LogInv
<1>7. result' = [k \in 1..(last - start) |-> start + k]
  BY <1>1, <1>3, EndTileRead DEF result, Contiguous, Run
<1>8. state = "reading" /\ state' = "returned"
  BY <1>1 DEF state
<1> QED BY <1>1, <1>5, <1>6, <1>7, <1>8, SameTiles DEF Read!Answer, state, result

\* A bundle before the last one is missing only if the log ends before the range.
LEMMA ReadRefuse ==
  ASSUME Inv, ReadFails, BundleMissing, ~fault'
  PROVE  Read!Refuse
<1> DEFINE t == GetTileIndex(end)
           p == (end + 1) % TileWidth
<1>1. /\ pc \in {"start", "full"} /\ pc' = "error"
      /\ UNCHANGED <<byUser, start, end, treeSize>>
  BY DEF ReadFails, BundleMissing, logVars, treeSize
<1>2. /\ start \in Int /\ end \in Int /\ start < end /\ t \in Nat /\ p \in 0..(TileWidth - 1)
      /\ TileStart(t) \in Int /\ TileStart(t) <= end
  BY <1>1, StartTile, Range, TileOfIndex, TileBounds DEF Inv
<1>3. byUser
  BY CheckpointBundles
<1>4. ASSUME NEW x \in Nat, x < t, ReadEntryBundle(x, 0) = {} PROVE end >= treeSize
  <2>1. TileEnd(x) \in Int /\ TileEnd(x) <= TileStart(t)
    BY <1>2, <1>4, TilesInOrder, TileBounds
  <2>2. ~HasFullBundle(x)
    BY <1>4 DEF ReadEntryBundle
  <2>3. treeSize \in Nat
    BY DEF Inv, TypeOK, LogInv
  <2> HIDE DEF t
  <2> QED BY <1>2, <1>4, <2>1, <2>2, <2>3 DEF HasFullBundle
<1>5. ReadEntryBundle(t, p) = {} => TileEnd(t) > treeSize
  <2>1. ReadEntryBundle(t, p) = {} => ~HasFullBundle(t)
    BY <1>2 DEF ReadEntryBundle
  <2>2. treeSize \in Nat /\ TileEnd(t) \in Int
    BY <1>2, TileBounds DEF Inv, TypeOK, LogInv
  <2> HIDE DEF t, p
  <2> QED BY <1>2, <2>1, <2>2 DEF HasFullBundle
<1>6. end >= treeSize \/ TileEnd(t) > treeSize
  <2>1. CASE pc = "start" /\ NeedsStartTile /\ ReadEntryBundle(tile, 0) = {}
    <3>1. tile < t /\ tile \in Nat
      BY <2>1, StartTile DEF Inv, StartInv, NeedsStartTile
    <3> QED BY <1>4, <2>1, <3>1
  <2>2. CASE pc = "full" /\ tile < t /\ ReadEntryBundle(tile, 0) = {}
    <3>1. GetTileIndex(start) < tile /\ GetTileIndex(start) \in Int /\ GetTileIndex(start) >= -1
      BY <1>2, <2>2, StartTile DEF Inv, FullInv
    <3>2. tile \in Nat
      BY <1>1, <3>1, Range DEF Inv
    <3> QED BY <1>4, <2>2, <3>2
  <2> QED BY <1>5, <2>1, <2>2 DEF BundleMissing
<1>7. state = "reading" /\ state' = "failed" /\ result = <<>> /\ result' = <<>>
  BY <1>1 DEF state, result
<1> QED BY <1>1, <1>3, <1>6, <1>7, SameTiles DEF Read!Refuse, state, result

\* A fault may end the call at any of its reads.
LEMMA ReadBreak ==
  ASSUME ReadFails, fault'
  PROVE  Read!Break
<1>1. /\ pc \in {"start", "full"} /\ pc' = "error"
      /\ UNCHANGED <<byUser, start, end, treeSize>>
  BY DEF ReadFails, BundleMissing, Asking, logVars, treeSize
<1>2. state = "reading" /\ state' = "broken" /\ result = <<>> /\ result' = <<>>
  BY <1>1 DEF state, result
<1> QED BY <1>1, <1>2 DEF Read!Break, state, result

\* Nothing the caller sees changes.
LEMMA ReadStutter ==
  ASSUME \/ Prune \/ SkipStartTile \/ ReadStartTile \/ ReadFullTile \/ UNCHANGED vars
  PROVE  UNCHANGED Read!vars
<1>1. UNCHANGED <<treeSize, byUser, start, end>>
  BY DEF Prune, SkipStartTile, ReadStartTile, ReadFullTile, vars, logVars, callVars, treeSize
<1>2. UNCHANGED <<state, result>>
  BY DEF Prune, SkipStartTile, ReadStartTile, ReadFullTile, vars, logVars, callVars, state, result
<1> QED BY <1>1, <1>2 DEF Read!vars, Read!callVars, state, result

LEMMA ReadStep ==
  ASSUME Inv, [Next]_vars
  PROVE  [Read!Next]_(Read!vars)
<1>1. CASE Grow
  BY <1>1, ReadGrow DEF Read!Next
<1>2. ASSUME NEW s \in -1..(MaxSize - 1), NEW e \in -1..(MaxSize - 1), NEW user \in BOOLEAN, Call(s, e, user)
      PROVE  Read!Next
  BY <1>2, ReadAsk DEF Read!Next
<1>3. CASE ReadEndTile
  BY <1>3, ReadAnswer DEF Read!Next
<1>4. CASE ReadFails
  <2>1. BundleMissing \/ fault'
    BY <1>4 DEF ReadFails
  <2> QED BY <1>4, <2>1, ReadRefuse, ReadBreak DEF Read!Next
<1>5. CASE Return
  <2>1. Read!Return
    BY <1>5 DEF Return, Read!Return, logVars, treeSize, Inv, TypeOK
  <2> QED BY <2>1 DEF Read!Next
<1>6. CASE \/ Prune \/ SkipStartTile \/ ReadStartTile \/ ReadFullTile \/ UNCHANGED vars
  BY <1>6, ReadStutter
<1> QED BY <1>1, <1>2, <1>3, <1>4, <1>5, <1>6 DEF Next

(***************************************************************************)
(* Whatever the log does between the bundles GetEntriesByIndexRange reads, *)
(* a caller cannot tell the call from one read of the range in one step,   *)
(* which a fault may break, and which otherwise refuses only a range of    *)
(* the user's that the log does not have at that step.                     *)
(***************************************************************************)
THEOREM Refinement == Spec => ImplementsRangeRead
<1>1. Inv /\ [Next]_vars => [Read!Next]_(Read!vars)
  BY ReadStep
<1> QED BY <1>1, ReadInit, Invariance, PTL DEF Spec, ImplementsRangeRead, Read!Spec
================================================================================
