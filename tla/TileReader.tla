------------------------------ MODULE TileReader ------------------------------
(***************************************************************************)
(* Reading a range of log entries tile by tile (GetEntriesByIndexRange),   *)
(* while the log keeps growing and, where the log does so, discards the    *)
(* partial bundles of a tile once the full bundle exists.                  *)
(***************************************************************************)
EXTENDS Tiles

CONSTANTS
  MaxSize,            \* bound on the size of the log
  PrunesBundles       \* does the log discard obsolete partial bundles?

ASSUME TileReaderAssumption == MaxSize \in Nat /\ PrunesBundles \in BOOLEAN

VARIABLES
  published,          \* the tree sizes the log has published checkpoints for
  pruned,             \* the tiles whose partial bundles were discarded
  pc,                 \* where the call is: idle, start, full, end, done, error
  byUser,             \* does the range come from --start-index and --end-index?
  start, end,         \* arguments of the call: read (start, end]
  tile,               \* loop variable over the full tiles
  entries,            \* the entries read so far, each one its log index
  fault               \* observation: did a request fail, or an entry not decode?

logVars == <<published, pruned>>
callVars == <<pc, byUser, start, end, tile, entries, fault>>
vars == <<logVars, callVars>>

treeSize == CHOOSE n \in published : \A m \in published : m <= n
HasFullBundle(t) == t >= 0 /\ TileEnd(t) <= treeSize

TypeOK ==
  /\ published \in SUBSET (0..MaxSize)
  /\ pruned \in SUBSET (0..MaxSize)
  /\ pc \in {"idle", "start", "full", "end", "done", "error"}
  /\ byUser \in BOOLEAN
  /\ start \in -1..MaxSize
  /\ end \in -1..MaxSize
  /\ tile \in -1..MaxSize
  /\ entries \in Seq(0..(MaxSize - 1))
  /\ fault \in BOOLEAN

Init ==
  /\ \E n \in 0..MaxSize : published = {n}
  /\ pruned = {}
  /\ pc = "idle" /\ byUser = FALSE /\ start = -1 /\ end = -1 /\ tile = -1 /\ entries = <<>>
  /\ fault = FALSE

-------------------------------------------------------------------------------
(* The log, outside this repository. *)

\* A batch of entries is integrated and a checkpoint of the new size published.
Grow ==
  /\ \E n \in treeSize + 1 .. MaxSize : published' = published \cup {n}
  /\ UNCHANGED <<pruned, callVars>>

\* Partial bundles of a full tile are garbage collected.
Prune ==
  /\ PrunesBundles
  /\ \E t \in 0..MaxSize : HasFullBundle(t) /\ pruned' = pruned \cup {t}
  /\ UNCHANGED <<published, callVars>>

(***************************************************************************)
(* ReadEntryBundle(t, p) with its fallback (PartialOrFullResource): a      *)
(* partial bundle that is not found is replaced by the full one, if there  *)
(* is one. Bundle is a set of at most one answer, empty when nothing is    *)
(* found.                                                                  *)
(***************************************************************************)
PartialExists(t, p) == t * TileWidth + p \in published /\ t \notin pruned

\* Mutant: no fallback to the full bundle.
ReadEntryBundleWithoutFallback(t, p) ==
  CASE p > 0 /\ PartialExists(t, p) -> {BundleEntries(t, p)}
    [] p = 0 /\ HasFullBundle(t) -> {BundleEntries(t, 0)}
    [] OTHER -> {}

ReadEntryBundle(t, p) ==
  CASE p > 0 /\ PartialExists(t, p) -> {BundleEntries(t, p)}
    [] (p = 0 \/ ~PartialExists(t, p)) /\ HasFullBundle(t) -> {BundleEntries(t, 0)}
    [] OTHER -> {}

-------------------------------------------------------------------------------
(* GetEntriesByIndexRange(start, end) *)

(***************************************************************************)
(* The ranges the monitors ask for: from -1 or the last index of an        *)
(* earlier checkpoint to the last index of a checkpoint that was read, or  *)
(* whatever the user gave on the command line.                             *)
(***************************************************************************)
Requested(s, e, user) ==
  user \/ (s + 1 \in published \cup {0} /\ e + 1 \in published)

\* The checks made before anything is read.
Call(s, e, user) ==
  /\ pc = "idle" /\ Requested(s, e, user)
  /\ byUser' = user /\ start' = s /\ end' = e
  /\ entries' = <<>>
  /\ tile' = GetTileIndex(s)
  /\ pc' = CASE s > e -> "error"
             [] s = e -> "done"
             [] OTHER -> "start"
  /\ UNCHANGED <<fault, logVars>>

\* The unread rest of the tile that holds start, when the range goes past it.
startUnread == (start + 1) % TileWidth
NeedsStartTile == GetTileIndex(start) < GetTileIndex(end) /\ startUnread > 0

SkipStartTile ==
  /\ pc = "start" /\ ~NeedsStartTile
  /\ pc' = "full" /\ tile' = tile + 1
  /\ UNCHANGED <<byUser, start, end, entries, fault, logVars>>

\* Mutant: the whole first tile is taken, with what precedes the range.
ReadWholeStartTile ==
  /\ pc = "start" /\ NeedsStartTile
  /\ \E b \in ReadEntryBundle(tile, 0) : entries' = entries \o b
  /\ pc' = "full" /\ tile' = tile + 1
  /\ UNCHANGED <<byUser, start, end, fault, logVars>>

ReadStartTile ==
  /\ pc = "start" /\ NeedsStartTile
  /\ \E b \in ReadEntryBundle(tile, 0) :
       entries' = entries \o SubSeq(b, startUnread + 1, Len(b))
  /\ pc' = "full" /\ tile' = tile + 1
  /\ UNCHANGED <<byUser, start, end, fault, logVars>>

ReadFullTile ==
  /\ pc = "full" /\ tile < GetTileIndex(end)
  /\ \E b \in ReadEntryBundle(tile, 0) : entries' = entries \o b
  /\ tile' = tile + 1
  /\ UNCHANGED <<pc, byUser, start, end, fault, logVars>>

\* Mutant: the last bundle is cut as if the range always began in it.
ReadEndTileAlwaysCut ==
  /\ pc = "full" /\ tile >= GetTileIndex(end)
  /\ \E b \in ReadEntryBundle(GetTileIndex(end), (end + 1) % TileWidth) :
       entries' = entries \o SubSeq(b, startUnread + 1, Len(b))
  /\ pc' = "done"
  /\ UNCHANGED <<byUser, start, end, tile, fault, logVars>>

\* Mutant: a last bundle that is not found ends the range without an error.
ReadEndTileOrNothing ==
  /\ pc = "full" /\ tile >= GetTileIndex(end)
  /\ entries' \in {entries \o (IF GetTileIndex(start) = GetTileIndex(end)
                               THEN SubSeq(b, startUnread + 1, Len(b))
                               ELSE b) :
                    b \in ReadEntryBundle(GetTileIndex(end), (end + 1) % TileWidth) \cup {<<>>}}
  /\ pc' = "done"
  /\ UNCHANGED <<byUser, start, end, tile, fault, logVars>>

\* Everything the last bundle holds is taken, except what precedes the range.
ReadEndTile ==
  /\ pc = "full" /\ tile >= GetTileIndex(end)
  /\ \E b \in ReadEntryBundle(GetTileIndex(end), (end + 1) % TileWidth) :
       entries' = entries \o (IF GetTileIndex(start) = GetTileIndex(end)
                              THEN SubSeq(b, startUnread + 1, Len(b))
                              ELSE b)
  /\ pc' = "done"
  /\ UNCHANGED <<byUser, start, end, tile, fault, logVars>>

\* The bundle that is read next, in any of the three places, is not there.
BundleMissing ==
  \/ pc = "start" /\ NeedsStartTile /\ ReadEntryBundle(tile, 0) = {}
  \/ pc = "full" /\ tile < GetTileIndex(end) /\ ReadEntryBundle(tile, 0) = {}
  \/ /\ pc = "full" /\ tile >= GetTileIndex(end)
     /\ ReadEntryBundle(GetTileIndex(end), (end + 1) % TileWidth) = {}

Asking == (pc = "start" /\ NeedsStartTile) \/ pc = "full"

(***************************************************************************)
(* A read that does not succeed ends the call with an error and drops what *)
(* was read: the bundle is missing; or it is there, but the request for it *)
(* fails, the context is done, or an entry in it cannot be decoded.        *)
(***************************************************************************)
ReadFails ==
  /\ \/ BundleMissing /\ UNCHANGED fault
     \/ Asking /\ fault' = TRUE
  /\ pc' = "error"
  /\ UNCHANGED <<byUser, start, end, tile, entries, logVars>>

\* The caller takes the result; another call may follow.
Return ==
  /\ pc \in {"done", "error"}
  /\ pc' = "idle" /\ byUser' = FALSE /\ start' = -1 /\ end' = -1 /\ tile' = -1 /\ entries' = <<>>
  /\ fault' = FALSE
  /\ UNCHANGED logVars

Next ==
  \/ Grow \/ Prune
  \/ \E s, e \in -1..(MaxSize - 1), user \in BOOLEAN : Call(s, e, user)
  \/ SkipStartTile \/ ReadStartTile \/ ReadFullTile \/ ReadEndTile \/ ReadFails
  \/ Return

Spec == Init /\ [][Next]_vars

-------------------------------------------------------------------------------
(***************************************************************************)
(* GetEntriesByIndexRange "fetches all entries by log index, from          *)
(* (start, end]": for a range between two checkpoints the result is        *)
(* exactly start + 1 .. end, in order, with nothing skipped at a tile      *)
(* boundary and nothing read twice, while the log grows between two bundle *)
(* reads and as long as it keeps the partial bundle of end's tile.         *)
(***************************************************************************)
RangeExact ==
  pc = "done" /\ ~byUser /\ GetTileIndex(end) \notin pruned =>
    entries = [k \in 1..(end - start) |-> start + k]

(***************************************************************************)
(* What holds for every range, and when the log discards partial bundles:  *)
(* the result starts right after start, has no hole and reaches end; it    *)
(* may overshoot end, but only up to the end of end's own tile.            *)
(***************************************************************************)
RangeCovers ==
  pc = "done" =>
    /\ Len(entries) >= end - start
    /\ entries = [k \in 1..Len(entries) |-> start + k]
    /\ Len(entries) > end - start => start + Len(entries) + 1 = TileEnd(GetTileIndex(end))

(***************************************************************************)
(* Every bundle that a range between two checkpoints asks for is there     *)
(* when it is asked for, a partial one discarded since the checkpoint in   *)
(* the form of the full one: such a call ends with an error only when      *)
(* start > end, or because a request failed or an entry did not decode.    *)
(***************************************************************************)
NoBundleMissing == pc = "error" /\ ~byUser /\ ~fault => start > end

(***************************************************************************)
(* The reads of a call, between which the log moves, look to the caller    *)
(* like one read of the whole range at the moment of the last, which is    *)
(* how MonitorLoop and LogWatch model their searches; and an error without *)
(* a fault shows that a range the user gave is not in the log as it is     *)
(* then.                                                                   *)
(***************************************************************************)
Read == INSTANCE RangeRead WITH
  size <- treeSize,
  state <- CASE pc \in {"start", "full"} -> "reading"
             [] pc = "done" -> "returned"
             [] pc = "error" /\ ~fault -> "failed"
             [] pc = "error" /\ fault -> "broken"
             [] OTHER -> "idle",
  result <- IF pc = "done" THEN entries ELSE <<>>

ImplementsRangeRead == Read!Spec
==============================================================================
