-------------------------------- MODULE Tiles --------------------------------
(***************************************************************************)
(* Tile arithmetic of a tile-based transparency log (pkg/tiles/client.go). *)
(* Entries are served in bundles of TileWidth consecutive indices; the     *)
(* newest bundle of a tree may be partial.                                 *)
(***************************************************************************)
EXTENDS Integers, Sequences

CONSTANT TileWidth      \* layout.TileWidth, 256 in the code

ASSUME TileWidthAssumption == TileWidth \in Nat \ {0}

(***************************************************************************)
(* The tile that holds index i, where i may be -1 (nothing read yet): the  *)
(* last tile of the tree of size i + 1.                                    *)
(***************************************************************************)
GetTileIndex(i) ==
  LET treeSize == i + 1
      fullTilesCount == treeSize \div TileWidth
  IN  IF treeSize % TileWidth = 0 THEN fullTilesCount - 1 ELSE fullTilesCount

\* First index after tile t, which is the size of a tree whose last tile is t, full.
TileEnd(t) == (t + 1) * TileWidth

(***************************************************************************)
(* The entries of the bundle of tile t and width p, where width 0 asks for *)
(* the full bundle: getEntriesFromTile numbers them from the tile's start. *)
(***************************************************************************)
BundleEntries(t, p) ==
  [k \in 1..(IF p = 0 THEN TileWidth ELSE p) |-> t * TileWidth + k - 1]

(***************************************************************************)
(* The indices at which reading up to index end can stop in a log of that  *)
(* size: at end, or at the end of its tile, when the tile's full bundle is *)
(* taken for the partial one.                                              *)
(***************************************************************************)
ReadEnds(end, size) ==
  LET lastTileEnd == TileEnd(GetTileIndex(end))
  IN  (IF end < size THEN {end} ELSE {})
        \cup (IF (end + 1) % TileWidth > 0 /\ lastTileEnd <= size THEN {lastTileEnd - 1} ELSE {})
==============================================================================
