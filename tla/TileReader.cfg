SPECIFICATION Spec
CONSTANTS
  TileWidth = 3
  MaxSize = 8
  PrunesBundles = TRUE
PROPERTIES ImplementsRangeRead
INVARIANTS RangeExact RangeCovers NoBundleMissing
