SPECIFICATION Spec
CONSTANTS
  LastShard = 2
  MaxSize = 4
  TileWidth = 2
  None = None
  Torn = Torn
  UserRanges = {}
  MaxFaults = 0
INVARIANTS RolloverSearched
