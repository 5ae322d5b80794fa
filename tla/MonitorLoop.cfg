SPECIFICATION Spec
CONSTANTS
  LastShard = 2
  MaxSize = 4
  TileWidth = 2
  None = None
  Torn = Torn
  UserRanges <- SomeRanges
  MaxFaults = 2
INVARIANTS TypeOK NothingSkipped NothingRepeated PositionsAgree
