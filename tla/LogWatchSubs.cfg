SPECIFICATION Spec
CONSTANTS
  None = None
  Shard <- OneShard
  SubId = {s1, s2}
  s1 = s1
  s2 = s2
  Value <- TwoValues
  Hits <- MCHits
  Unparsed <- SecondEntry
  Undecodable <- NoEntry
  InitialConfig <- OneShard
  Forkable <- OneShard
  MaxSize = 3
  MaxMatches = 1
  TileWidth = 2
  PrunesBundles = TRUE
  StaleReads = TRUE
  MaxFaults = 1
SYMMETRY SubSymmetry
INVARIANTS TypeOK NoMissedMatch NoUnrecordedFailure NoOrphanMatch NewestRetained
PROPERTIES ImplementsMatchFeed CheckpointOnlyExtends
