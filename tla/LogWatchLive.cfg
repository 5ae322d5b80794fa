SPECIFICATION FairSpec
CONSTANTS
  None = None
  Shard <- TwoShards
  SubId <- OneSub
  Value <- OneValue
  Hits <- MCHits
  Unparsed <- NoEntry
  Undecodable <- FirstOfOld
  InitialConfig <- OldShard
  Forkable = {}
  MaxSize = 1
  MaxMatches = 1
  TileWidth = 2
  PrunesBundles = FALSE
  StaleReads = FALSE
  MaxFaults = 1
INVARIANTS NoMissedMatch NoDuplicateMatch
PROPERTIES EventuallyCaughtUp
