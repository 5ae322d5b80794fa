SPECIFICATION Spec
CONSTANTS
  None = None
  Shard <- TwoShards
  SubId <- OneSub
  Value <- OneValue
  Hits <- MCHits
  Unparsed <- NoEntry
  Undecodable <- NoEntry
  InitialConfig <- TwoShards
  Forkable = {}
  MaxSize = 2
  MaxMatches = 1
  TileWidth = 2
  PrunesBundles = FALSE
  StaleReads = FALSE
  MaxFaults = 1
INVARIANTS FirstDeployForwardOnly
