SPECIFICATION Spec
CONSTANTS
  LastTree = 2
  MaxSize = 4
  Batch = 2
  MaxAttempts = 2
  None = None
  Torn = Torn
INVARIANT AlwaysSearched
