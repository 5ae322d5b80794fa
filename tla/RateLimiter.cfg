SPECIFICATION Spec
CONSTANTS
  Key = {a, b, c}
  Limit = 2
  Window = 5
  MaxEntries = 2
  MaxTime = 7
SYMMETRY KeySymmetry
INVARIANTS TypeOK RateRespected RetryHonest
PROPERTIES ImplementsTokenBuckets
