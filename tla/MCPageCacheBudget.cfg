SPECIFICATION Spec
CONSTANTS
  NumPages = 6
  MaxCachedPages = 3
  Granularity = 1
INVARIANT
  CacheWithinBudget
CHECK_DEADLOCK FALSE
