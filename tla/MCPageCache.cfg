SPECIFICATION Spec
CONSTANTS
  NumPages = 6
  MaxCachedPages = 3
  Granularity = 1
INVARIANTS
  PageMapExact
  FreeListsExact
  OriginsExact
  Coalesced
  CachedExact
  WholeOriginBudget
PROPERTY
  ImplementsRangeAllocator
CHECK_DEADLOCK FALSE
