SPECIFICATION StepSpec
CONSTANTS
  NumPages = 4
  MaxCachedPages = 3
  Granularity = 1
INVARIANTS
  LookupsSound
  BinsSound
PROPERTIES
  HeldUntouched
  ImplementsPageCache
CHECK_DEADLOCK FALSE
