SPECIFICATION Spec
CONSTANTS
  main = main
  worker = worker
  Threads <- MCThreads
  Main = main
  Batch = 2
  MaxList = 1
  MaxCachedPages = 1
  MaxAllocs = 2
  MaxStats = 1
  CounterRange = 256
INVARIANTS CentralFlow LiveNeverWraps QuiescentExact
CHECK_DEADLOCK FALSE
