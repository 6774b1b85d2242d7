SPECIFICATION Spec
CONSTANTS
  t1 = t1
  t2 = t2
  Threads = {t1, t2}
  NumClasses = 3
  NumPages = 2
  PageWords = 2
  BlockSize <- MCBlockSize
  SpanPages <- MCSpanPages
  Threshold <- MCThreshold
  KeepShare = 2
  Junk = {2}
  MaxTrackers = 2
  MaxFreeCount = 3
SYMMETRY Symmetry
INVARIANTS
  ListsSound
  TilesMemory
PROPERTIES
  MapsOnlyForWant
  MallocUntilFault
CHECK_DEADLOCK FALSE
