SPECIFICATION Spec
CONSTANTS
  t1 = t1
  t2 = t2
  Threads = {t1, t2}
  NumWords = 14
  BlockSize = 7
  SlotSize = 2
  Junk = {0, 4}
  MaxTag = 5
SYMMETRY Symmetry
INVARIANTS
  FreeListSound
  SlotsInBlocks
PROPERTIES
  SlotsKept
  ImplementsRangeAllocator
CHECK_DEADLOCK FALSE
