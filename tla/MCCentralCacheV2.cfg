SPECIFICATION Spec
CONSTANTS
  t1 = t1
  t2 = t2
  NoThread = NoThread
  Threads = {t1, t2}
  NumClasses = 2
  NumPages = 2
  PageBytes = 2
  BlockSize <- MCTwoSizes
  SpanPages <- MCTwoSpans
  MaxDelayCount = 2
  MaxTrackers = 2
  MaxFreeCount = 3
SYMMETRY Symmetry
INVARIANT
  BlocksConserved
CHECK_DEADLOCK FALSE
