SPECIFICATION Spec
CONSTANTS
  t1 = t1
  t2 = t2
  NoThread = NoThread
  Threads = {t1}
  NumClasses = 1
  NumPages = 2
  PageBytes = 3
  BlockSize <- MCOneSize
  SpanPages <- MCOneSpan
  MaxDelayCount = 2
  MaxTrackers = 4
  MaxFreeCount = 9
INVARIANT LentBlocksBacked
CHECK_DEADLOCK FALSE
