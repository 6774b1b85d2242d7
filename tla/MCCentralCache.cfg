SPECIFICATION FairSpec
CONSTANTS
  t1 = t1
  t2 = t2
  NoThread = NoThread
  Threads = {t1, t2}
  NumClasses = 2
  NumPages = 3
  Granularity = 1
  PageBytes = 2
  BlockSize <- MCBlockSize
  SpanPages <- MCSpanPages
  BatchNum <- MCBatchNum
  LargePages = {1}
INVARIANTS
  BlocksConserved
  CountsExact
  PartialExact
  LockExact
PROPERTY
  LockReleased
