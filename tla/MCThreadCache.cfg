SPECIFICATION Spec
CONSTANTS
  t1 = t1
  t2 = t2
  NoThread = NoThread
  Threads = {t1, t2}
  NumClasses = 2
  NumPages = 4
  Granularity = 1
  PageBytes = 3
  BlockSize <- MCBlockSize
  SpanPages <- MCSpanPages
  BatchNum <- MCBatchNum
  MaxCachedBlocks <- MCMaxCachedBlocks
  LargePages = {1}
SYMMETRY Symmetry
INVARIANTS
  ListsApart
  SizesExact
  NothingStranded
PROPERTIES
  UsesCentralProperly
  ImplementsMalloc
