SPECIFICATION RequestSpec
CONSTANTS
  Alignment = 8
  MaxBytes = 262144
  MaxClasses = 64
  SmallLimit = 256
  PageSizes = {4096, 16384, 65536}
  SizeMax <- MCSizeMax
  PageSize = 4096
  Granularity = 65536
  Sizes <- MCSizes
  Alignments <- MCAlignments
  Counts <- MCCounts
  Types <- MCTypes
  SlotBase = 8
  NumPools = 64
  MaxSlotSize = 512
INVARIANTS
  PoliciesFit
  IndexLeast
  BigEnough
  AlignedWithinPage
  SizedFreeMatches
CHECK_DEADLOCK FALSE
