SPECIFICATION Spec
CONSTANTS
  t1 = t1
  t2 = t2
  s1 = s1
  s2 = s2
  c1 = c1
  c2 = c2
  Large = Large
  Free = Free
  NoSize = NoSize
  Threads <- MCThreads
  Spans <- MCSpans
  Classes <- MCClasses
  Unit <- MCUnit
  SpanUnits = 4
  Batch = 2
  MaxCached = 1
  WrongKind = FALSE
SYMMETRY MCSymmetry
INVARIANT OnePlace
PROPERTY JudgedRightly
