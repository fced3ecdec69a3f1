CONSTANTS
  LargeMessageSize = 4
  MessageSizeIncr = 2
  UsizeValues = 16
  MinSizes = {0, 3}
  MaxSizes = {4, 13}
  Benchmarks <- AllBenchmarks
  Iterations = 2
  WindowSize = 3
SPECIFICATION FairSpec
CHECK_DEADLOCK FALSE
INVARIANTS
  TypeOK
  IInv
  OriginBuffersOutliveAccesses
  AccessesStayInside
  AccessesDoNotOverlap
PROPERTIES
  SizesGrow
  LeavesUnlessAbandoned
