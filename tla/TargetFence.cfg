CONSTANTS
  LargeMessageSize = 4
  MessageSizeIncr = 2
  UsizeValues = 16
  MinSizes = {1}
  MaxSizes = {2}
  Benchmarks <- OnePut
  Iterations = 1
  WindowSize = 1
SPECIFICATION Spec
CHECK_DEADLOCK FALSE
INVARIANT FenceHoldsTarget
