CONSTANTS
  Jobs <- LargeMessages
  Program <- CompiledProgram
  MaxQueued = 6
  SizesRun = 2
  Iterations = 1
  WindowSize = 1
SPECIFICATION Spec
CHECK_DEADLOCK FALSE
INVARIANT SendsAreWaitedFor
