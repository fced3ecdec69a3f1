CONSTANTS
  Jobs <- GatherNames
  Program <- CompiledProgram
  MaxQueued = 5
  Sizes <- OneSize
  Iterations = 1
SPECIFICATION Spec
CHECK_DEADLOCK FALSE
INVARIANT SlotsHoldTheirPeer
