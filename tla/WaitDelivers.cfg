CONSTANTS
  Jobs <- OneAllgather
  Program <- CompiledProgram
  MaxQueued = 5
  Sizes <- FirstSizes
  Skip = 1
  Iterations = 1
SPECIFICATION Spec
CHECK_DEADLOCK FALSE
INVARIANT CallsFillTheirBuffer
