CONSTANTS
  Jobs <- NonBlockingJobs
  Program <- CompiledProgram
  MaxQueued = 5
  Sizes <- FirstSizes
  Skip = 2
  Iterations = 2
SPECIFICATION FairSpec
CHECK_DEADLOCK FALSE
INVARIANTS
  BarriersSeparate
  FencedCallsDoNotMix
  QueuesStayShort
  NothingLeftBehind
PROPERTY
  FinishesIffFed
