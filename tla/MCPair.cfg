CONSTANTS
  Jobs <- PairAndFanJobs
  Program <- CompiledProgram
  MaxQueued = 6
  SizesRun = 2
  Iterations = 2
  WindowSize = 2
SPECIFICATION FairSpec
CHECK_DEADLOCK FALSE
INVARIANTS
  BarriersSeparate
  OneMessageOfEachPeer
  PairBuffersNotReusedEarly
  QueuesStayShort
  NothingLeftBehind
  FansFinishOnOnePerNode
PROPERTY
  FinishesIffFed
