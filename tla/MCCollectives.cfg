CONSTANTS
  Jobs <- BlockingJobs
  Program <- CompiledProgram
  MaxQueued = 4
  Sizes <- OneSize
  Iterations = 2
SPECIFICATION FairSpec
CHECK_DEADLOCK FALSE
INVARIANTS
  TypeOK
  IInv
  BarriersSeparate
  OneMessageOfEachPeer
  SendBuffersNotReusedEarly
  QueuesStayShort
  NothingLeftBehind
PROPERTY
  FinishesIffFed
