CONSTANTS
  Jobs <- StuckJobs
  Program <- CompiledProgram
  MaxQueued = 6
SPECIFICATION FairSpec
CHECK_DEADLOCK FALSE
PROPERTY EveryRankFinishes
