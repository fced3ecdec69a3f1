CONSTANTS
  N = 3
  OobRounds = 3
SPECIFICATION FairSpec
CHECK_DEADLOCK FALSE
INVARIANTS
  TypeOK
  IInv
  OnlyForcedUccPanics
  OobGathersItsRound
  TeamMeansEveryoneJoined
  OobCallsStayClose
PROPERTY
  StartsUnlessOneFails
