CONSTANTS
  N = 2
  OobRounds = 1
SPECIFICATION FairSpec
CHECK_DEADLOCK FALSE
PROPERTY FallsBackGracefully
