CONSTANTS
  N = 3
  Rounds = 3
SPECIFICATION FairSpec
INVARIANTS
  TypeOK
  IInv
  NobodyLeavesEarly
  NothingLeftOver
PROPERTIES
  EveryCallReturns
  ImplementsAbstract
