SPECIFICATION FairSpec
CONSTANTS
  RunIDLimit = 3
  CommandCapacity = 2
  MaxBatches = 2
INVARIANTS
  IInv
PROPERTIES
  ImplementsService
  StopCompletes
  StartResolves
CHECK_DEADLOCK FALSE
