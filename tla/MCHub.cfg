SPECIFICATION FairSpec
CONSTANTS
  c1 = c1
  Nobody = Nobody
  Clients = {c1}
  MaxFrames = 2
  ErrorCapacity = 1
  MaxRejections = 2
INVARIANTS
  IInv
PROPERTIES
  NewestArrives
  EveryoneLeaves
CHECK_DEADLOCK FALSE
