SPECIFICATION BackendSpec
CONSTANTS
  Cores = 2
  QueueCapacity = 2
  Costs = {0, 2}
  EndTime = 5
  MaxOffered = 5
  HealthInterval = 2
  ProbeTimeout = 1
  MaxRounds = 2
INVARIANTS
  IInv
  ChangesAreNoticed
PROPERTIES
  AnswerIsNotOverruled
CHECK_DEADLOCK FALSE
