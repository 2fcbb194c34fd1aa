SPECIFICATION WaySpec
CONSTANTS
  clients = clients
  backends = backends
  NoInput = NoInput
  QueueCapacity = 2
  Threshold = 2
  MaxOffered = 3
  SharedCapacity = 1
  SharedThreshold = 1
  MaxReplies = 2
INVARIANTS
  InputIsSound
PROPERTIES
  ImplementsFifo
  WayIsFifo
CHECK_DEADLOCK FALSE
