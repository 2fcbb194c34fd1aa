SPECIFICATION Spec
CONSTANTS
  Payload = 2
  Mss = 1
  Window = 2
  MaxWindow = 2
  DuplicateThreshold = 1
  MaxRetransmissions = 1
  MaxFINRetries = 1
  SegmentsPerACK = 2
  ClientIdleLimit = TRUE
  BackendIdleLimits = {"synReceived"}
  Room = 3
INVARIANTS
  EndsAreSound
CHECK_DEADLOCK FALSE
PROPERTIES
  ImplementsTransfer
  EveryConnectionEnds
