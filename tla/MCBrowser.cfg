SPECIFICATION BrowserFairSpec
CONSTANTS
  RunIDLimit = 2
  PipeCapacity = 1
  MaxTroubles = 1
INVARIANT BrowserIsSound
PROPERTIES
  NoFalseAck
  StartEnds
CHECK_DEADLOCK FALSE
