SPECIFICATION BrowserFairSpec
CONSTANTS
  RunIDLimit = 2
  PipeCapacity = 1
  MaxTroubles = 0
PROPERTY StopEnds
CHECK_DEADLOCK FALSE
