SPECIFICATION WorldSpec
CONSTANTS
  MaxDuration = 4
  EndTime = 3
  EventLimit = 6
  BatchSize = 2
  EventIDBound = 9
  MaxInt = 63
  PayloadUnit = 2
  HeaderBytes = 5
  MaxMSS = 20
  MaxClients = 5
  MaxBackends = 2
  MaxCores = 8
  MaxHostQueue = 8
  DefaultTransport <- MCDefaultTransport
  DefaultHost <- MCDefaultHost
  Inputs <- MCInputs
  Played <- MCPlayed
  Alphabet <- MCAlphabet
  MaxSpawn = 2
  Spawns <- MCSpawns
  MaxCommands = 1
  MaxTransmissions = 2
INVARIANTS
  IInv
  SettingsAreSound
  WorkloadIsSound
  RateIsTrue
PROPERTIES
  StartsInOrder
  BatchResultIsTrue
  AdvanceEnds
CHECK_DEADLOCK FALSE
