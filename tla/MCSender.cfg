SPECIFICATION SenderSpec
CONSTANTS
  Modes = {"reno", "newReno", "tahoe"}
  Payload = 7
  Mss = 2
  InitialWindow = 4
  InitialThreshold = 5
  MaximumWindow = 6
  MaxRetransmissions = 1
  SackPayload = 12
  SackMss = 2
  SackWindow = 11
  SackThreshold = 6
  SackMaximum = 12
  SackRetransmissions = 2
  MaxSACKBlocks = 2
  MaxTroubles = 3
  MaxDuration = 31
  MinimumTimeout = 2
  InitialTimeout = 3
  MaximumTimeout = 29
  Conservative = 9
  Samples = {0, 1, 6, 31}
INVARIANTS
  IInv
  SackIsSound
  RepairsAreNeeded
  TransferGoesOn
  TimeoutIsSound
PROPERTIES
  OneReductionPerFlight
CHECK_DEADLOCK FALSE
