SPECIFICATION Spec
CONSTANTS
  k1 = k1
  k2 = k2
  s1 = s1
  s2 = s2
  None = None
  Keys = {k1}
  Servers = {s1}
  Algorithms = {"roundRobin"}
  Arriving = {"SYN", "ACK", "FIN", "RST"}
  Limit <- OneEach
  Timeout <- ShortTimeouts
  CleanupInterval = 1
  ChaosConfigs <- BothChaos
  JobCapacity = 2
  MaxInstances = 2
  MaxMappings = 2
  MaxDelayed = 1
  MaxAge = 3
INVARIANTS
  SentWhereItBelongs
  SweptInTime
PROPERTIES
  PhaseNeverGoesBack
CHECK_DEADLOCK FALSE
