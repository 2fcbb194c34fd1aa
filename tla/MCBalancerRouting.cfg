SPECIFICATION Spec
CONSTANTS
  k1 = k1
  k2 = k2
  s1 = s1
  s2 = s2
  None = None
  Keys = {k1, k2}
  Servers = {s1, s2}
  Algorithms = {"roundRobin", "random"}
  Arriving = {"SYN"}
  Limit <- OneEach
  Timeout <- EqualTimeouts
  CleanupInterval = 1
  ChaosConfigs <- Plain
  JobCapacity = 1
  MaxInstances = 2
  MaxMappings = 2
  MaxDelayed = 1
  MaxAge = 2
SYMMETRY Symmetry
INVARIANTS
  RoutesAreSound
PROPERTIES
  RoomIsFound
CHECK_DEADLOCK FALSE
