SPECIFICATION MCSpec
CONSTANTS
  s1 = s1
  s2 = s2
  Control = s1
  NoNode = NoNode
  Agent = {a1, a2}
  MaxAttempts = 2
  MaxNets = 3
  MaxRestarts = 1
  Gateways = {0, 1, 7}
  HostBits = 3
  p1 = p1
  p2 = p2
  p3 = p3
  Peer = {p1, p2}
  Graphs <- MCGraphs
  Groups <- MCGroups
  MaxFaults = 2
  Attempts = 2
  MaxPhases = 3
  MaxNodes = 6
  MaxEdges = 12
CHECK_DEADLOCK FALSE
INVARIANTS StopsAreClean NetworkIsSound ProfilesAreSound MeshIsSound GraphIsSound
PROPERTIES ReplacementsSurvive ResetIsExact
