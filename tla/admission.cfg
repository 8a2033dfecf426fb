CONSTANTS
  Run = {r1}
  Node = {n1, n2}
  Handler = {h1, h2}
  NodeRun <- MCNodeRun
  NodeGen <- MCNodeGen
  CreateGen = 0
  StopGens = {0}
  TopGen = 0
  Capacity = 1
  MaxInstance = 1
SYMMETRY Interchangeable
SPECIFICATION Spec
CHECK_DEADLOCK FALSE
INVARIANTS FencedStaysClean AdmittedOnce WithinCapacity
