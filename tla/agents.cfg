CONSTANTS
  Op = {x1, x2}
  MaxBoots = 2
  MaxStarts = 2
  MaxRestarts = 1
  HoldSyncFails = FALSE
  Agent = {x1, x2}
  Node = {x1, x2}
  NoAgent = NoAgent
  Capacity = 1
  MaxSnapshots = 3
  MaxInFlight = 2
SPECIFICATION MCSpec
SYMMETRY Sym
CHECK_DEADLOCK FALSE
INVARIANTS RebootIsSafe PlacementConsistent OccupancyCovers
PROPERTIES NoRevival
