CONSTANTS
  Op = {o1, o2}
  MaxBoots = 2
  MaxStarts = 3
  MaxRestarts = 1
  HoldSyncFails = TRUE
SPECIFICATION SmallSpec
INVARIANTS EnabledIsSafe
CHECK_DEADLOCK FALSE
SYMMETRY Sym
