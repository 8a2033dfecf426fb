CONSTANTS
  w1 = w1
  w2 = w2
  r1 = r1
  r2 = r2
  Work = {w1, w2}
  Run = {r1, r2}
  Plans <- SmallPlans
  MaxRestarts = 1
  MaxFaults = 0
SPECIFICATION Spec
CHECK_DEADLOCK FALSE
INVARIANTS FailedRunsRemovePeers
