CONSTANTS
  w1 = w1
  w2 = w2
  r1 = r1
  r2 = r2
  Work = {w1, w2}
  Run = {r1, r2}
  Plans <- SmallPlans
  MaxRestarts = 1
  MaxFaults = 1
  j1 = j1
  j2 = j2
  Job = {j1, j2}
SPECIFICATION MCSpec
CHECK_DEADLOCK FALSE
INVARIANTS QueueIsolates CleanupRemembered RunIsSound
PROPERTIES EveryWorkEnds RunEnds
