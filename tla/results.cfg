SPECIFICATION MCSpec
CONSTANTS
  Capacity = {1, 3}
  Default = 2
  MaxRevisions = 4
  MaxStarts = 2
  MaxReports = 2
  Reader = {r1, r2}
  Window = {w1}
  Grp = {g1}
  CacheSize = 2
  Attempts = 2
  Request = {q1, q2}
  run1 = run1
  run2 = run2
CHECK_DEADLOCK FALSE
INVARIANTS CapacityIsEnforced LibraryIsSound AnalysesAreTrue DeletedStaysGone DownloadsAreSound
