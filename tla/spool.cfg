CONSTANTS
  Sources = {p1}
  EventsPerSource = 2
  BatchEvents = 2
  SegmentLines = 2
  WindowEvents = 2
  BacklogEvents = 4
  MaxSegments = 3
  MaxFaults = 1
  MaxCrashes = 2
  DrainRuns = {p1}
SPECIFICATION Spec
CHECK_DEADLOCK FALSE
INVARIANTS SpoolConsistent EvidenceIsKept RecoveryAccepts FirstArrivalInOrder DrainSound
