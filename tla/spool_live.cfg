CONSTANTS
  Sources = {p1}
  EventsPerSource = 2
  BatchEvents = 2
  SegmentLines = 2
  WindowEvents = 2
  BacklogEvents = 4
  MaxSegments = 4
  MaxFaults = 1
  MaxCrashes = 1
  DrainRuns = {}
SPECIFICATION FairSpec
CHECK_DEADLOCK FALSE
PROPERTIES EventuallyDelivered
