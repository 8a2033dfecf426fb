SPECIFICATION Spec
CONSTANTS
  MaxRuns = 3
  MaxTotal = 2
  MaxFaults = 1
  MaxStops = 1
INVARIANTS GroupIsSound SubmittedOnce
PROPERTIES AdmissionIsAtomic
