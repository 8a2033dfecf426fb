SPECIFICATION FairSpec
CONSTANTS
  Cap = 5
  BatchCap = 2
  Attacks = TRUE
  MaxEmits = 3
CHECK_DEADLOCK FALSE
INVARIANTS TelemetryConsistent LossesAreReported
PROPERTIES ShutdownCompletes
