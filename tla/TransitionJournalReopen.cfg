SPECIFICATION Spec
CONSTANTS
  MaxDeployments = 2
  MaxOrdinal = 1
  MaxPosition = 3
  MaxCrashes = 1
  Retention = 1
  CommitRetention = 8
INVARIANTS
  StoreReopens
CHECK_DEADLOCK FALSE
