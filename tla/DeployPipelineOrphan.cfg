SPECIFICATION Spec
CONSTANTS
  d1 = d1
  d2 = d2
  Deployments = {d1, d2}
  Requests <- MCRequests
  Closures <- MCClosures
  Installed = "old"
  Cap = 1
  MaxCrashes = 1
  MaxFaults = 0
SYMMETRY Symmetry
INVARIANTS
  DroppedRowsWereConcluded
CHECK_DEADLOCK FALSE
