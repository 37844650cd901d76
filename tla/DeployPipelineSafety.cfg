SPECIFICATION Spec
CONSTANTS
  d1 = d1
  d2 = d2
  Deployments = {d1, d2}
  Requests <- MCRequests
  Closures <- MCClosures
  Installed = "old"
  Cap = 1
  MaxCrashes = 2
  MaxFaults = 1
SYMMETRY Symmetry
INVARIANTS
  RunningWithinCap
  NeverActivatedTwice
  BeginsAreAccepted
  CursorIsResumable
  CursorMatchesRecord
  SuccessWasActivated
  CleanedAfterReport
CHECK_DEADLOCK FALSE
