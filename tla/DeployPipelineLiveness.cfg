SPECIFICATION FairSpec
CONSTANTS
  d1 = d1
  d2 = d2
  Deployments = {d1, d2}
  Requests <- LiveRequests
  Closures <- MCClosures
  Installed = "old"
  Cap = 1
  MaxCrashes = 2
  MaxFaults = 0
PROPERTIES
  EveryBuildConcludes
  EveryTestConcludes
CHECK_DEADLOCK FALSE
