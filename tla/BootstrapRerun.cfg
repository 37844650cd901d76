\* A rerun of an admitted request after one crash.
SPECIFICATION Spec
CONSTANTS
    Requests <- MCRequests
    MaxCrashes = 1
    MaxReboots = 0
    MaxPolls = 2
    MaxNumber = 1
INVARIANT
    RerunIsNeverRefused
CHECK_DEADLOCK FALSE
