\* Two deployments of one node, every admitted action and one refusal of each
\* kind, on the daemon's own node or another one, with two faults.
SPECIFICATION Spec
CONSTANTS
    d1 = d1
    d2 = d2
    Deployments = {d1, d2}
    Base = Base
    Requests <- MCRequests
    MaxFaults = 2
CHECK_DEADLOCK FALSE
SYMMETRY Symmetry
INVARIANTS RootedUntilActivated SwitchDecidesBoot BootTargetIsKept HomeProfileWasActivated
PROPERTIES BootOnceThenBack DetachedScriptIsNeverCut
