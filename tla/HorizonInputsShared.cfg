\* Two deployments materialize for the same node and shape.
SPECIFICATION Spec
CONSTANTS
    d1 = d1
    d2 = d2
    Deployments = {d1, d2}
    Submissions <- MCSubmissions
    MaxCrashes = 1
INVARIANT InputsAreItsOwn
CHECK_DEADLOCK FALSE
