\* Every crash point of a run and of its reruns.
SPECIFICATION Spec
CONSTANTS
    Requests <- MCRequests
    MaxCrashes = 2
    MaxReboots = 1
    MaxPolls = 2
    MaxNumber = 1
INVARIANTS
    RootedBeforeActivation
    SuccessMeansArmed
PROPERTIES
    CompletedEffectsNotRepeated
    RootLinkNeverLost
    EvidenceIsFinal
    EveryRunEnds
CHECK_DEADLOCK FALSE
