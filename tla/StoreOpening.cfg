\* One deployment, every pair of schema changes, and faults anywhere.
SPECIFICATION Spec
CONSTANTS
  p1 = p1
  p2 = p2
  Pids = {p1, p2}
  Schemas <- MCSchemas
  MaxIdentifier = 1
  MaxUpgrades = 2
  MaxFaults = 1
SYMMETRY Symmetry
INVARIANTS
  RefusedForCause
  RefusedOnTheProbe
  NextIsFree
PROPERTIES
  OpeningLosesNothing
CHECK_DEADLOCK FALSE
