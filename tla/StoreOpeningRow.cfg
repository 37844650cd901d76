\* One deployment, one schema change, and a row it made unreadable.
SPECIFICATION Spec
CONSTANTS
  p1 = p1
  p2 = p2
  Pids = {p1, p2}
  Schemas <- MCSchemas
  MaxIdentifier = 1
  MaxUpgrades = 1
  MaxFaults = 0
INVARIANTS
  NoRowRefusesTheStore
CHECK_DEADLOCK FALSE
