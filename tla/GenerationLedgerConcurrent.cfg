SPECIFICATION Spec
CONSTANTS
  g1 = g1
  g2 = g2
  g3 = g3
  l1 = l1
  l2 = l2
  w1 = w1
  w2 = w2
  Generations = {g1, g2, g3}
  Nodes = {"here"}
  Environments = {"host", "user"}
  Labels = {l1, l2}
  Workers = {w1, w2}
SYMMETRY Symmetry
INVARIANTS
  OneCurrent
  CurrentRootsAreCurrent
PROPERTIES
  RetiredStaysRetired
  DemotedOnlyByReplacement
CHECK_DEADLOCK FALSE
