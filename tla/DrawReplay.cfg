SPECIFICATION Spec
CONSTANTS
  Viewers = {v1}
  Nodes = {n1, n2}
  Desk = n1
  Cap = 3
  MaxOps = 3
  MaxLosses = 1
  Overtaking = FALSE
INVARIANTS
  ExactReplay
CHECK_DEADLOCK FALSE
