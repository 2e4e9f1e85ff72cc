SPECIFICATION Spec
CONSTANTS
  Viewers = {v1}
  Nodes = {n1, n2}
  Desk = n1
  Cap = 3
  MaxOps = 4
  MaxLosses = 1
  Overtaking = FALSE
INVARIANTS
  TypeOK
  BufferIsCanvas
  InSync
CHECK_DEADLOCK FALSE
