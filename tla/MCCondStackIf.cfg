SPECIFICATION Spec
CONSTANTS
  Node = {n1, n2}
  NULL = NULL
  Spurious = FALSE
INVARIANT WaitedForNode
CHECK_DEADLOCK FALSE
