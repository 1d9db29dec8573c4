SPECIFICATION FairSpec
CONSTANTS
  Node = {n1, n2, n3}
  NULL = NULL
  Spurious = TRUE
INVARIANTS NoLostWakeup HeapAccounted DestroyedQuiet
PROPERTIES StackSpec Woken
CHECK_DEADLOCK FALSE
