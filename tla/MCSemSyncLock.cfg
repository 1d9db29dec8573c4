SPECIFICATION FairSpec
CONSTANTS
  Value = {v1, v2}
  NULL = NULL
  Node = Node
  Garbage = Garbage
INVARIANTS OneToken CrashHasCause
PROPERTIES BufferSpec Consumed
CHECK_DEADLOCK FALSE
