SPECIFICATION FairSpec
CONSTANTS
  A = A
  B = B
  MaxLines = 3
  BufUnits = 2
INVARIANTS InOrder EndHasCause
PROPERTIES Met HangUp
CHECK_DEADLOCK FALSE
