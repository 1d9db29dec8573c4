SPECIFICATION FairSpec
CONSTANTS
  c1 = c1
  c2 = c2
  Clients = {c1, c2}
  Server = Server
  Free = Free
  MAX = 2
  BufUnits = 1
  MaxLines <- TwoAndOne
INVARIANTS ServesOwn EndsWithCause
PROPERTIES Answered
CHECK_DEADLOCK FALSE
