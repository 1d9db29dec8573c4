SPECIFICATION Spec
CONSTANTS
  Clients = {c1, c2, c3}
  Server = Server
  MaxLines = 1
  Rec = {r1, r2}
  NULL = NULL
  Listener = Listener
  Garbage = Garbage
  REMAX = 2
  FreedFd <- FreedFdValues
  BufUnits = 1
SYMMETRY Symmetry
INVARIANTS RegisteredLive InBatchSafe OwnEcho
CHECK_DEADLOCK FALSE
