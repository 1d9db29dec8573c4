SPECIFICATION FairSpec
CONSTANTS
  Clients = {c1, c2}
  Server = Server
  MaxLines = 2
  sockfd = 3
  WORD = 5
  BufUnits = 1
INVARIANTS Watched BlockedOnlyByGarbage OwnEcho
PROPERTIES Answered
CHECK_DEADLOCK FALSE
