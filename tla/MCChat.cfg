SPECIFICATION Spec
CONSTANTS
  Clients = {c1, c2}
  Server = Server
  Broadcast = TRUE
  BufUnits = 2
  MaxLines <- TwoEach
INVARIANTS OrderPerSender EndsWithCause NoEofWhileListening
SYMMETRY Symmetry
CHECK_DEADLOCK FALSE
