SPECIFICATION FairSpec
CONSTANTS
  Clients = {c1, c2}
  Server = Server
  Broadcast = FALSE
  BufUnits = 2
  MaxLines <- OneEach
INVARIANTS ZombieSignalled EintrSurvives
PROPERTIES Reaped AcceptedInTheEnd Relayed
CHECK_DEADLOCK FALSE
