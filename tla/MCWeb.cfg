SPECIFICATION FairSpec
CONSTANTS
  c1 = c1
  c2 = c2
  Clients = {c1, c2}
  Server = Server
  Wants <- Mixed
  MaxPieces = 2
INVARIANTS NoLostEdge OwnAnswer OpenOnly404
PROPERTIES Served
CHECK_DEADLOCK FALSE
