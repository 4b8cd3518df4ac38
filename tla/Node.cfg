SPECIFICATION FairSpec
CONSTANTS
  p1 = p1
  p2 = p2
  Peers <- MCPeers
  StartTopics = {"heartbeats"}
  MaxConnections = 2
  MaxEvents = 4
INVARIANTS
  TypeOK
  NoGhosts
  MissedOnlyIfOverlapped
  ViewFollows
PROPERTIES
  RequestSurfaces
CHECK_DEADLOCK FALSE
