SPECIFICATION Spec
CONSTANTS
  Peers = {p1, p2}
  MaxAge = 2
  AutoBan = 2
  Durations = {2}
  Deltas <- MCDeltas
  Infos <- MCInfos
  MaxTime = 4
  Unknown = Unknown
SYMMETRY Symmetry
INVARIANTS
  TypeOK
  BanHolds
PROPERTIES
  PruneIsInvisible
CHECK_DEADLOCK FALSE
