SPECIFICATION FairSpec
CONSTANTS
  Clients = {c1, c2}
  Nobody = Nobody
  MaxDepth = 1
  MaxTimers = 1
  MayQuit = TRUE
  ReconnectOnDrop = TRUE
INVARIANTS TypeOK NoOrphan StatusHonest CancelHolds  RoutesCleared
PROPERTIES CancelStopsRetry SessionEnds
CHECK_DEADLOCK FALSE
