SPECIFICATION FairSpec
CONSTANTS
  Clients = {c1, c2}
  Nobody = Nobody
  MaxDepth = 1
  MaxTimers = 1
  MayQuit = TRUE
  ReconnectOnDrop = TRUE
PROPERTY ExitEnds
CHECK_DEADLOCK FALSE
