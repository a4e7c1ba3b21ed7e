CONSTANTS
  Conn = {c1, c2}
  Worker = {w1, w2}
  None = None
  MaxWorkers = 1
  MaxIdle = 1
  QueueCap = 2
  Clients = 2
  Includes = 1
  HeadPages = FALSE
SPECIFICATION FairSpec
INVARIANTS ServerSound StopReachesAll
PROPERTY JobsReturn
CHECK_DEADLOCK FALSE
