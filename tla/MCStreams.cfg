SPECIFICATION FairStreamsSpec
CONSTANTS
  Process = {p1, p2, p3}
  Nobody = Nobody
  SegmentSurvives = TRUE
  MaxForks = 4
  MaxCommands = 2
  MaxFails = 2
  Named = TRUE
  MaxDepth = 3
  MaxFetches = 4
  Backend = {"b1", "b2"}
  None = "none"
  Body = 2
  RetryCount = 2
  Requests = 3
  RefusesAgain = FALSE
  Size = 4
  Room = 3
INVARIANTS GuardSound PassedOn
PROPERTIES ProxySound DaemonSound FetchSound 
CHECK_DEADLOCK FALSE
