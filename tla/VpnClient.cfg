CONSTANTS
  MaxMarkers = 3
  MaxClicks = 2
  ReconnectOnDrop = TRUE
SPECIFICATION FairSpec
CHECK_DEADLOCK FALSE
INVARIANTS TypeOK OpenTruth DisconnectedMeansStopped NoLeak 
PROPERTIES TunnelSpec CallsReturn
