CONSTANTS
  MaxMarkers = 2
  MaxClicks = 1
  ReconnectOnDrop = TRUE
SPECIFICATION Spec
CHECK_DEADLOCK FALSE
PROPERTY KillOnlyIfStopAsked
