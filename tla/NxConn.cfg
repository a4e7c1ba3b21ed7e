CONSTANTS
  Body = 2
  Content = 2
  Room = 2
  Buffer = 2
  MaxPump = 1
  Requests = 2
  Accepts = 2
SPECIFICATION FairSpec
INVARIANTS ConnSound
PROPERTY ConnectionsEnd
CHECK_DEADLOCK FALSE
