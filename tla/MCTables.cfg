SPECIFICATION TablesSpec
CONSTANTS
  Sites = {"s1", "s2"}
  Ips = {"dns", "a"}
  NoIp = "none"
  DnsIps = {"dns"}
  Gates = {"g1"}
  MaxCalls = 2
  MaxTimers = 1
  Ids = {"k1", "k2"}
  MaxUsers = 2
  MaxValid = 2
  MaxDays = 1
  MaxClock = 5
  Req = {"r1", "r2"}
  Units = 2
  Life = 1
  MaxTime = 2
  MaxVersion = 2
  Crashes = 1
  Key = {"p1", "p2"}
  Rec = {"x1", "x2", "x3", "x4"}
  Query = {"q1", "q2"}
  Nil = "nil"
  MaxItems = 1
  Slack = 1
  Cached = 0
  MaxMoment = 1
  MaxVersions = 2
  MaxBody = 2
  Threads = {1, 2}
  MaxText = 3
  Block = 2
  Pad = 4
  Dev = {1, 2}
  MaxFails = 2
  MaxTouched = 1
INVARIANTS  KeysSound  FilesSound MessagesSound EnvelopeSound CipherSound
PROPERTY TapsSound
CHECK_DEADLOCK FALSE
