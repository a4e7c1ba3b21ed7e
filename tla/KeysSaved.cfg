CONSTANTS
  Ids = {"k1", "k2"}
  MaxUsers = 2
  MaxValid = 2
  MaxDays = 1
  MaxClock = 5
SPECIFICATION KeysSpec
INVARIANT ActivationSaved
