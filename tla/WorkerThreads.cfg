CONSTANTS
  Thread = {t1, t2}
  Null = Null
  Offered = {"getOvpn", "reload"}
  MaxVersion = 2
SPECIFICATION WorkerSpec
INVARIANTS TypeOK UsersExclusive UsersFresh
PROPERTY UsersReleased
