CONSTANTS
  Threads = {t0, t1}
  First = t0
  None = None
SPECIFICATION FairSpec
INVARIANTS DialogSound
PROPERTIES DialogsEnd
CHECK_DEADLOCK FALSE
