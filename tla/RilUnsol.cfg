SPECIFICATION FairSpec
CONSTANTS
  Vendors = {v1}
  Binder = binder
  SlotCount = 2
  Versions = {12, 13}
  MaxUnsol = 1
  MaxClients = 2
  NoMemory = TRUE
  SlowThreads = FALSE
  NULL = NULL
INVARIANTS TypeOK WakeLockHasTimer NitzAtMostOnce
PROPERTIES DeviceSleepsAgain
CHECK_DEADLOCK FALSE
