SPECIFICATION Spec
CONSTANTS
  Vendors = {v1}
  Binder = binder
  SlotCount = 3
  Versions = {12, 13}
  MaxUnsol = 1
  MaxClients = 2
  NoMemory = FALSE
  SlowThreads = FALSE
  NULL = NULL
INVARIANT NitzNotLost
CHECK_DEADLOCK FALSE
