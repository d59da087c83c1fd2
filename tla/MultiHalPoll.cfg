SPECIFICATION Spec
CONSTANTS
  Capacity = 2
  QueueCount = 2
  LocalHandles = {1, 2}
  SubEvents <- TwoEvents
  full_to_global <- MCHandles
  MaxReads = {2}
  Uninit = Uninit
INVARIANTS TypeOK RegionNotReadable NoLostDataWakeup NoLostSpaceWakeup
PROPERTY ImplementsStream
