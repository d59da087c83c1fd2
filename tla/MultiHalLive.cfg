SPECIFICATION FairSpec
CONSTANTS
  Capacity = 2
  QueueCount = 2
  LocalHandles = {1, 2}
  SubEvents <- OneEvent
  full_to_global <- MCHandles
  MaxReads = {2}
  Uninit = Uninit
PROPERTIES QueuesDrain WriterGoesOn
