SPECIFICATION FairSpec
CONSTANTS
  MaxFingers = 2
  Samples = 2
INVARIANTS
  TrustletStaysOpen
  ReportsMatchedFinger
  StoredWhenComplete
PROPERTY CallsReturn
CHECK_DEADLOCK FALSE
