SPECIFICATION Spec
CONSTANTS
  Extensions = {"measurement", "batching"}
  Infos = {"capabilities"}
  MaxClients = 2
  MaxClocks = 1
  MaxBatch = 2
INVARIANTS
  WakelockFollows
  RestartIsClean
  ConversionsFaithful
CHECK_DEADLOCK FALSE
