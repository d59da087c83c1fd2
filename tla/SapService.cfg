SPECIFICATION FairSpec
CONSTANTS
  MaxRequests = 2
  BusyIds = {"CONNECT", "DISCONNECT"}
  Vendors = {v1}
  MaxClients = 2
  NULL = NULL
INVARIANTS OwnsItsMemory AnswersFaithful NullOnlyAfterDeath
PROPERTY RequestsSettled
CHECK_DEADLOCK FALSE
