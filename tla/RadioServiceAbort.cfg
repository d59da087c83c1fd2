SPECIFICATION Spec
CONSTANTS
  Vendors = {v1}
  Binder = binder
  Tokens = {k1}
  OemTokens = {}
  MaxClients = 1
  ErrorsToDead = TRUE
  NULL = NULL
INVARIANT AssertionsHold
