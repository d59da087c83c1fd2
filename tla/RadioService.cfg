SPECIFICATION FairSpec
CONSTANTS
  Vendors = {v1}
  Binder = binder
  Tokens = {k1}
  OemTokens = {}
  MaxClients = 2
  ErrorsToDead = FALSE
  NULL = NULL
INVARIANTS TypeOK Exclusive AssertionsHold AnsweredAtMostOnce
PROPERTIES ForgetsOnlyTheDead DeadClientForgotten
