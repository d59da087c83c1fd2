SPECIFICATION Spec
CONSTANTS
  Config <- MCConfig
  Listing <- MCListing
  NULL = NULL
INVARIANTS CallsReachOwner EventsKeepOwner
CHECK_DEADLOCK FALSE
