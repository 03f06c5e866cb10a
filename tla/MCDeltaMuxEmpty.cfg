SPECIFICATION Spec
CONSTANTS
  x = x
  all = all
  named = named
  Names = {x}
  Wildcard = "*"
  MaxVersion = 2
  Watches = {named}
  Interests <- MCNamedInterests
  WildcardNames = {x}
  TtlNames = {}
  None = None
  RateLimited = FALSE
  MaxChanges = 1
  MaxBreaks = 1
  MaxInterests = 2
  MaxContexts = 0
  MaxHeartbeats = 0
  MaxEvents = 3
  MaxPauses = 1
  MaxOutstanding = 1
CHECK_DEADLOCK FALSE
PROPERTIES
  FirstRequestHasInterest
