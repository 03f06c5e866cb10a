SPECIFICATION FairSpec
CONSTANTS
  x = x
  all = all
  named = named
  Names = {x}
  Wildcard = "*"
  MaxVersion = 2
  Watches = {all, named}
  Interests <- MCInterests
  WildcardNames = {x}
  TtlNames = {x}
  None = None
  RateLimited = TRUE
  MaxChanges = 1
  MaxBreaks = 1
  MaxInterests = 1
  MaxContexts = 1
  MaxHeartbeats = 1
  MaxEvents = 2
  MaxPauses = 2
  MaxOutstanding = 1
CHECK_DEADLOCK FALSE
INVARIANTS
  TypeOK
  CategoriesAreDisjoint
  RequestedIsInterest
  ServerLearnsInterest
  EveryResponseIsAcked
  QuietClientIsUpToDate
  NamedResourceIsHeld
PROPERTIES
  ComesToRest
