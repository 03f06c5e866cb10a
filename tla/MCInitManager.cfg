SPECIFICATION FairSpec
CONSTANTS
  server = server  dynamic = dynamic  local = local
  listener = listener  start = start
  rds = rds  sds = sds  w1 = w1  w2 = w2
  Managers = {server, dynamic, local}
  PlainTargets = {listener, start}
  SharedTargets = {rds, sds}
  Watchers = {w1, w2}
  WatchersOf <- MCWatchersOf
  Owners = {listener, rds, sds}
  None = None
  Inner <- MCInner
  Members <- MCMembers
  Signals <- MCSignals
  Constructed <- MCConstructed
  Registrations <- MCRegistrations
  AddsReadyTarget = FALSE
CHECK_DEADLOCK FALSE
INVARIANTS
  TypeOK
  CountIsOutstanding
  AssertionsHold
  LastWatcherIsNotified
PROPERTIES
  ImplementsCountdown
  ManagerIsInitialized
