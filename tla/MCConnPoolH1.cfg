SPECIFICATION Spec
CONSTANTS
  Clients = {c1, c2, c3}
  Streams = {s1, s2, s3}
  NoClient = NoClient
  NoStream = NoStream
  Multiplexed = FALSE
  MaxConcurrentStreams = 1
  MaxRequestsPerConnection = 2
  Settings = {}
  UsesCache = FALSE
  MaxConnections = 3
  MaxPendingRequests = 3
  MaxRequests = 3
  RatioHalves = 2
  GlobalRatioHalves = 0
  MayShed = FALSE
  MayFailToCreate = FALSE
  RetryInPurge = TRUE
  MaxDepth = 6
SYMMETRY Symmetry
INVARIANTS
  ActiveStreamsAreCounted
  StreamIsInOnePlace
  DeletedPoolStaysIdle
  DestructorLeavesNothing
  QueuedStreamHasClient
  ReadyClientServesQueue
  DrainedClientsAreNotIdle
  DrainingPoolHasWork
