SPECIFICATION Spec
CONSTANTS
  Clients = {c1, c2, c3}
  Streams = {s1, s2, s3}
  NoClient = NoClient
  NoStream = NoStream
  Multiplexed = TRUE
  MaxConcurrentStreams = 2
  MaxRequestsPerConnection = 2
  Settings = {1, 2}
  UsesCache = TRUE
  MaxConnections = 2
  MaxPendingRequests = 2
  MaxRequests = 3
  RatioHalves = 3
  GlobalRatioHalves = 3
  MayShed = TRUE
  MayFailToCreate = TRUE
  RetryInPurge = FALSE
  MaxDepth = 4
SYMMETRY Symmetry
INVARIANTS
  TypeOK
  CapacityCountsAreCorrect
  DebtIsExact
  StreamsOfLostConnectionsAreReset
  QueuedStreamGetsConnection
  DrainingClientHasStreams
