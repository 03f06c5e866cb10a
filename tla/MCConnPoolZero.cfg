SPECIFICATION Spec
CONSTANTS
  Clients = {c1, c2, c3}
  Streams = {s1, s2, s3}
  NoClient = NoClient
  NoStream = NoStream
  Multiplexed = TRUE
  MaxConcurrentStreams = 2
  MaxRequestsPerConnection = 3
  Settings = {0, 2}
  UsesCache = FALSE
  MaxConnections = 2
  MaxPendingRequests = 2
  MaxRequests = 3
  RatioHalves = 2
  GlobalRatioHalves = 0
  MayShed = FALSE
  MayFailToCreate = FALSE
  RetryInPurge = TRUE
  MaxDepth = 4
SYMMETRY Symmetry
INVARIANTS
  DrainingClientHasStreams
