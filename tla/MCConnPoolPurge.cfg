SPECIFICATION Spec
CONSTANTS
  Clients = {c1, c2, c3}
  Streams = {s1, s2, s3}
  NoClient = NoClient
  NoStream = NoStream
  Multiplexed = FALSE
  MaxConcurrentStreams = 1
  MaxRequestsPerConnection = 2
  Settings = {}
  UsesCache = FALSE
  MaxConnections = 2
  MaxPendingRequests = 2
  MaxRequests = 2
  RatioHalves = 2
  GlobalRatioHalves = 0
  MayShed = TRUE
  MayFailToCreate = FALSE
  RetryInPurge = TRUE
  MaxDepth = 4
SYMMETRY Symmetry
INVARIANTS
  CancelledStreamIsInList
