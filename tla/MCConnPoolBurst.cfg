SPECIFICATION Spec
CONSTANTS
  Clients = {c1, c2, c3, c4}
  Streams = {s1, s2, s3, s4}
  NoClient = NoClient
  NoStream = NoStream
  Multiplexed = FALSE
  MaxConcurrentStreams = 1
  MaxRequestsPerConnection = 2
  Settings = {}
  UsesCache = FALSE
  MaxConnections = 4
  MaxPendingRequests = 4
  MaxRequests = 4
  RatioHalves = 2
  GlobalRatioHalves = 0
  MayShed = FALSE
  MayFailToCreate = FALSE
  RetryInPurge = TRUE
  MaxDepth = 4
SYMMETRY Symmetry
INVARIANTS
  DrainingPoolDoesNotPreconnect
