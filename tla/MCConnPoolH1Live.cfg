SPECIFICATION FairSpec
CONSTANTS
  Clients = {c1, c2}
  Streams = {s1, s2}
  NoClient = NoClient
  NoStream = NoStream
  Multiplexed = FALSE
  MaxConcurrentStreams = 1
  MaxRequestsPerConnection = 2
  Settings = {}
  UsesCache = FALSE
  MaxConnections = 1
  MaxPendingRequests = 2
  MaxRequests = 2
  RatioHalves = 2
  GlobalRatioHalves = 0
  MayShed = FALSE
  MayFailToCreate = FALSE
  RetryInPurge = TRUE
  MaxDepth = 4
PROPERTY DrainedPoolIsDestroyed
