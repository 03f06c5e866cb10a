SPECIFICATION FairSpec
CONSTANTS
  dns = dns  eds = eds
  p1 = p1  p2 = p2  s1 = s1  s2 = s2  bad = bad
  StaticNames = {dns, eds}
  CdsNames = {c, d, eds}
  Configs = {p1, p2, s1, s2, bad}
  Bootstrap <- MCBootstrap
  SecondaryConfigs = {s1, s2}
  Rejected = {bad}
  PhaseChanges = FALSE
  MaxUpdates = 3
  MaxMentioned = 2
CHECK_DEADLOCK FALSE
INVARIANTS
  HelperWaitsForItsClusters
  SecondaryClustersWait
  CdsPausedWhileWarming
PROPERTIES
  InitializationCompletes
