SPECIFICATION Spec
CONSTANTS
  dns = dns  eds = eds
  p1 = p1  p2 = p2  s1 = s1  s2 = s2  bad = bad
  StaticNames = {dns, eds}
  CdsNames = {c}
  Configs = {p1, s1}
  Bootstrap <- MCBootstrap
  SecondaryConfigs = {s1}
  Rejected = {}
  PhaseChanges = TRUE
  MaxUpdates = 2
  MaxMentioned = 1
CHECK_DEADLOCK FALSE
INVARIANTS
  InitClustersAreLive
