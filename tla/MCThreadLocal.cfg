SPECIFICATION FairSpec
CONSTANTS
  Concurrency = 2
  Slots = {s1, s2}
  Shared = {s1}
  Confirmed = {s1}
  None = None
  MaxPending = 2
  MaxSets = 1
  MaxUpdates = 1
CHECK_DEADLOCK FALSE
INVARIANTS
  TypeOK
  EveryIndexIsAccounted
  SlotDataIsItsOwn
  WorkersConverge
  FreedIndexIsCleared
  CompletionIsLast
PROPERTIES
  CompletionRuns
