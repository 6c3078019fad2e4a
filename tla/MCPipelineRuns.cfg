CONSTANTS
  k1 = k1
  k2 = k2
  RunIds <- TwoRunIds
  Keys <- MCKeys
  Steps = 1
  MaxActive = 1
  Retain = 1
  MaxTime = 2
  MaxRestarts = 2
  FaultyRuns = {1}
  None = None
CHECK_DEADLOCK FALSE
SPECIFICATION FairSpec
INVARIANTS
  RunsConsistent
PROPERTIES
  NothingRevised
  ForgetsOnlyOldest
  EveryRunEnds
