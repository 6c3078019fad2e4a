CONSTANTS
  sA = sA
  sB = sB
  sC = sC
  sD = sD
  Plan <- DiamondPlan
  Deps <- DiamondDeps
  Inputs <- DiamondInputs
  Replies <- DiamondReplies
  Values = {"v1", "v2"}
  Flaky = {}
  Timed = {}
  MaxAttempts = 2
  MaxConcurrency = 2
  MaxRuns = 2
  Cancellable = FALSE
  StoreFaults = TRUE
  None = None
CHECK_DEADLOCK FALSE
SPECIFICATION Spec
INVARIANTS
  HistoryCoherent
  ClosedHonestly
PROPERTIES
  RecordsStand
