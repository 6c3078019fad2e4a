CONSTANTS
  sA = sA
  sB = sB
  sC = sC
  sD = sD
  Plan <- JoinPlan
  Deps <- JoinDeps
  Inputs <- JoinInputs
  Replies <- JoinReplies
  Values = {"v1"}
  Flaky = {}
  Timed = {}
  MaxAttempts = 2
  MaxConcurrency = 2
  MaxRuns = 1
  Cancellable = FALSE
  StoreFaults = FALSE
  None = None
CHECK_DEADLOCK FALSE
SPECIFICATION Spec
INVARIANTS
  RetriedRunSucceeds
