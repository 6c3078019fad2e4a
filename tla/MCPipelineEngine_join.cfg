CONSTANTS
  sA = sA
  sB = sB
  sC = sC
  sD = sD
  Plan <- JoinPlan
  Deps <- JoinDeps
  Inputs <- JoinInputs
  Replies <- JoinReplies
  Values = {"v1"}
  Flaky = {sB}
  Timed = {sA, sB}
  MaxAttempts = 2
  MaxConcurrency = 2
  MaxRuns = 1
  Cancellable = TRUE
  StoreFaults = FALSE
  None = None
CHECK_DEADLOCK FALSE
SPECIFICATION FairSpec
INVARIANTS
  RetriesDurable
PROPERTIES
  ImplementsDagRun
  RunEnds
