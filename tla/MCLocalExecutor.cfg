CONSTANTS
  tA = tA
  tB = tB
  tC = tC
  tD = tD
  Tasks <- MCTasks
  Keys <- MCKeys
  AttemptIds <- MCAttemptIds
  KeyOf <- MCKeyOf
  AttemptOf <- MCAttemptOf
  Results <- MCResults
  StatusOf <- MCStatusOf
  CancelledResult = "stopped"
  FailedResult = "error"
  MaxConcurrency = 2
  None = None
SPECIFICATION FairSpec
CHECK_DEADLOCK FALSE
INVARIANTS
  BookkeepingExact
  RunsAtMostOnce
  VerdictMeansStopped
PROPERTIES
  VerdictsHold
  ImplementsPort
  EveryJobEnds
