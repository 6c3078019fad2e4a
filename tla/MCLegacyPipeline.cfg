CONSTANTS
  Requests <- MCRequests
SPECIFICATION Spec
CHECK_DEADLOCK FALSE
INVARIANT Settled
INVARIANT OutputsTrue
INVARIANT SkipsStopNothing
