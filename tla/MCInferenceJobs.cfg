CONSTANTS
  qA = qA
  qB = qB
  qC = qC
  qD = qD
  c1 = c1
  c2 = c2
  Requests <- MCRequests
  Ids <- MCIds
  IdOf <- MCIdOf
  Keys <- MCKeys
  KeyOf <- MCKeyOf
  Cancellers <- MCCancellers
  MaxJobs = 1
  MaxCreated = 2
  Reuse = FALSE
  None = None
CHECK_DEADLOCK FALSE
SPECIFICATION FairSpec
INVARIANTS
  RegistryExact
PROPERTIES
  NothingTakenBack
  ImplementsJobServer
  EveryJobAnswered
