CONSTANTS
  cA = cA
  cB = cB
  Calls = {cA, cB}
  Keys = {"k"}
  KeyOf <- MCKeyOf
  MaxTries = 2
  Threshold = 1
  MaxLate = 1
  None = None
CHECK_DEADLOCK FALSE
SYMMETRY MCSymmetry
SPECIFICATION Spec
INVARIANTS
  CancellationReaches
  AnswersJustified
PROPERTIES
  OpenCircuitSilent
