CONSTANTS
  Short = 5
  Long = 10
  Threshold = 1
  Stories <- MCStories
  Looks <- MCLooks
  Hinted = {0}
  MaxScenes = 2
  MaxReruns = 2
  MaxFailures = 1
SPECIFICATION Spec
CHECK_DEADLOCK FALSE
INVARIANT ImportClean
INVARIANT DerivedExact
INVARIANT DuplicatesJustified
