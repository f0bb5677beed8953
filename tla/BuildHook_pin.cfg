SPECIFICATION Spec
CONSTANTS
  MaxRuns = 3
  Interrupts = {}
INVARIANT
  BuildsThePinnedCommit
CHECK_DEADLOCK FALSE
