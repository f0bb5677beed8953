SPECIFICATION Spec
CONSTANTS
  MaxRuns = 3
  Interrupts = {"kill", "clean"}
INVARIANT
  TypeOK
PROPERTY
  AssetIsOfThisRun
  UnpinnedOnlyAfterAbandon
CHECK_DEADLOCK FALSE
