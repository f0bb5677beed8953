SPECIFICATION Spec
CONSTANTS
  Ids = {a, b}
  Infos = {"installing", "updating", "removing", "reinstalling", "downgrading", "obsoleting", "available"}
  Failures = {"failed", "decodeError", "unavailable"}
  MaxPackages = 3
INVARIANTS
  TypeOK
  PlanOfWholeSuccess
  PlanAccountsForAll
  RemovalsAreNotInstalled
PROPERTIES
  SimulationEnds
CHECK_DEADLOCK FALSE
