SPECIFICATION SafetySpec
CONSTANTS
  MaxItems = 1
  DaemonForms = {"data"}
  DaemonExits = {"failed"}
  Faults = {}
  Callers = {"streams"}
  MaxCancels = 0
INVARIANTS
  ErrorsAreCaught
CHECK_DEADLOCK FALSE
