SPECIFICATION Spec
CONSTANTS
  MaxItems = 1
  DaemonForms = {"data", "bad", "mistyped"}
  DaemonExits = {"success", "failed"}
  Faults = {"refuse", "expire", "timeout"}
  Callers = {"result", "streams"}
  MaxCancels = 1
PROPERTIES
  KeepsContract
  DartThreadReturns
CHECK_DEADLOCK FALSE
