SPECIFICATION Spec
CONSTANTS
  MaxItems = 1
  DaemonForms = {"data"}
  DaemonExits = {"success"}
  Faults = {"crash"}
  Callers = {"result"}
  MaxCancels = 0
PROPERTIES
  ResultCompletes
CHECK_DEADLOCK FALSE
