SPECIFICATION Spec
CONSTANTS
  MaxItems = 1
  DaemonForms = {"data"}
  DaemonExits = {"success"}
  Faults = {}
  Callers = {"result"}
  MaxCancels = 0
PROPERTIES
  BridgeIsDropped
CHECK_DEADLOCK FALSE
