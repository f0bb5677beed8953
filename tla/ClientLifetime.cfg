SPECIFICATION LifetimeSpec
CONSTANTS
  MaxItems = 1
  DaemonForms = {"data"}
  DaemonExits = {"success"}
  Faults = {}
  Callers = {"streams"}
  MaxCancels = 1
PROPERTIES
  NoUseAfterClose
CHECK_DEADLOCK FALSE
