SPECIFICATION Spec
CONSTANTS
  MaxEvents = 4
  Installed = {TRUE, FALSE}
  VmMajors = {2, 3}
  ApiMajor = 2
INVARIANTS
  TypeOK
  PropertiesUnlessReadFailed
  HandlersAreLive
  NoEventMissed
PROPERTIES
  SilentAfterClose
  EveryEventArrives
  ConnectCompletes
CHECK_DEADLOCK FALSE
