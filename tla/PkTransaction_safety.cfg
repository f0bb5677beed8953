SPECIFICATION SafetySpec
CONSTANTS
  MaxItems = 2
  DaemonForms = {"data", "batch", "bad", "mistyped"}
  DaemonExits = {"success", "beyondEnum"}
  Faults = {"refuse", "expire", "timeout", "crash"}
  Callers = {"result", "streams"}
  MaxCancels = 1
INVARIANTS
  TypeOK
  NoFalseSuccess
  CompleteOnSuccess
  StreamsEndAfterResult
  BridgeCallsAreLive
  SyntheticExitIsExplained
  OrderedDelivery
PROPERTIES
  ImplementsContract
CHECK_DEADLOCK FALSE
