SPECIFICATION SafetySpec
CONSTANTS
  MaxEvents = 1
  Installed = {FALSE}
  VmMajors = {2}
  ApiMajor = 2
INVARIANTS
  ThrowsWithoutPackageKit
CHECK_DEADLOCK FALSE
