SPECIFICATION Spec
CONSTANTS
  Device <- Devices
  Request <- Switches
  WarmUp = 1
INVARIANTS
  DisabledIsDefault
