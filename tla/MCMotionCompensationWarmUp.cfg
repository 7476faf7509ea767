SPECIFICATION Spec
CONSTANTS
  Device <- Devices
  Request <- Changes
  WarmUp = 2
INVARIANTS
  ValidAfterWarmUp
