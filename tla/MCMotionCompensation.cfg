SPECIFICATION Spec
CONSTANTS
  Device <- Devices
  Request <- AllRequests
  WarmUp = 0
INVARIANTS
  TypeOK
  RequestTakesEffect
  IdsNameRoles
PROPERTIES
  TrackerTakesOver
