SPECIFICATION PoseSpec
CONSTANTS
  Device <- Devices
  Request <- Requests
  WarmUp = 0
  PlatformPose <- Poses
  HeadRotation <- Heads
  WorldFromDriver <- World
  Margin = 100
  Shoulder = 70
  Full = 255
PROPERTIES
  StillPlatformIsCancelled
