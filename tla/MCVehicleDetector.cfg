\* Frames against updates and restarts.
CONSTANTS
  FrameIds = {"", "lidar", "map"}
  InputFrame = "lidar"
  Doubles = {0, 1, 2, 3}
  NaN = NaN
  IntRange = 4
  Sizes = {0, 1, 3, 5}
  Clouds <- MCClouds
  InitialParameters <- MCInitial
  Updates <- MCUpdates
SPECIFICATION DetectorSpec
INVARIANTS
  SettingsSound
  BoxesMatchDetections
  DetectionsFitSettings
