SPECIFICATION LiteFairSpec
CONSTANTS
  Segments = {"ahead", "back"}
  GearOf <- MCGearOf
  Rolling = {}
  Stop = "halt"
  NoSegment = "no segment"
  VehicleMode = FALSE
  GearStable = 2
  SteerStable = 1
  Lag = 1
PROPERTIES ReleasedInGear SilentControllerStops
CHECK_DEADLOCK FALSE
