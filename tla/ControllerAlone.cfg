SPECIFICATION ControlSpec
CONSTANTS
  Segments = {"ahead", "back"}
  GearOf <- MCGearOf
  Rolling = {"back"}
  Stop = "halt"
  NoSegment = "no segment"
  VehicleMode = TRUE
  GearStable = 2
  SteerStable = 2
INVARIANTS PendingFits
PROPERTIES ExecutesLatestSegment
