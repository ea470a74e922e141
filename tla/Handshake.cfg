SPECIFICATION FairSpec
CONSTANTS
  Segments = {"back"}
  GearOf <- MCGearOf
  Rolling = {}
  Stop = "halt"
  NoSegment = "no segment"
  VehicleMode = FALSE
  GearStable = 2
  SteerStable = 2
  Lag = 1
INVARIANTS MovesInGear
PROPERTIES ReleasedWhenReady HandshakeEnds
