SPECIFICATION FairSpec
CONSTANTS
  Trajectories <- MCTrajectories
  MinPoints = 2
  StopPoints = 2
  HaltPoints = 0
  Buttons = {"stop"}
PROPERTIES StopLasts StopParks GearReached ParksAtEnd
CHECK_DEADLOCK FALSE
