SPECIFICATION FairTaskSpec
CONSTANTS
  Trajectories = {t1, t2, t3, t4}
  Stop = halt
  NoTrajectory = none
  MaxSegments = 3
  MaxTasks = 3
  MaxAlarms = 3
INVARIANTS PlannerTypeOK SegmentsAgree NoDrivingOn
PROPERTIES SegmentsInSequence ParkingCompletes
CHECK_DEADLOCK FALSE
