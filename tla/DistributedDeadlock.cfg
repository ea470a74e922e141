SPECIFICATION FairSpec
CONSTANTS
  N = 2
  RouteEnd = 5
  MaxSpeed = 1
  Meet <- MCCrossingNear
  Horizon = 20
  Clearance = 6
  Decel = 1
  StopMargin = 1
  Classify = TRUE
  MinLength = 1
  FollowExtension = 1
  BackDistance = 1
  FollowMaxGap = 3
  LeadTie = 0
  ReleaseCount = 2
  EnableLock = TRUE
  ScoreTie = 20
  Resolvers = {1, 2}
  PlanLengths = {5}
  PlanSpeeds <- MCSamePace
  MaxLag = 1
  MaxStale = 0
  PlannerMargin = 3
  FollowEmergency = 1
  Priority <- MCPriority
  Weight <- MCWeight
PROPERTIES EveryoneArrives
