SPECIFICATION FairSpec
CONSTANTS
  N = 2
  RouteEnd = 7
  MaxSpeed = 1
  Meet <- MCMergingFar
  Horizon = 20
  Clearance = 6
  Decel = 1
  StopMargin = 1
  Classify = TRUE
  MinLength = 1
  FollowExtension = 1
  BackDistance = 1
  FollowMaxGap = 3
  LeadTie = 0
  ReleaseCount = 2
  EnableLock = TRUE
  ScoreTie = 20
  Resolvers = {0}
  PlanLengths = {7}
  PlanSpeeds <- MCSamePace
  MaxLag = 1
  MaxStale = 0
  PlannerMargin = 3
  FollowEmergency = 1
  Priority <- MCPriority
  Weight <- MCWeight
INVARIANTS SysTypeOK NoOverlap
PROPERTIES EveryoneArrives
