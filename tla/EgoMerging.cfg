SPECIFICATION Spec
CONSTANTS
  N = 2
  RouteEnd = 5
  MaxSpeed = 1
  Meet <- MCMerging
  Priority <- MCPriority
  Horizon = 20
  Clearance = 2
  Decel = 1
  StopMargin = 1
  Classify = TRUE
  MinLength = 1
  FollowExtension = 1
  BackDistance = 1
  FollowMaxGap = 3
  LeadTie = 0
  ReleaseCount = 2
  EnableLock = TRUE
  Weight <- MCWeight
  ScoreTie = 20
  Resolvers = {1}
  PlanLengths = {2}
  PlanSpeeds <- MCSamePace
  MaxLag = 1
  MaxStale = 1
PROPERTIES StopOrderHeld FollowRolesKept
INVARIANTS YieldIsPublished LocksSound OneStrategyPerPair
