SPECIFICATION Spec
CONSTANTS
  p = p
  q = q
  NoPeer = NoPeer
  Peers = {p, q}
  Eps = 1
  Tiny = 2
  MaxSpeed = 3
  Cycle = 2
  Brake = 1
  EmergencyBrake = 2
  StopMargin = 3
  Tolerance = 3
  TailLength = 7
  StopHorizon = 10
  Timeout = 2
  TimeoutSpeed = 1
  FollowFresh = 1
  FollowGrace = 1
  Constraints <- MCConstraints
  MaxPrefix = 3
  Behind <- MCBehind
  Step = 3
  Stations = 4
INVARIANTS TypeOK StopIsFinal NeverFaster BlindFollower
PROPERTIES SilentResolver
