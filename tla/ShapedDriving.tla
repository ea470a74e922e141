--------------------------- MODULE ShapedDriving ---------------------------
(***************************************************************************)
(* Road planning under the constraint processor: the resolver sends         *)
(* constraints until it falls silent, the leader's place is heard now and   *)
(* then, and the planner hands any trajectory it may have planned to        *)
(* apply() and publishes what comes back.                                  *)
(***************************************************************************)
EXTENDS ConstraintProcessor

CONSTANTS
  Constraints,    \* what the resolver may send
  MaxPrefix,      \* most points taken over from the previous trajectory
  Behind,         \* where these may lie
  Step, Stations  \* distance and number of the points planned anew

ASSUME DrivingAssumption ==
  /\ {MaxPrefix, Step, Stations} \subseteq Nat \ {0}
  /\ Step > Tiny /\ Behind \subseteq Int /\ \A s \in Behind : s < -Eps
  /\ \A c \in Constraints : \/ c.role \in {"NONE", "PROCEED"}
                            \/ IsStop(c) /\ c.entry \in Int
                            \/ IsFollow(c) /\ c.peer \in Peers

VARIABLES
  resolver,    \* whether the resolver still sends
  planned,     \* the trajectory handed to apply(), << >> between two cycles
  taken,       \* how many of its points the stitcher took over
  driven,      \* what apply() made of it, the trajectory published
  source,      \* history: the peer whose place was heard last
  ordered      \* history: cycles since the present leader was first ordered

drivingVars == <<resolver, planned, taken, driven, source, ordered>>
vars == <<processorVars, drivingVars>>

-----------------------------------------------------------------------------
(* ComputeStitchingTrajectory, RefLinePlanner::implement: the stations of    *)
(* the new path follow the n points taken over. The last of those is the     *)
(* origin of places, the others lie at `back`.                             *)
Path(n, back) == [i \in 1..(n + Stations) |-> IF i < n THEN back[i] ELSE Step * (i - n)]

Forward(path) == \A i \in 2..Len(path) : path[i] > path[i - 1] + Eps

(* velocityPlanning gives all points a speed, those taken over too: from the *)
(* vehicle's own up to the cruise speed, or none from point `block` on, for  *)
(* an obstacle. A point without speed takes no time.                       *)
Planned(path, v, block) ==
  LET point(i) == [s |-> path[i], v |-> IF i < block THEN Least(MaxSpeed, v + i - 1) ELSE 0]
      time[i \in DOMAIN path] ==
        IF i = 1 THEN 0
        ELSE time[i - 1] + (IF point(i - 1).v = 0 THEN 0 ELSE Travel(point(i - 1), point(i)))
  IN  [i \in DOMAIN path |-> [s |-> point(i).s, v |-> point(i).v, t |-> time[i]]]

(* planning() on the reference line, with the trajectory `tr` planned        *)
Shaped(tr, n) ==
  /\ planned' = tr /\ taken' = n
  /\ \E cap \in FollowCaps : driven' = Apply(tr, n, cap)
  /\ UNCHANGED <<processorVars, resolver, source, ordered>>

Plan ==
  /\ planned = << >>
  /\ \E n \in 1..MaxPrefix : \E back \in [1..(n - 1) -> Behind],
        v \in 0..MaxSpeed, block \in {n + 1, n + Stations + 1} :
       /\ Forward(Path(n, back))
       /\ Shaped(Planned(Path(n, back), v, block), n)

(* The next cycle begins. *)
CycleEnds ==
  /\ Aged
  /\ planned' = << >> /\ driven' = << >> /\ taken' = 0
  /\ ordered' = Older(ordered, FollowGrace)
  /\ UNCHANGED <<resolver, source>>

Hear(c) ==
  /\ resolver /\ planned = << >>
  /\ UpdateConstraint(c)
  /\ ordered' = IF IsFollow(c) /\ IsFollow(latest) /\ latest.peer = c.peer THEN ordered ELSE 0
  /\ UNCHANGED <<resolver, planned, taken, driven, source>>

HearPeer(p) ==
  /\ planned = << >>
  /\ OnPeerPlace(p)
  /\ source' = p
  /\ UNCHANGED <<resolver, planned, taken, driven, ordered>>

ResolverDies ==
  /\ resolver /\ resolver' = FALSE
  /\ UNCHANGED <<processorVars, planned, taken, driven, source, ordered>>

Init ==
  /\ ProcessorInit
  /\ resolver = TRUE
  /\ planned = << >> /\ driven = << >> /\ taken = 0
  /\ source = NoPeer /\ ordered = 0

Next ==
  \/ Plan
  \/ CycleEnds
  \/ \E c \in Constraints : Hear(c)
  \/ \E p \in Peers : HearPeer(p)
  \/ ResolverDies

(* The planner's timer. *)
Spec == Init /\ [][Next]_vars /\ WF_vars(CycleEnds)

-----------------------------------------------------------------------------
Suffix == (taken + 1)..Len(driven)

(* The processor's memory is well formed. What is published keeps the part   *)
(* taken over and never turns back; where a stop is obeyed, times increase   *)
(* and no two points are duplicates, which the controller's interpolation    *)
(* cannot bear (validateTrajectoryForController).                          *)
TypeOK ==
  /\ latest \in Constraints \cup {[role |-> "none"]}
  /\ age \in 0..(Timeout + 1) /\ followAge \in 0..(FollowGrace + 1)
  /\ heard \in 0..Unheard
  /\ {follow, subscribed, source} \subseteq Peers \cup {NoPeer}
  /\ \A i \in DOMAIN driven : driven[i].v \in 0..MaxSpeed
  /\ \A i \in 1..taken : driven[i].s = planned[i].s /\ driven[i].v = planned[i].v
  /\ \A i \in 2..Len(driven) : driven[i].s > driven[i - 1].s
  /\ IsStop(latest) /\ ~Expired /\ driven # planned =>
       /\ \A i \in 2..Len(driven) : driven[i].t > driven[i - 1].t
       /\ \A i \in Suffix : driven[i].s > driven[i - 1].s + Eps

(* A line right behind a point of the path cannot be made a stop point: the  *)
(* two would be duplicates.                                                *)
Duplicate(line) == \E i \in (taken + 1)..Len(planned) : line - planned[i].s \in 1..Eps

(* Under an order to stop that has not expired nothing planned anew moves at *)
(* or behind the entry, or where the vehicle can stop if that is farther,    *)
(* whether the entry lies on the trajectory, behind or beyond it. Only when  *)
(* neither the line nor the emergency stop can be made a stop point is the   *)
(* original driven (apply(), the last branch).                             *)
StopIsFinal ==
  driven # << >> /\ IsStop(latest) /\ ~Expired =>
    LET start == planned[taken]
        line == StopLine(planned, taken)
        final == Most(latest.entry, start.s + Tiny + (start.v * start.v) \div Brake)
    IN  \/ \A i \in Suffix : driven[i].s >= final => driven[i].v = 0
        \/ Duplicate(line) /\ Duplicate(EmergencyLine(start, line))

(* Shaping only slows down: a constraint never takes back what the planner   *)
(* slowed down for, such as an obstacle (applyVelocityConstraintAction).     *)
NeverFaster ==
  \A i \in Suffix, j \in DOMAIN planned :
    driven[i].s = planned[j].s => driven[i].v <= planned[j].v

(* A vehicle ordered to follow moves on, beyond the time of grace since its  *)
(* leader was first ordered, only by a recent place of that leader: not by   *)
(* another vehicle's place, and no matter how often the order is repeated.   *)
BlindFollower ==
  IsFollow(latest) /\ ~Expired /\ ordered > FollowGrace
    /\ (\E i \in Suffix : driven[i].v > 0) => PlaceFresh /\ source = latest.peer

(* A resolver that falls silent in the middle of an order holds the vehicle  *)
(* up for good neither by a stop nor by a follow: in the end every planned   *)
(* point is driven, no slower than the speed of a timeout allows.           *)
SilentResolver ==
  ~resolver ~> [](driven # << >> /\ latest.role # "none" =>
                    \A j \in DOMAIN planned : \E i \in DOMAIN driven :
                      /\ driven[i].s = planned[j].s
                      /\ driven[i].v >= Least(planned[j].v, TimeoutSpeed))
=============================================================================
