---------------------------- MODULE ConflictSystem ----------------------------
(***************************************************************************)
(* The closed loop of conflict resolution: every planner publishes its     *)
(* candidate, shapes the trajectory it executes by the constraint its      *)
(* resolver published last (ConflictConstraintProcessor::apply, called by   *)
(* planning_node.cpp), and the vehicle drives along the shaped trajectory.  *)
(* The resolvers are those of ConflictResolver; here vehicles obey them.   *)
(***************************************************************************)
EXTENDS ConflictResolver

CONSTANTS
  PlannerMargin,     \* conflict_stop_margin + conflict_stop_buffer
  FollowEmergency    \* conflict_follow_emergency_distance, between centres

ASSUME SystemAssumption ==
  /\ PlannerMargin \in Nat
  /\ FollowEmergency \in Nat

VARIABLES
  path,   \* path[v]: the last map point of the trajectory v executes
  seen,   \* seen[r]: vehicles that moved since resolver r decided last
  tick    \* tick[r]: parity of the decisions of r, so that each is a step

sysVars == <<pos, speed, cand, view, locks, msg, path, seen, tick>>

-----------------------------------------------------------------------------
(***************************************************************************)
(* apply(): where the trajectory shaped from candidate c under constraint  *)
(* m lets vehicle v, now at x, go at most.                                  *)
(***************************************************************************)

(* Mutants: a stop line at the entry itself; one that may be behind the    *)
(* vehicle.                                                                 *)
StopPointAtEntry(c, m) == Max({c.start, Project(c, m.entry)})
StopPointBehind(c, m) == Project(c, m.entry) - PlannerMargin

(* A stop line before the entry as projected on c, never behind the vehicle. *)
StopPoint(c, m) == Max({c.start, Project(c, m.entry) - PlannerMargin})

(* FOLLOW caps the speed by the live gap to the leader: nothing is left of *)
(* the trajectory once the gap is down to the emergency distance.          *)
FollowPoint(v, c, m) ==
  LET onFirst == v = m.pair[1]
      live == [u \in Vehicles |-> [Latest(u) EXCEPT !.cand = IF u = v THEN c ELSE @]]
      lead == ProjectPeer(live, m.pair, onFirst)
  IN  IF lead - c.start <= FollowEmergency THEN c.start ELSE c.end

Shaped(v, c, m) ==
  CASE m.role = "YIELD" /\ m.strategy = "STOP_AND_WAIT" -> Min({c.end, StopPoint(c, m)})
    [] m.role = "YIELD" /\ m.strategy = "FOLLOW" -> FollowPoint(v, c, m)
    [] OTHER -> c.end

-----------------------------------------------------------------------------
SysInit ==
  /\ Init
  /\ path = [v \in Vehicles |-> 0]
  /\ seen = [r \in Resolvers |-> {}]
  /\ tick = [r \in Resolvers |-> 0]

Free(v) == pos[v] < path[v]

(* Pace: between two decisions of a resolver every vehicle that may drive  *)
(* covers what its planner planned, one cycle of its planner at a time.     *)
Due(r) == \A v \in Vehicles : Free(v) => v \in seen[r]

Decide(r) ==
  /\ Due(r)
  /\ Timer(r)
  /\ seen' = [seen EXCEPT ![r] = {}]
  /\ tick' = [tick EXCEPT ![r] = 1 - @]
  /\ UNCHANGED path

HearPose(r, v) == OnLocalization(r, v) /\ UNCHANGED <<path, seen, tick>>
HearSpeed(r, v) == OnChassis(r, v) /\ UNCHANGED <<path, seen, tick>>
HearCandidate(r, v) == OnCandidate(r, v) /\ UNCHANGED <<path, seen, tick>>

(* One planning cycle: the candidate is published before it is shaped. *)
PlanAndShape(v) ==
  /\ Plan(v)
  /\ path' = [path EXCEPT ![v] = Shaped(v, cand'[v], msg[v])]
  /\ UNCHANGED <<seen, tick>>

Advance(v) ==
  /\ Free(v)
  /\ \A r \in Resolvers : v \notin seen[r]
  /\ path[v] = Shaped(v, cand[v], msg[v])
  /\ Moves(v, Min({cand[v].v, path[v] - pos[v]}))
  /\ seen' = [r \in Resolvers |-> seen[r] \cup {v}]
  /\ UNCHANGED <<path, tick>>

Halt(v) ==
  /\ ~Free(v)
  /\ Moves(v, 0)
  /\ UNCHANGED <<path, seen, tick>>

SysNext ==
  \/ \E r \in Resolvers :
       \/ Decide(r)
       \/ \E v \in Vehicles : HearPose(r, v) \/ HearSpeed(r, v) \/ HearCandidate(r, v)
  \/ \E v \in Vehicles : PlanAndShape(v) \/ Advance(v) \/ Halt(v)

SysSpec == SysInit /\ [][SysNext]_sysVars

(* Timers and callbacks keep running; a vehicle whose executed trajectory  *)
(* goes on drives on.                                                       *)
Fairness ==
  /\ \A r \in Resolvers :
       /\ <>[]Due(r) => []<><<Decide(r)>>_sysVars
       /\ \A v \in Vehicles :
            /\ WF_sysVars(HearPose(r, v))
            /\ WF_sysVars(HearSpeed(r, v))
            /\ WF_sysVars(HearCandidate(r, v))
  /\ \A v \in Vehicles :
       WF_sysVars(PlanAndShape(v)) /\ WF_sysVars(Advance(v)) /\ WF_sysVars(Halt(v))

FairSpec == SysSpec /\ Fairness

-----------------------------------------------------------------------------
(* Every variable has its type, and no trajectory that is executed ends     *)
(* behind its vehicle or beyond the route.                                  *)
SysTypeOK ==
  /\ TypeOK
  /\ path \in [Vehicles -> Pos] /\ \A v \in Vehicles : pos[v] <= path[v]
  /\ seen \in [Resolvers -> SUBSET Vehicles]
  /\ tick \in [Resolvers -> {0, 1}]

(* Two vehicles on their way never overlap: the yielding one is stopped    *)
(* before the footprints meet, the following one behind its leader.         *)
NoOverlap ==
  \A p \in Pairs :
    pos[p[1]] < RouteEnd /\ pos[p[2]] < RouteEnd =>
      LocatedAt(p, pos[p[1]], pos[p[2]]).angle = "none"

(* Every vehicle reaches the end of its route: whoever waits is let go. *)
EveryoneArrives == \A v \in Vehicles : <>(pos[v] = RouteEnd)
=============================================================================
