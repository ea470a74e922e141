--------------------------- MODULE ConflictResolver ---------------------------
(***************************************************************************)
(* ConflictResolverNode (conflict_resolver_node.cpp) in an open             *)
(* environment.  A resolver r hears the localization, chassis and candidate *)
(* topics of every vehicle, each in its own callback; its timer resolves    *)
(* all pairs it is responsible for from what it has heard so far and        *)
(* publishes the constraint of its vehicle (of every vehicle when it is the *)
(* central resolver).  Vehicles drive and replan as they please here: the   *)
(* properties of this module hold whatever the vehicles do.                 *)
(***************************************************************************)
EXTENDS Coordination

CONSTANTS
  Resolvers,    \* ego indices of the running resolvers, Central for ego_index < 0
  PlanLengths,  \* how far ahead a planner's candidate may reach
  PlanSpeeds,   \* PlanSpeeds[v]: the paces the planner of v may plan
  MaxLag,       \* bound: map points a topic may be behind the vehicle
  MaxStale      \* bound: records of resolvers that may be out of date

Central == 0

ASSUME ResolverAssumption ==
  /\ Resolvers \subseteq Nat
  /\ PlanLengths \subseteq Nat
  /\ PlanSpeeds \in [Vehicles -> SUBSET (0..MaxSpeed)]
  /\ MaxLag \in Nat \ {0}
  /\ MaxStale \in Nat

VARIABLES
  pos,      \* pos[v]: where vehicle v is on its route
  speed,    \* speed[v]: its measured speed
  cand,     \* cand[v]: the candidate its planner published last
  view,     \* view[r][v]: what resolver r has heard of v (vehicles_[v].agent)
  locks,    \* locks[r][p]: decision_locks_ of resolver r
  msg       \* msg[v]: last constraint published for v

vehicleVars == <<pos, speed, cand>>
vars == <<pos, speed, cand, view, locks, msg>>

-----------------------------------------------------------------------------
(***************************************************************************)
(* resolve()                                                               *)
(***************************************************************************)
MyPairs(r) == {p \in Pairs : r = Central \/ In(r, p)}

Ready(ag, r) == IF r = Central THEN \A v \in Vehicles : AgentReady(ag[v])
                ELSE r \in Vehicles /\ AgentReady(ag[r])

Before(q, p) == q[1] < p[1] \/ (q[1] = p[1] /\ q[2] < p[2])

(* Who already yields when pair p's turn comes in the double loop: the      *)
(* central resolver remembers it within a cycle, an ego one does not.       *)
AlreadyYielding(ag, r, lk) ==
  LET already[p \in MyPairs(r)] ==
        LET earlier == {PairStep(ag, q, lk[q], already[q]).decision :
                          q \in {z \in MyPairs(r) : Before(z, p)}}
        IN  IF r # Central THEN {} ELSE {d.yield : d \in {e \in earlier : IsActive(e)}}
  IN  already

Outcomes(ag, r, lk) ==
  LET already == AlreadyYielding(ag, r, lk)
  IN  [p \in MyPairs(r) |-> PairStep(ag, p, lk[p], already[p])]

-----------------------------------------------------------------------------
(***************************************************************************)
(* publishResult: a vehicle is told the first conflict of the result it    *)
(* takes part in; active conflicts come before held ones.                  *)
(***************************************************************************)
NoConstraint == [role |-> "NONE"]

FirstConflict(v, decisions) ==
  LET C == {d \in decisions : In(v, d.pair)}
      A == {d \in C : IsActive(d)}
      S == IF A # {} THEN A ELSE C
  IN  CHOOSE d \in S : \A e \in S : e = d \/ Before(d.pair, e.pair)

Constraint(v, d) ==
  LET yields == v = d.yield
  IN  [role |-> IF yields THEN "YIELD" ELSE "PROCEED",
       strategy |-> IF ~yields THEN "PROCEED"
                    ELSE IF d.type = "FOLLOWING_ONLY" THEN "FOLLOW"
                    ELSE "STOP_AND_WAIT",
       pair |-> d.pair,
       entry |-> d.sec[v].in,
       exit |-> d.sec[v].out]

ConstraintFor(v, decisions) ==
  IF \E d \in decisions : In(v, d.pair)
  THEN Constraint(v, FirstConflict(v, decisions)) ELSE NoConstraint

Publishes(r, v) == r = Central \/ r = v

NoLocks == [p \in Pairs |-> NoLock]

Tell(r, decisions) ==
  [v \in Vehicles |-> IF Publishes(r, v) THEN ConstraintFor(v, decisions) ELSE msg[v]]

(* The locks and the messages a cycle with the outcomes out leaves behind.  *)
Conclude(r, out) ==
  /\ locks' = [locks EXCEPT ![r] =
       [p \in Pairs |-> IF p \in MyPairs(r) THEN out[p].lock ELSE @[p]]]
  /\ msg' = Tell(r, {out[p].decision : p \in MyPairs(r)} \ {NoDecision})

(* onTimer: without the data it needs a resolver forgets its locks and      *)
(* publishes that there is no conflict.                                     *)
Timer(r) ==
  /\ \/ Ready(view[r], r) /\ Conclude(r, Outcomes(view[r], r, locks[r]))
     \/ /\ ~Ready(view[r], r)
        /\ locks' = [locks EXCEPT ![r] = NoLocks]
        /\ msg' = Tell(r, {})
  /\ UNCHANGED <<pos, speed, cand, view>>

-----------------------------------------------------------------------------
(***************************************************************************)
(* Callbacks: each copies the last message of one topic of one vehicle.    *)
(***************************************************************************)
OnLocalization(r, v) ==
  /\ view' = [view EXCEPT ![r][v].pos = pos[v]]
  /\ UNCHANGED <<pos, speed, cand, locks, msg>>

OnChassis(r, v) ==
  /\ view' = [view EXCEPT ![r][v].speed = speed[v]]
  /\ UNCHANGED <<pos, speed, cand, locks, msg>>

(* An empty candidate is ignored. *)
OnCandidate(r, v) ==
  /\ cand[v].start <= cand[v].end
  /\ view' = [view EXCEPT ![r][v].cand = cand[v]]
  /\ UNCHANGED <<pos, speed, cand, locks, msg>>

Hear(r) == \E v \in Vehicles :
             OnLocalization(r, v) \/ OnChassis(r, v) \/ OnCandidate(r, v)

-----------------------------------------------------------------------------
(***************************************************************************)
(* The vehicles.  Plan publishes a candidate that starts where the vehicle *)
(* is; Drive moves along the last candidate, never beyond its end.         *)
(***************************************************************************)
(* Bound: vehicles go on while at most MaxStale records are out of date. *)
Latest(v) == [pos |-> pos[v], speed |-> speed[v], cand |-> cand[v]]
UpToDate ==
  Cardinality({rv \in Resolvers \X Vehicles : view[rv[1]][rv[2]] # Latest(rv[2])}) <= MaxStale

(* Bound: no topic is more than MaxLag map points behind x. *)
WithinLag(v, x) ==
  /\ x - cand[v].start <= MaxLag
  /\ \A r \in Resolvers :
       /\ view[r][v].pos # Unknown => x - view[r][v].pos <= MaxLag
       /\ view[r][v].cand # NoCandidate => x - view[r][v].cand.start <= MaxLag

Plan(v) ==
  /\ UpToDate
  /\ \E len \in PlanLengths, w \in PlanSpeeds[v] :
       cand' = [cand EXCEPT ![v] =
                  [start |-> pos[v], end |-> Min({RouteEnd, pos[v] + len}), v |-> w]]
  /\ UNCHANGED <<pos, speed, view, locks, msg>>

Moves(v, s) ==
  /\ pos[v] + s <= cand[v].end
  /\ WithinLag(v, pos[v] + s) /\ UpToDate
  /\ pos' = [pos EXCEPT ![v] = @ + s]
  /\ speed' = [speed EXCEPT ![v] = s]
  /\ UNCHANGED <<cand, view, locks, msg>>

Drive(v) == \E s \in 0..MaxSpeed : Moves(v, s)

Init ==
  /\ pos = [v \in Vehicles |-> 0]
  /\ speed = [v \in Vehicles |-> 0]
  /\ cand = [v \in Vehicles |-> NoCandidate]
  /\ view = [r \in Resolvers |-> [v \in Vehicles |-> NoAgent]]
  /\ locks = [r \in Resolvers |-> NoLocks]
  /\ msg = [v \in Vehicles |-> NoConstraint]

Resolver(r) == Timer(r) \/ Hear(r)
Vehicle(v) == Plan(v) \/ Drive(v)

Next == (\E r \in Resolvers : Resolver(r)) \/ (\E v \in Vehicles : Vehicle(v))

Spec == Init /\ [][Next]_vars

-----------------------------------------------------------------------------
(***************************************************************************)
(* Properties                                                              *)
(***************************************************************************)
Constraints(v) ==
  {NoConstraint} \cup
  [role : {"YIELD", "PROCEED"}, strategy : {"PROCEED", "FOLLOW", "STOP_AND_WAIT"},
   pair : {p \in Pairs : In(v, p)}, entry : Pos, exit : Pos]

(* Every variable has its type; a STOP lock never carries a following      *)
(* conflict and a FOLLOWING lock never any other.                           *)
TypeOK ==
  /\ pos \in [Vehicles -> Pos]
  /\ speed \in [Vehicles -> 0..MaxSpeed]
  /\ cand \in [Vehicles -> Candidate]
  /\ view \in [Resolvers -> [Vehicles -> Agent]]
  /\ locks \in [Resolvers -> [Pairs -> UNION {Locks(p) : p \in Pairs}]]
  /\ \A r \in Resolvers, p \in Pairs : locks[r][p] \in Locks(p)
  /\ msg \in [Vehicles -> UNION {Constraints(v) : v \in Vehicles}]
  /\ \A v \in Vehicles : msg[v] \in Constraints(v)

Stopped(r, p) == locks[r][p].state = "STOP"
Following(r, p) == locks[r][p].state = "FOLLOWING"

(* An order is kept until the vehicle it lets go has left the tracked exit: *)
(* a STOP lock disappears, turns into following or changes its roles only   *)
(* in a cycle whose own view shows that vehicle past the exit.              *)
StopOrderHeld ==
  [][\A r \in Resolvers, p \in Pairs :
       Stopped(r, p) =>
         \/ /\ Stopped(r, p)'
            /\ locks'[r][p].proceed = locks[r][p].proceed
            /\ locks'[r][p].yield = locks[r][p].yield
         \/ Released(view[r], locks[r][p])]_vars

(* Lead and rear of a following pair are never swapped: while the pair      *)
(* stays in FOLLOWING, a detection that sees the rear vehicle ahead is      *)
(* overruled by the lock.                                                   *)
FollowRolesKept ==
  [][\A r \in Resolvers, p \in Pairs :
       Following(r, p) /\ Following(r, p)' =>
         locks'[r][p].proceed = locks[r][p].proceed]_vars

(* A lock orders the two vehicles, and a FOLLOWING lock that was not         *)
(* confirmed for following_release_count cycles is gone.                     *)
LocksSound ==
  \A r \in Resolvers, p \in Pairs :
    locks[r][p].state # "NONE" =>
      /\ locks[r][p].proceed # locks[r][p].yield
      /\ Following(r, p) => locks[r][p].miss < Max({1, ReleaseCount})

(* A pair never gets two strategies: whoever is told to follow is the rear  *)
(* of a FOLLOWING lock, and whoever is told to stop is the yielding vehicle *)
(* of a STOP lock, of the resolver that speaks to it.                        *)
OneStrategyPerPair ==
  \A r \in Resolvers, v \in Vehicles :
    Publishes(r, v) /\ msg[v].role = "YIELD" =>
      LET lock == locks[r][msg[v].pair]
      IN  /\ lock.state = IF msg[v].strategy = "FOLLOW" THEN "FOLLOWING" ELSE "STOP"
          /\ lock.yield = v

(* A vehicle a STOP lock of its own resolver makes yield is told to yield. *)
YieldIsPublished ==
  \A r \in Resolvers, v \in Vehicles, p \in Pairs :
    Publishes(r, v) /\ Stopped(r, p) /\ locks[r][p].yield = v => msg[v].role = "YIELD"
=============================================================================
