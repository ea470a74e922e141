------------------------- MODULE ConstraintProcessor -------------------------
(***************************************************************************)
(* The planner's side of conflict resolution, conflict_constraint_          *)
(* processor.cpp: how the last constraint and what is known of the leader   *)
(* change the speeds of the trajectory that is executed.                    *)
(*                                                                         *)
(* A trajectory is a sequence of points with place s, speed v and time t    *)
(* (relative_time); places are counted along the route from its start, not  *)
(* from the stitching point.  Its first n points are the stitched prefix,   *)
(* taken over from the previous trajectory, whose speeds stay as planned.   *)
(***************************************************************************)
EXTENDS Integers, Sequences, FiniteSetsExt

CONSTANTS
  Peers, NoPeer,
  Eps,              \* two points no further apart are duplicates
  Tiny,             \* the least distance of a stop point from the prefix
  MaxSpeed,
  Cycle,            \* conflict_planning_cycle_time, in units of time
  Brake,            \* twice conflict_deceleration_limit
  EmergencyBrake,   \* twice conflict_emergency_stop_deceleration
  StopMargin,       \* conflict_stop_margin + conflict_stop_buffer
  Tolerance,        \* how far off the ends of a trajectory an entry counts
  TailLength,       \* kStoppedTailLength
  StopHorizon,      \* kMinStopTimeHorizon
  Timeout,          \* conflict_constraint_timeout, in planning cycles
  TimeoutSpeed,     \* conflict_timeout_max_speed
  FollowFresh,      \* conflict_follow_state_timeout, in planning cycles
  FollowGrace       \* conflict_follow_activation_grace_time, likewise

ASSUME ProcessorAssumption ==
  /\ NoPeer \notin Peers
  /\ {Eps, Tiny, MaxSpeed, Cycle, Brake, EmergencyBrake, StopMargin, Tolerance,
      TailLength, StopHorizon, Timeout, TimeoutSpeed, FollowFresh, FollowGrace} \subseteq Nat
  /\ Eps < Tiny /\ Cycle > 0 /\ Brake > 0 /\ EmergencyBrake > 0

Least(a, b) == IF a < b THEN a ELSE b
Most(a, b) == IF a < b THEN b ELSE a

-----------------------------------------------------------------------------
(***************************************************************************)
(* Trajectories                                                            *)
(***************************************************************************)
End(tr) == tr[Len(tr)]

(* The first point the processor may change: the one behind the prefix. *)
MutableFrom(tr, n) == Least(n + 1, Len(tr))

(* The largest speed from which a vehicle stops within d. *)
StopLimit(decel, d) == Max({v \in 0..MaxSpeed : v * v <= decel * d})

(* Time from one point to the next at their mean speed. *)
Travel(p, q) == Most(1, (2 * (q.s - p.s)) \div Most(1, p.v + q.v))

Retimed(tr, time) == [i \in DOMAIN tr |-> [tr[i] EXCEPT !.t = time[i]]]

(* recomputeTimingFrom: behind the prefix times follow from the speeds, but  *)
(* a point of a stopped tail comes one cycle after the point before it.      *)
RecomputeTiming(tr, n) ==
  LET step(p, q) == IF q.s - p.s <= Tiny \/ p.v + q.v = 0 THEN Cycle ELSE Travel(p, q)
      time[i \in DOMAIN tr] == IF i <= n THEN tr[i].t ELSE time[i - 1] + step(tr[i - 1], tr[i])
  IN  Retimed(tr, time)

(* enforceStrictlyIncreasingRelativeTime *)
Increasing(tr) ==
  LET time[i \in DOMAIN tr] == IF i = 1 THEN tr[1].t ELSE Most(time[i - 1] + 1, tr[i].t)
  IN  Retimed(tr, time)

(* validateTrajectoryForController: what it may find in a finite trajectory  *)
(* whose times increase. Mutant: only points that turn back are rejected.   *)
ValidIfForward(tr, from) ==
  Len(tr) >= 2 /\ \A i \in Most(from, 2)..Len(tr) : tr[i].s >= tr[i - 1].s
ValidForController(tr, from) ==
  Len(tr) >= 2 /\ \A i \in Most(from, 2)..Len(tr) : tr[i].s - tr[i - 1].s > Eps

(* truncateTrajectoryAtStopS: a stop point at the line and the path behind   *)
(* it, for TailLength, without speed. The stop point is inserted before the  *)
(* first point behind the line, or replaces it if the two are duplicates.    *)
TruncateAtStop(tr, n, line) ==
  IF n + 1 > Len(tr) \/ line >= End(tr).s THEN tr
  ELSE LET k == Min({i \in (n + 1)..Len(tr) : tr[i].s >= line})
           shift == IF tr[k].s > line + Eps THEN 1 ELSE 0
           last == Max({k - shift} \cup {i \in k..Len(tr) : tr[i].s <= line + TailLength})
       IN  [i \in 1..(last + shift) |->
              IF i < k THEN tr[i]
              ELSE IF i = k THEN [s |-> line, v |-> 0, t |-> tr[k].t]
              ELSE [tr[i - shift] EXCEPT !.v = 0]]

(* extendStopPointTimeHorizon: the vehicle stands at the last point. *)
ExtendStopTime(tr, n) ==
  IF n + 1 > Len(tr) THEN tr
  ELSE LET start == tr[n]
           braking == Most(1, (2 * (End(tr).s - start.s)) \div Most(1, start.v))
           until == start.t + (IF Len(tr) <= n + 1 /\ start.v > 0 THEN braking ELSE StopHorizon)
       IN  [tr EXCEPT ![Len(tr)] = [s |-> End(tr).s, v |-> 0, t |-> Most(End(tr).t, until)]]

Stopping(tr, n, line) ==
  Increasing(ExtendStopTime(RecomputeTiming(TruncateAtStop(tr, n, line), n), n))

-----------------------------------------------------------------------------
(* applyVelocityConstraintAction with a cap *)
CapSpeed(tr, n, cap) ==
  [i \in DOMAIN tr |->
     IF i < MutableFrom(tr, n) THEN tr[i] ELSE [tr[i] EXCEPT !.v = Least(@, cap)]]

(* applyVelocityConstraintAction with a stop line: never faster than a       *)
(* linear ramp from the end of the prefix, than braking allows, nor than at  *)
(* the point before.                                                       *)
Ramp(anchor, line, s) ==
  LET room == Most(1, line - anchor.s)
  IN  (anchor.v * (room - Least(room, Most(0, s - anchor.s)))) \div room
(* Mutant: the planned speed itself is no limit. *)
StopLimitOfLine(p, anchor, line) ==
  IF p.s >= line THEN 0 ELSE Least(Ramp(anchor, line, p.s), StopLimit(Brake, line - p.s))
StopLimitAt(p, anchor, line) ==
  IF p.s >= line THEN 0
  ELSE Min({p.v, Ramp(anchor, line, p.s), StopLimit(Brake, line - p.s)})
StopSpeed(tr, n, line) ==
  LET from == MutableFrom(tr, n)
      anchor == tr[Most(1, from - 1)]
  IN  [i \in DOMAIN tr |->
         IF i < from THEN tr[i]
         ELSE [tr[i] EXCEPT !.v =
                 Min({anchor.v} \cup {StopLimitAt(tr[j], anchor, line) : j \in from..i})]]

(* Where buildEmergencyStopFallback stops: as soon as it can, but never      *)
(* behind the line.                                                        *)
EmergencyLine(start, line) ==
  start.s + Most(Tiny, Least(line - start.s, (start.v * start.v) \div EmergencyBrake))

(* buildEmergencyStopFallback, of a trajectory that is not empty *)
EmergencyStop(tr, n, line) ==
  LET stop == EmergencyLine(tr[n], line)
      slowed == [i \in DOMAIN tr |->
                   IF i < MutableFrom(tr, n) THEN tr[i]
                   ELSE [tr[i] EXCEPT !.v = IF tr[i].s >= stop THEN 0
                                            ELSE Least(@, StopLimit(EmergencyBrake, stop - tr[i].s))]]
  IN  Stopping(slowed, n, stop)

(* The three attempts that each strategy makes in turn. *)
FirstValid(shaped, emergency, original, n) ==
  IF ValidForController(shaped, MutableFrom(shaped, n)) THEN shaped
  ELSE IF ValidForController(emergency, MutableFrom(emergency, n)) THEN emergency ELSE original

-----------------------------------------------------------------------------
(***************************************************************************)
(* What the processor remembers, and apply()                               *)
(***************************************************************************)
VARIABLES
  latest,       \* latest_constraint_, [role |-> "none"] before the first
  age,          \* cycles since its stamp
  follow,       \* active_follow_peer_id_, NoPeer without an active follow
  followAge,    \* cycles since follow_activation_start_
  subscribed,   \* subscribed_follow_peer_id_
  heard         \* cycles since follow_peer_state_ got a place of that peer

processorVars == <<latest, age, follow, followAge, subscribed, heard>>

Unheard == FollowFresh + 1

Older(n, bound) == Least(n + 1, bound + 1)

ProcessorInit ==
  /\ latest = [role |-> "none"] /\ age = 0
  /\ follow = NoPeer /\ followAge = 0
  /\ subscribed = NoPeer
  /\ heard = Unheard

IsFollow(c) == c.role = "YIELD" /\ c.strategy = "FOLLOW"
IsStop(c) == c.role = "YIELD" /\ c.strategy = "STOP_AND_WAIT"

(* ensureFollowPeerSubscriptions: what was heard of another leader is gone. *)
Subscribe(p) ==
  IF p = subscribed THEN UNCHANGED <<subscribed, heard>>
  ELSE subscribed' = p /\ heard' = Unheard

(* updateConstraint: the cycles since the order to follow this peer began.   *)
(* Mutant: every order to follow begins anew.                              *)
FollowAgeAnew(c) == 0
FollowAge(c) == IF IsFollow(c) /\ follow = c.peer THEN followAge ELSE 0
UpdateConstraint(c) ==
  /\ latest' = c /\ age' = 0
  /\ followAge' = FollowAge(c)
  /\ IF IsFollow(c) THEN Subscribe(c.peer) /\ follow' = c.peer
     ELSE follow' = NoPeer /\ UNCHANGED <<subscribed, heard>>

(* onFollowPeerLocalization *)
OnPeerPlace(p) ==
  /\ p = subscribed
  /\ heard' = 0
  /\ UNCHANGED <<latest, age, follow, followAge, subscribed>>

(* A planning cycle goes by. *)
Aged ==
  /\ age' = Older(age, Timeout)
  /\ followAge' = Older(followAge, FollowGrace)
  /\ heard' = Older(heard, FollowFresh)
  /\ UNCHANGED <<latest, follow, subscribed>>

-----------------------------------------------------------------------------
(* Mutant: a constraint holds until the next one comes. *)
NeverExpired == FALSE
Expired == age > Timeout

PlaceFresh == heard <= FollowFresh
Grace == follow # NoPeer /\ followAge <= FollowGrace

(* The caps FOLLOW may arrive at: the gap and both speeds are data, but      *)
(* without a place of the leader, heard or from the constraint, there is     *)
(* only standstill.                                                        *)
FollowCaps == IF PlaceFresh \/ Grace THEN 0..MaxSpeed ELSE {0}

(* projectPointToCurrentTrajectory, of the entry *)
OnPath(tr) == latest.entry >= tr[1].s - Tolerance /\ latest.entry <= End(tr).s + Tolerance

(* Where a stop is asked for: before the entry, if the entry is on this      *)
(* trajectory; where the vehicle can stop, if not.                         *)
(* Mutant: an entry that is not on the trajectory asks for nothing.         *)
AskedOnPath(tr, start) == IF OnPath(tr) THEN latest.entry - StopMargin ELSE End(tr).s
Asked(tr, start) ==
  IF OnPath(tr) THEN latest.entry - StopMargin ELSE start.s + (start.v * start.v) \div Brake
StopLine(tr, n) == Most(tr[n].s + Tiny, Asked(tr, tr[n]))

(* prepareConflictTrajectory: the prefix ends one cycle from now; what was    *)
(* planned between two of its points stays, if time goes by there at all.   *)
Prepare(tr, n) ==
  LET between(p, q) == IF q.t > p.t THEN q.t - p.t ELSE Travel(p, q)
      time[i \in 1..n] == IF i = n THEN Cycle ELSE time[i + 1] - between(tr[i], tr[i + 1])
  IN  Retimed(tr, [i \in DOMAIN tr |-> IF i <= n THEN time[i] ELSE tr[i].t])

Capped(tr, n, cap) == Increasing(RecomputeTiming(CapSpeed(tr, n, cap), n))

(* A trajectory that nothing limits keeps its times; under FOLLOW those of   *)
(* its prefix have been set already.  The last resort is what was planned.   *)
Shape(tr, n, cap, unchanged, planned) ==
  IF CapSpeed(tr, n, cap) = tr THEN unchanged
  ELSE FirstValid(Capped(tr, n, cap), EmergencyStop(tr, n, End(tr).s + TailLength), planned, n)

(* apply(), with the cap of FOLLOW. A message is never half-filled, so the   *)
(* checks for its parts have no effect.                                    *)
Apply(planned, n, cap) ==
  LET tr == Prepare(planned, n)
      line == StopLine(tr, n)
  IN  CASE latest.role = "none" \/ (~Expired /\ latest.role \in {"NONE", "PROCEED"}) -> planned
        [] latest.role # "none" /\ Expired -> Shape(tr, n, TimeoutSpeed, planned, planned)
        [] ~Expired /\ IsStop(latest) ->
             FirstValid(Stopping(StopSpeed(tr, n, line), n, line), EmergencyStop(tr, n, line), planned, n)
        [] ~Expired /\ IsFollow(latest) -> Shape(tr, n, cap, tr, planned)
=============================================================================
