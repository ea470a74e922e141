-------------------------------- MODULE Route --------------------------------
(***************************************************************************)
(* The global route node, route.cpp: it plans a leg from each point of an   *)
(* assignment to the next, publishes one leg after the other as the vehicle  *)
(* reaches their ends and the operator confirms, and plans anew when a road   *)
(* is blocked, backwards to a crossing first.  A leg is where it starts and   *)
(* ends; whether the road network has a way, and over how many turns, is a    *)
(* choice.                                                                   *)
(***************************************************************************)
EXTENDS Integers, Sequences

CONSTANTS
  Tasks,      \* points an assignment or a click may name
  OffMap      \* those outside map_boundary

ASSUME RouteAssumption == Tasks \subseteq Nat \ {0} /\ OffMap \subseteq Tasks

ORIGIN == 0     \* init_point
VEHICLE == -1   \* the map node next to the vehicle when a road is blocked
BACK == -2      \* the end of a way backwards
STRAY == -3     \* coordinates read beside a vector
ROAD == -4      \* anywhere else
Points == Tasks \cup {ORIGIN, VEHICLE, BACK, STRAY}

Leg(from, to) == [from |-> from, to |-> to]
LegSet == [from : Points, to : Points]
NoLeg == Leg(ROAD, ROAD)

(* multiPointsPlan, when it succeeds: a leg between any two points in turn *)
Legs(points) == [i \in 1..(Len(points) - 1) |-> Leg(points[i], points[i + 1])]

VARIABLES
  node,       \* the state of the route node
  published   \* the leg on /route_result

routeVars == <<node, published>>

(* results: pubUtmResults.  last: lastMultiPoints.  points: multiPoints.       *)
(* pose: where the last odometry message put the vehicle.                     *)
RouteNode == [up : BOOLEAN, results : Seq(LegSet), pubIndex : {-1} \cup Nat, confirmed : BOOLEAN,
              last : Seq(Points), points : Seq(Points), pose : Points \cup {ROAD}]

RouteInit ==
  /\ node = [up |-> TRUE, results |-> <<>>, pubIndex |-> -1, confirmed |-> FALSE,
             last |-> <<>>, points |-> <<>>, pose |-> ORIGIN]
  /\ published = NoLeg

(* Where a value is read beside a vector the process may end. *)
Crash == node' = [node EXCEPT !.up = FALSE] /\ UNCHANGED published

(* hasActiveRouteSegment; pubIndex counts from 0 *)
Active(n) == n.pubIndex >= 0 /\ n.pubIndex < Len(n.results)
CurrentLeg(n) == n.results[n.pubIndex + 1]

(* distanceToCurrentRouteEnd() <= routeAdvanceDistanceThreshold *)
Near(n) == Active(n) /\ n.pose = CurrentLeg(n).to

Cleared(n) == [n EXCEPT !.pubIndex = -1, !.confirmed = FALSE, !.results = <<>>]

(* publishCurrentRouteSegment *)
Publish(n) == published' = IF Active(n) THEN CurrentLeg(n) ELSE published

-------------------------------------------------------------------------------
(* Mutant: the index may stay one past the last leg. *)
AdvancedPast(n) ==
  LET m == [n EXCEPT !.confirmed = FALSE, !.pubIndex = @ + 1]
  IN IF m.pubIndex > Len(m.results) THEN Cleared(m) ELSE m

(* tryAdvanceRouteSegment, once the end is near and the operator has confirmed *)
Advanced(n) ==
  LET m == [n EXCEPT !.confirmed = FALSE, !.pubIndex = @ + 1]
  IN IF m.pubIndex >= Len(m.results) THEN Cleared(m) ELSE m

TryAdvance(n) ==
  IF Near(n) /\ n.confirmed
  THEN node' = Advanced(n) /\ Publish(Advanced(n))
  ELSE /\ node' = [n EXCEPT !.confirmed = @ /\ Active(n)]
       /\ UNCHANGED published

First(n) == [n EXCEPT !.pubIndex = 0, !.confirmed = FALSE]

(* Mutant: the first leg is made current and not published. *)
FirstLegSilent(n) ==
  IF n.pubIndex < 0 /\ n.results # <<>>
  THEN node' = First(n) /\ UNCHANGED published
  ELSE TryAdvance(n)

(* callBackCurrentPose: the first message after a plan publishes its first leg *)
Follow(n) ==
  IF n.pubIndex < 0 /\ n.results # <<>>
  THEN node' = First(n) /\ Publish(First(n))
  ELSE TryAdvance(n)

OnPose(pose) ==
  /\ node.up
  /\ Follow([node EXCEPT !.pose = pose])

(* Mutant: what is confirmed too early is remembered. *)
ConfirmEarly(n) == TryAdvance([n EXCEPT !.confirmed = TRUE])

(* callbackNextRouteSegment *)
Confirm(n) == TryAdvance([n EXCEPT !.confirmed = Near(n)])

OnNextSegment == node.up /\ Confirm(node)

-------------------------------------------------------------------------------
(* checkMultiPointsOutOfBoundary *)
OutOfBoundary(points) == \E i \in DOMAIN points : points[i] \in OffMap

(* Mutant: the index of the route before is kept. *)
ForgetPoints(n) == [n EXCEPT !.results = <<>>, !.points = <<>>, !.last = <<>>]

(* What callBackMultiPointPlanning clears before it looks at the assignment. *)
Forget(n) == [Cleared(n) EXCEPT !.points = <<>>, !.last = <<>>]

(* callBackMultiPointPlanning.  The points of an assignment that could not be *)
(* planned stay in multiPoints.                                             *)
OnMultiPoint(tasks) ==
  /\ node.up
  /\ LET forgot == Forget(node)
         points == <<ORIGIN>> \o tasks
     IN \/ /\ tasks = <<>>
           /\ node' = forgot
        \/ /\ tasks # <<>>
           /\ node' = [forgot EXCEPT !.points = points]
        \/ /\ tasks # <<>> /\ ~OutOfBoundary(points)
           /\ node' = [forgot EXCEPT !.results = Legs(points), !.last = points]
  /\ UNCHANGED published

(* callBackinitialPose *)
OnInitialPose(point) ==
  /\ node.up
  /\ node' = [node EXCEPT !.points = Append(@, point)]
  /\ UNCHANGED published

(* callBackgoal plans from the first click to the last.  A goal that no other    *)
(* click precedes is left out: reservePlan reads a second point beside the     *)
(* vector, and anything may follow.                                          *)
OnGoal(point) ==
  LET points == Append(node.points, point)
      ended == [Cleared(node) EXCEPT !.points = <<>>, !.last = points]
  IN /\ node.up /\ node.points # <<>>
     /\ \/ /\ OutOfBoundary(points)
           /\ node' = [Cleared(node) EXCEPT !.points = points]
        \/ /\ ~OutOfBoundary(points)
           /\ \/ node' = ended
              \/ node' = [ended EXCEPT !.results = Legs(points)]
     /\ UNCHANGED published

-------------------------------------------------------------------------------
(* Mutant: the end of the current leg is taken for reached. *)
TargetsAhead(n) ==
  IF n.pubIndex = -1 THEN <<n.last[Len(n.last)]>>
  ELSE SubSeq(n.last, n.pubIndex + 3, Len(n.last))

(* What callbackReplan plans for: everything from the end of the current leg   *)
(* on, but only the last point when no leg has been published yet.           *)
Targets(n) ==
  IF n.pubIndex = -1 THEN <<n.last[Len(n.last)]>>
  ELSE SubSeq(n.last, n.pubIndex + 2, Len(n.last))

Replanned(n, results, last) == [Cleared(n) EXCEPT !.results = results, !.last = last]

(* A way back to a crossing, past it and on to all targets. *)
WayBack(targets) ==
  Replanned(node, <<Leg(VEHICLE, BACK)>> \o Legs(<<BACK>> \o targets),
            <<VEHICLE, BACK>> \o targets)

(* The first target lies on the way back, which then ends there; the leg that   *)
(* led to it goes.  lastMultiPoints takes the start of what is then the second  *)
(* leg, and reads it beside the vector when there is none.                    *)
OnTheWayBack(targets, second) ==
  Replanned(node, <<Leg(VEHICLE, targets[1])>> \o Legs(targets),
            <<VEHICLE, second>> \o targets)

(* callbackReplan.  No crossing, or no way from any: everything is given up     *)
(* but lastMultiPoints.  When every way takes turns the selection among them    *)
(* may find none and goes on with an empty result.                           *)
OnReplan ==
  /\ node.up
  /\ IF node.pubIndex = -1 /\ node.last = <<>> THEN Crash
     ELSE LET targets == Targets(node)
          IN \/ node' = Cleared(node) /\ UNCHANGED published
             \/ node' = WayBack(targets) /\ UNCHANGED published
             \/ /\ Len(targets) > 1
                /\ node' = OnTheWayBack(targets, targets[1]) /\ UNCHANGED published
             \/ /\ Len(targets) = 1
                /\ node' = OnTheWayBack(targets, STRAY) /\ UNCHANGED published
             \/ Crash
===============================================================================
