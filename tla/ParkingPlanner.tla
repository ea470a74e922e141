---------------------------- MODULE ParkingPlanner ----------------------------
(***************************************************************************)
(* The parking state machine of the planner: OpenSpacePlanner::implement,   *)
(* called by planning_node.cpp every 100 ms, and the callbacks of its node, *)
(* which has one thread.  A search may take seconds; nothing else of the    *)
(* node runs meanwhile, but the vehicle and its controller go on.           *)
(*                                                                         *)
(* What a cycle sees of the vehicle and of the map comes as the record in:  *)
(* mapOk, free (the trajectory looked at is free on the map), moving,       *)
(* atGoal and atEnd (standing within the tolerances of the goal, of the end *)
(* of the committed segment).                                               *)
(***************************************************************************)
EXTENDS Naturals

CONSTANTS
  Trajectories,   \* names of the motion segments that are published
  Stop,           \* the emergency stop trajectory
  NoTrajectory,
  MaxSegments     \* most segments of one search result

ASSUME PlannerAssumption ==
  /\ Stop \notin Trajectories /\ NoTrajectory \notin Trajectories /\ Stop # NoTrajectory
  /\ MaxSegments \in Nat \ {0}

VARIABLES
  liom,         \* liom_enabled_: a parameter, read at the start
  phase,        \* parking_state_
  committed,    \* committed_segment_, NoTrajectory when there is none
  cached,       \* how many cached_segments_ are left
  feedback,     \* trajectory that latest_execution_status_ is about, if there is one
  goalSet,      \* openSpaceGoalSet
  mapReceived,  \* openSpaceMapReceived
  searching,    \* implement() is in its search
  trajectory,   \* published on trajectory, not yet taken
  resetSent,    \* the same on open_space_task_reset
  goalSent      \* the same on open_space_goal_reached

task == <<liom, goalSet, mapReceived>>
published == <<trajectory, resetSent, goalSent>>
plannerVars == <<phase, committed, cached, feedback, task, searching, published>>

Phases == {"WAITING_FOR_INPUT", "PLANNING", "TRACKING_COMMITTED_SEGMENT", "STOP_AT_CUSP",
           "EMERGENCY_BRAKING", "REPLAN_AFTER_SEGMENT_END_MISS", "GOAL_REACHED"}

PlannerInit ==
  /\ liom \in BOOLEAN
  /\ phase = "WAITING_FOR_INPUT" /\ committed = NoTrajectory /\ cached = 0
  /\ feedback = NoTrajectory
  /\ goalSet = FALSE /\ mapReceived = FALSE /\ searching = FALSE
  /\ trajectory = NoTrajectory /\ resetSent = FALSE /\ goalSent = FALSE

-----------------------------------------------------------------------------
(* commitNextCachedSegment, with n segments left after it; the planning node *)
(* publishes what implement() leaves behind.                                *)
Commit(t, n) ==
  /\ committed' = t /\ cached' = n
  /\ feedback' = NoTrajectory
  /\ phase' = "TRACKING_COMMITTED_SEGMENT"
  /\ trajectory' = t
  /\ UNCHANGED <<resetSent, goalSent>>

(* Mutant: the stop trajectory is made but not published. *)
EmergencySilent ==
  /\ committed' = NoTrajectory /\ cached' = 0
  /\ feedback' = NoTrajectory
  /\ phase' = "EMERGENCY_BRAKING"
  /\ UNCHANGED published

(* beginEmergencyBraking *)
Emergency ==
  /\ committed' = NoTrajectory /\ cached' = 0
  /\ feedback' = NoTrajectory
  /\ phase' = "EMERGENCY_BRAKING"
  /\ trajectory' = Stop
  /\ UNCHANGED <<resetSent, goalSent>>

(* Mutant: the segments cached behind the abandoned one are kept. *)
AbandonHeadOnly(next) ==
  /\ committed' = NoTrajectory
  /\ phase' = next
  /\ UNCHANGED <<cached, trajectory>>

Abandon(next) ==
  /\ committed' = NoTrajectory /\ cached' = 0
  /\ phase' = next
  /\ UNCHANGED trajectory

(* setParkingState publishes once on entering GOAL_REACHED. *)
ReachGoal ==
  /\ Abandon("GOAL_REACHED")
  /\ goalSent' = TRUE /\ UNCHANGED resetSent

-----------------------------------------------------------------------------
(***************************************************************************)
(* implement().  The goal changes in callBackGoal only, which has reset the *)
(* planner before; isGoalChanged never holds.                               *)
(***************************************************************************)
Missed == feedback # NoTrajectory

(* Mutant: a controller that has run out of its segment is not listened to. *)
TrackByPoseOnly(in) ==
  /\ phase = "TRACKING_COMMITTED_SEGMENT"
  /\ UNCHANGED <<task, searching>>
  /\ \/ /\ ~(in.mapOk /\ in.free)
        /\ Emergency
     \/ /\ in.mapOk /\ in.free /\ in.atGoal
        /\ ReachGoal /\ feedback' = NoTrajectory
     \/ /\ in.mapOk /\ in.free /\ ~in.atGoal /\ in.atEnd
        /\ phase' = "STOP_AT_CUSP" /\ feedback' = NoTrajectory
        /\ UNCHANGED <<committed, cached, published>>

(* Mutant: the controller's report is taken for an arrival. *)
TrackByReport(in) ==
  /\ phase = "TRACKING_COMMITTED_SEGMENT"
  /\ UNCHANGED <<task, searching>>
  /\ \/ /\ ~(in.mapOk /\ in.free)
        /\ Emergency
     \/ /\ in.mapOk /\ in.free /\ in.atGoal
        /\ ReachGoal /\ feedback' = NoTrajectory
     \/ /\ in.mapOk /\ in.free /\ ~in.atGoal /\ (in.atEnd \/ Missed)
        /\ phase' = "STOP_AT_CUSP" /\ feedback' = NoTrajectory
        /\ UNCHANGED <<committed, cached, published>>

Track(in) ==
  /\ phase = "TRACKING_COMMITTED_SEGMENT"
  /\ UNCHANGED <<task, searching>>
  /\ \/ /\ ~(in.mapOk /\ in.free)
        /\ Emergency
     \/ /\ in.mapOk /\ in.free /\ in.atGoal
        /\ ReachGoal /\ feedback' = NoTrajectory
     \/ /\ in.mapOk /\ in.free /\ ~in.atGoal /\ in.atEnd
        /\ phase' = "STOP_AT_CUSP" /\ feedback' = NoTrajectory
        /\ UNCHANGED <<committed, cached, published>>
     \/ /\ in.mapOk /\ in.free /\ ~in.atGoal /\ ~in.atEnd /\ Missed
        /\ phase' = "REPLAN_AFTER_SEGMENT_END_MISS" /\ feedback' = NoTrajectory
        /\ UNCHANGED <<committed, cached, published>>

ReplanAfterMiss ==
  /\ phase = "REPLAN_AFTER_SEGMENT_END_MISS"
  /\ Abandon("PLANNING") /\ feedback' = NoTrajectory
  /\ UNCHANGED <<task, searching, resetSent, goalSent>>

(* The next cached segment is committed if the map allows it. *)
LeaveCusp(in, t) ==
  /\ phase = "STOP_AT_CUSP"
  /\ \/ /\ cached > 0 /\ in.mapOk /\ in.free
        /\ Commit(t, cached - 1)
     \/ /\ cached = 0 \/ (in.mapOk /\ ~in.free)
        /\ Abandon("PLANNING")
        /\ UNCHANGED <<feedback, resetSent, goalSent>>
  /\ UNCHANGED <<task, searching>>

(* Planning, at once after an emergency stop has ended. *)
MayPlan(in) ==
  \/ phase \in {"WAITING_FOR_INPUT", "PLANNING"}
  \/ phase = "EMERGENCY_BRAKING" /\ ~in.moving

AlreadyThere(in) ==
  /\ MayPlan(in) /\ in.atGoal
  /\ ReachGoal
  /\ UNCHANGED <<feedback, task, searching>>

WaitForStandstill(in) ==
  /\ MayPlan(in) /\ ~in.atGoal
  /\ liom /\ in.moving
  /\ Emergency
  /\ UNCHANGED <<task, searching>>

BeginSearch(in) ==
  /\ MayPlan(in) /\ ~in.atGoal
  /\ ~(liom /\ in.moving)
  /\ phase' = "PLANNING"
  /\ searching' = in.mapOk
  /\ UNCHANGED <<committed, cached, feedback, task, published>>

Cycle(in, t) ==
  /\ goalSet /\ mapReceived /\ ~searching
  /\ \/ Track(in) \/ ReplanAfterMiss \/ LeaveCusp(in, t)
     \/ AlreadyThere(in) \/ WaitForStandstill(in) \/ BeginSearch(in)

(* The search fails, finds n segments, or LIOM refuses what it found.       *)
SearchFails ==
  /\ searching /\ searching' = FALSE
  /\ UNCHANGED <<phase, committed, cached, feedback, task, published>>

SearchFinds(t, n) ==
  /\ searching /\ searching' = FALSE
  /\ Commit(t, n - 1)
  /\ UNCHANGED task

LiomRefuses ==
  /\ searching /\ searching' = FALSE
  /\ liom
  /\ Emergency
  /\ UNCHANGED task

-----------------------------------------------------------------------------
(* Callbacks; they wait while a search runs. *)

(* executionStatusCallback *)
OnStatus(t) ==
  /\ ~searching
  /\ feedback' = IF phase = "TRACKING_COMMITTED_SEGMENT" THEN t ELSE feedback
  /\ UNCHANGED <<phase, committed, cached, task, searching, published>>

(* Mutant: the committed segment is kept for the next task. *)
ResetTaskKeeps ==
  /\ ~searching
  /\ phase' = "WAITING_FOR_INPUT" /\ cached' = 0 /\ feedback' = NoTrajectory
  /\ resetSent' = TRUE
  /\ UNCHANGED <<committed, trajectory, searching, goalSent>>

(* resetOpenSpaceTask, for a new goal or a new start *)
ResetTask ==
  /\ ~searching
  /\ Abandon("WAITING_FOR_INPUT") /\ feedback' = NoTrajectory
  /\ resetSent' = TRUE
  /\ UNCHANGED <<searching, goalSent>>

OnGoal ==
  /\ ResetTask
  /\ goalSet' = TRUE /\ UNCHANGED <<liom, mapReceived>>

OnInitialPose ==
  /\ ResetTask
  /\ goalSet' = FALSE /\ mapReceived' = FALSE /\ UNCHANGED liom

OnMap ==
  /\ ~searching
  /\ mapReceived' = TRUE
  /\ UNCHANGED <<phase, committed, cached, feedback, liom, goalSet, searching, published>>

(* The planner has a committed segment exactly while it tracks it, stands at *)
(* its end or has missed that end; it keeps cached segments and feedback    *)
(* for no other, and searches with none.                                    *)
PlannerTypeOK ==
  /\ liom \in BOOLEAN
  /\ phase \in Phases
  /\ committed \in Trajectories \cup {NoTrajectory}
  /\ cached \in 0..(MaxSegments - 1)
  /\ feedback \in Trajectories \cup {Stop, NoTrajectory}
  /\ goalSet \in BOOLEAN /\ mapReceived \in BOOLEAN /\ searching \in BOOLEAN
  /\ trajectory \in Trajectories \cup {Stop, NoTrajectory}
  /\ resetSent \in BOOLEAN /\ goalSent \in BOOLEAN
  /\ committed # NoTrajectory <=>
       phase \in {"TRACKING_COMMITTED_SEGMENT", "STOP_AT_CUSP", "REPLAN_AFTER_SEGMENT_END_MISS"}
  /\ cached > 0 => committed # NoTrajectory
  /\ feedback # NoTrajectory => phase = "TRACKING_COMMITTED_SEGMENT"
  /\ searching => phase = "PLANNING" /\ goalSet /\ mapReceived
===============================================================================
