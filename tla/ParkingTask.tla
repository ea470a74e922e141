----------------------------- MODULE ParkingTask ------------------------------
(***************************************************************************)
(* A parking task: the planner, the controller as SegmentExecution          *)
(* specifies it, and a vehicle that drives along the segment released,      *)
(* stops at its end and brakes when it is told to.  The three topics to the  *)
(* controller are taken in any order, and an end is reported at any moment.  *)
(***************************************************************************)
EXTENDS ParkingPlanner

CONSTANTS
  MaxTasks,     \* goals and start poses set by the operator
  MaxAlarms     \* times the map or the trajectory is bad, a search is refused, the
                \* end of a segment is missed, or its report is stale when heard

ASSUME TaskAssumption == MaxTasks \in Nat /\ MaxAlarms \in Nat

VARIABLES
  mode, segment,  \* the controller
  status,         \* trajectory whose end it reported, not yet taken by the planner
  moving,
  place,          \* where the vehicle stands: at the end of which segment, and how near
  toGoal,         \* segments that end at the present goal
  tasks, alarms

C == INSTANCE SegmentExecution WITH
       Segments <- Trajectories, Rolling <- {}, NoSegment <- NoTrajectory

control == <<mode, segment, status>>
vehicle == <<moving, place>>
counters == <<tasks, alarms>>
taskVars == <<plannerVars, control, vehicle, toGoal, counters>>

(* An arrival at the end of a segment may miss its tolerances, keep them, or  *)
(* keep those of the goal too.                                              *)
Fits == {"short", "end", "goal"}
Nowhere == [of |-> NoTrajectory, fit |-> "short"]

TaskInit ==
  /\ PlannerInit /\ C!ExecutionInit
  /\ status = NoTrajectory
  /\ moving = FALSE /\ place = Nowhere
  /\ toGoal = {}
  /\ tasks = 0 /\ alarms = 0

(* A name stands for a new trajectory once nothing refers to the old one.   *)
Fresh(t) == t \notin {segment, status, place.of}

-----------------------------------------------------------------------------
(* The planner.  Messages are taken within its period of 100 ms; those that *)
(* have arrived by the end of a search wait behind it.                      *)
Inputs(mapOk, free) ==
  [mapOk |-> mapOk, free |-> free, moving |-> moving,
   atGoal |-> ~moving /\ place.fit = "goal",
   atEnd |-> ~moving /\ place.of = committed /\ place.fit # "short"]

Quiet == trajectory = NoTrajectory /\ ~resetSent /\ ~goalSent

Bound(t) == toGoal' = (toGoal \cap {segment, committed'})
                      \cup (IF committed' = t /\ cached' = 0 THEN {t} ELSE {})

PlannerCycle(mapOk, free) ==
  /\ Quiet /\ status = NoTrajectory
  /\ \E t \in Trajectories :
       Fresh(t) /\ Cycle(Inputs(mapOk, free), t) /\ Bound(t)
  /\ alarms' = IF mapOk /\ free THEN alarms ELSE alarms + 1
  /\ alarms' <= MaxAlarms
  /\ UNCHANGED <<control, vehicle, tasks>>

SearchEnds(n) ==
  /\ \E t \in Trajectories : Fresh(t) /\ SearchFinds(t, n) /\ Bound(t)
  /\ UNCHANGED <<control, vehicle, counters>>

SearchIsVain ==
  /\ SearchFails
  /\ UNCHANGED <<control, vehicle, toGoal, counters>>

SearchIsRefused ==
  /\ LiomRefuses
  /\ alarms < MaxAlarms /\ alarms' = alarms + 1
  /\ UNCHANGED <<control, vehicle, toGoal, tasks>>

HearStatus ==
  /\ status # NoTrajectory
  /\ OnStatus(status)
  /\ status' = NoTrajectory
  /\ UNCHANGED <<mode, segment, vehicle, toGoal, counters>>

HearMap ==
  /\ ~mapReceived /\ OnMap
  /\ UNCHANGED <<control, vehicle, toGoal, counters>>

(* The operator; /initialpose also puts the vehicle where it says.          *)
SetGoal ==
  /\ tasks < MaxTasks /\ tasks' = tasks + 1
  /\ OnGoal
  /\ toGoal' = {}
  /\ \E fit \in {IF place.fit = "goal" THEN "end" ELSE place.fit, "goal"} :
       place' = [place EXCEPT !.fit = fit]
  /\ UNCHANGED <<control, moving, alarms>>

SetStart ==
  /\ tasks < MaxTasks /\ tasks' = tasks + 1
  /\ OnInitialPose
  /\ toGoal' = {}
  /\ moving' = FALSE /\ place' = Nowhere
  /\ UNCHANGED <<control, alarms>>

-----------------------------------------------------------------------------
(* The controller.  A reset may overtake the trajectory published before it. *)
TakeTrajectory ==
  /\ trajectory # NoTrajectory
  /\ C!Stage(trajectory)
  /\ trajectory' = NoTrajectory
  /\ UNCHANGED <<phase, committed, cached, feedback, task, searching, resetSent, goalSent,
                 status, vehicle, toGoal, counters>>

TakeReset ==
  /\ resetSent
  /\ C!Cleared
  /\ resetSent' = FALSE
  /\ UNCHANGED <<phase, committed, cached, feedback, task, searching, trajectory, goalSent,
                 status, vehicle, toGoal, counters>>

TakeGoal ==
  /\ goalSent
  /\ C!GoalTaken
  /\ goalSent' = FALSE
  /\ UNCHANGED <<phase, committed, cached, feedback, task, searching, trajectory, resetSent,
                 status, vehicle, toGoal, counters>>

ReleaseSegment ==
  /\ ~moving
  /\ C!Release
  /\ UNCHANGED <<plannerVars, status, vehicle, toGoal, counters>>

(* A report that crosses a search, or what was published after the segment it is *)
(* about, is heard too late.                                                *)
Crosses == searching \/ ~Quiet

ReportEnd ==
  /\ ~moving /\ (segment = Stop \/ place.of = segment)
  /\ C!EndReported
  /\ status' = segment
  /\ alarms' = IF Crosses THEN alarms + 1 ELSE alarms
  /\ alarms' <= MaxAlarms
  /\ UNCHANGED <<plannerVars, vehicle, toGoal, tasks>>

StraightenWheels ==
  /\ ~moving
  /\ C!Straightened
  /\ UNCHANGED <<plannerVars, status, vehicle, toGoal, counters>>

-----------------------------------------------------------------------------
(* The vehicle. *)
Driven == mode = "EXECUTING" /\ segment \in Trajectories

Drive ==
  /\ Driven /\ ~moving /\ place.of # segment
  /\ moving' = TRUE /\ place' = Nowhere
  /\ UNCHANGED <<plannerVars, control, toGoal, counters>>

Arrive(fit) ==
  /\ Driven /\ moving
  /\ fit = "goal" => segment \in toGoal
  /\ moving' = FALSE /\ place' = [of |-> segment, fit |-> fit]
  /\ alarms' = IF fit = "short" THEN alarms + 1 ELSE alarms
  /\ alarms' <= MaxAlarms
  /\ UNCHANGED <<plannerVars, control, toGoal, tasks>>

Brake ==
  /\ moving /\ ~Driven
  /\ moving' = FALSE
  /\ UNCHANGED <<plannerVars, control, place, toGoal, counters>>

Search == (\E n \in 1..MaxSegments : SearchEnds(n)) \/ SearchIsVain \/ SearchIsRefused
Operator == SetGoal \/ SetStart
Controller == TakeTrajectory \/ TakeReset \/ TakeGoal \/ ReleaseSegment \/ ReportEnd \/ StraightenWheels
Vehicle == Drive \/ (\E fit \in Fits : Arrive(fit)) \/ Brake

TaskNext ==
  \/ \E mapOk, free \in BOOLEAN : PlannerCycle(mapOk, free)
  \/ Search \/ HearStatus \/ HearMap
  \/ Operator \/ Controller \/ Vehicle

TaskSpec == TaskInit /\ [][TaskNext]_taskVars

(* Timers, subscriptions and controller run on; the handshake ends (module   *)
(* ParkingExecution); a search succeeds and the vehicle arrives, at the goal *)
(* too, if they may do so again and again.                                  *)
Fairness ==
  /\ SF_taskVars(PlannerCycle(TRUE, TRUE)) /\ WF_taskVars(HearStatus) /\ WF_taskVars(HearMap)
  /\ SF_taskVars(\E n \in 1..MaxSegments : SearchEnds(n))
  /\ WF_taskVars(TakeTrajectory) /\ WF_taskVars(TakeReset) /\ WF_taskVars(TakeGoal)
  /\ WF_taskVars(ReleaseSegment) /\ WF_taskVars(ReportEnd) /\ WF_taskVars(StraightenWheels)
  /\ WF_taskVars(Drive) /\ WF_taskVars(Brake) /\ SF_taskVars(Arrive("end")) /\ SF_taskVars(Arrive("goal"))

FairTaskSpec == TaskSpec /\ Fairness

-----------------------------------------------------------------------------
(* The segment the planner has committed is the one the controller works on, or *)
(* has finished, once the topics between them are empty: neither a reset that  *)
(* was overtaken nor an older trajectory or stop ever takes its place.       *)
SegmentsAgree ==
  committed # NoTrajectory /\ Quiet =>
    segment = committed /\ mode \in {"PREPARING", "EXECUTING", "ENDED"}

(* A planner that brakes, or has seen the vehicle at the goal, leaves no segment *)
(* for it to drive along once the topics are empty, whatever was prepared or   *)
(* released while it decided.                                               *)
NoDrivingOn ==
  phase \in {"EMERGENCY_BRAKING", "GOAL_REACHED"} /\ Quiet =>
    mode # "PREPARING" /\ ~Driven

(* The next segment of a result is committed only with the vehicle at rest at the *)
(* end of the one before: a report that names no segment and may be about      *)
(* another one does not skip any of it.                                      *)
SegmentsInSequence ==
  [][cached' < cached /\ committed' # NoTrajectory =>
       ~moving /\ place.of = committed /\ place.fit # "short"]_taskVars

(* Once the operator is content the vehicle gets to its goal, says so and    *)
(* straightens its wheels.                                                  *)
ParkingCompletes == <>[](goalSet => phase = "GOAL_REACHED" /\ mode = "COMPLETE")
===============================================================================
