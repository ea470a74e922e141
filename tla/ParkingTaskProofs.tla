--------------------------- MODULE ParkingTaskProofs ---------------------------
(***************************************************************************)
(* The safety of a parking task for any trajectories and any number of      *)
(* segments, tasks and alarms, with ends reported at any moment and topics   *)
(* taken in any order.  What the planner last published is followed from its *)
(* topic into the controller; what it hears of the controller may be stale   *)
(* and is not relied on.                                                    *)
(***************************************************************************)
EXTENDS ParkingTask, TLAPS

Names == Trajectories \cup {Stop, NoTrajectory}
Places == [of : Trajectories \cup {NoTrajectory}, fit : Fits]

ControlTypes ==
  /\ mode \in C!Modes /\ segment \in Names /\ status \in Names
  /\ moving \in BOOLEAN
  /\ place \in Places

(* Nothing the planner published is under way while it searches. *)
SearchWaits == searching => Quiet

(* The committed segment is the last thing that was published: it waits on  *)
(* its topic, or the controller has taken it.                               *)
CommittedIsSent ==
  committed # NoTrajectory =>
    /\ ~resetSent /\ ~goalSent
    /\ \/ trajectory = committed
       \/ /\ trajectory = NoTrajectory /\ segment = committed
          /\ mode \in {"PREPARING", "EXECUTING", "ENDED"}

(* So is the stop of a planner that brakes. *)
BrakingIsSent ==
  phase = "EMERGENCY_BRAKING" =>
    /\ ~resetSent /\ ~goalSent
    /\ \/ trajectory = Stop
       \/ trajectory = NoTrajectory /\ segment = Stop /\ mode \in {"EXECUTING", "ENDED"}

(* And the goal that was reached. *)
ReachedIsSent ==
  phase = "GOAL_REACHED" =>
    /\ ~resetSent /\ trajectory = NoTrajectory
    /\ goalSent \/ mode \in {"STRAIGHTENING", "COMPLETE"}

(* At a cusp the controller has the segment the vehicle stands at the end of. *)
AtCusp ==
  phase = "STOP_AT_CUSP" =>
    ~moving /\ place.of = committed /\ place.fit # "short" /\ trajectory = NoTrajectory

Safe ==
  /\ ControlTypes /\ SearchWaits
  /\ CommittedIsSent /\ BrakingIsSent /\ ReachedIsSent /\ AtCusp

IInv == PlannerTypeOK /\ Safe

-----------------------------------------------------------------------------
LEMMA Constants ==
  /\ Stop \notin Trajectories /\ NoTrajectory \notin Trajectories /\ Stop # NoTrajectory
  /\ MaxSegments \in Nat /\ MaxSegments > 0
BY PlannerAssumption

LEMMA InitHolds == TaskInit => IInv
<1> SUFFICES ASSUME TaskInit PROVE IInv
  OBVIOUS
<1>1. PlannerTypeOK
  <2>1. /\ liom \in BOOLEAN /\ goalSet \in BOOLEAN /\ mapReceived \in BOOLEAN
        /\ searching \in BOOLEAN /\ resetSent \in BOOLEAN /\ goalSent \in BOOLEAN
    BY Zenon DEF TaskInit, PlannerInit
  <2> QED BY <2>1, Constants DEF TaskInit, PlannerInit, PlannerTypeOK, Phases
<1>2. ControlTypes
  <2>1. moving \in BOOLEAN
    BY Zenon DEF TaskInit
  <2> QED BY <2>1 DEF TaskInit, C!ExecutionInit, C!Modes, ControlTypes, Names, Places, Nowhere, Fits
<1>3. SearchWaits /\ CommittedIsSent /\ BrakingIsSent /\ ReachedIsSent /\ AtCusp
  BY Constants DEF TaskInit, PlannerInit, SearchWaits, CommittedIsSent, BrakingIsSent,
     ReachedIsSent, AtCusp
<1> QED BY <1>1, <1>2, <1>3 DEF IInv, Safe

-----------------------------------------------------------------------------
(* The planner. *)

(* Its steps leave controller and vehicle alone. *)
LEMMA InsideKeeps ==
  ASSUME IInv, PlannerTypeOK', UNCHANGED <<mode, segment, vehicle>>, status' \in Names, SearchWaits',
         CommittedIsSent', BrakingIsSent', ReachedIsSent', AtCusp'
  PROVE  IInv'
BY DEF IInv, Safe, ControlTypes, vehicle

(* A segment is committed when nothing is under way. *)
LEMMA CommitKeeps ==
  ASSUME IInv, Quiet, goalSet, mapReceived,
         NEW t \in Trajectories, NEW n \in 0..(MaxSegments - 1), Commit(t, n),
         searching' = FALSE, UNCHANGED <<task, control, vehicle>>
  PROVE  IInv'
<1>1. searching' \in BOOLEAN
  BY Zenon
<1>2. PlannerTypeOK'
  BY <1>1, Constants DEF Commit, IInv, PlannerTypeOK, Phases, task
<1>3. SearchWaits' /\ CommittedIsSent' /\ BrakingIsSent' /\ ReachedIsSent' /\ AtCusp'
  BY Constants DEF Commit, Quiet, SearchWaits, CommittedIsSent, BrakingIsSent, ReachedIsSent, AtCusp
<1> QED BY <1>2, <1>3, InsideKeeps DEF control, IInv, Safe, ControlTypes

(* An emergency stop, likewise. *)
LEMMA EmergencyKeeps ==
  ASSUME IInv, Quiet, Emergency, ~searching', searching' \in BOOLEAN,
         UNCHANGED <<task, control, vehicle>>
  PROVE  IInv'
<1>1. PlannerTypeOK'
  BY Constants DEF Emergency, IInv, PlannerTypeOK, Phases, task
<1>2. SearchWaits' /\ CommittedIsSent' /\ BrakingIsSent' /\ ReachedIsSent' /\ AtCusp'
  BY Constants DEF Emergency, Quiet, SearchWaits, CommittedIsSent, BrakingIsSent, ReachedIsSent, AtCusp
<1> QED BY <1>1, <1>2, InsideKeeps DEF control, IInv, Safe, ControlTypes

LEMMA ReachGoalKeeps ==
  ASSUME IInv, Quiet, ~searching, ReachGoal, feedback' = NoTrajectory,
         UNCHANGED <<task, control, vehicle, searching>>
  PROVE  IInv'
<1>1. goalSent' \in BOOLEAN /\ goalSent'
  BY Zenon DEF ReachGoal
<1>2. PlannerTypeOK'
  BY <1>1, Constants DEF ReachGoal, Abandon, IInv, PlannerTypeOK, Phases, task
<1>3. SearchWaits' /\ CommittedIsSent' /\ BrakingIsSent' /\ ReachedIsSent' /\ AtCusp'
  BY <1>1, Constants DEF ReachGoal, Abandon, Quiet, SearchWaits, CommittedIsSent, BrakingIsSent,
     ReachedIsSent, AtCusp
<1> QED BY <1>2, <1>3, InsideKeeps DEF control, IInv, Safe, ControlTypes

(* Every other step of a cycle publishes nothing: it keeps the segment for a   *)
(* while or gives it up.                                                    *)
LEMMA QuietStepKeeps ==
  ASSUME IInv, Quiet, PlannerTypeOK', committed' \in {committed, NoTrajectory},
         phase' \notin {"EMERGENCY_BRAKING", "GOAL_REACHED"}, AtCusp',
         UNCHANGED <<published, control, vehicle>>
  PROVE  IInv'
<1>1. UNCHANGED <<trajectory, resetSent, goalSent, mode, segment, status>>
  BY DEF published, control
<1>2. SearchWaits' /\ CommittedIsSent' /\ BrakingIsSent' /\ ReachedIsSent'
  BY <1>1, Constants DEF IInv, Safe, Quiet, SearchWaits, CommittedIsSent, BrakingIsSent, ReachedIsSent
<1> QED BY <1>1, <1>2, InsideKeeps DEF IInv, Safe, ControlTypes

LEMMA TrackKeeps ==
  ASSUME IInv, Quiet, ~searching, NEW mapOk \in BOOLEAN, NEW free \in BOOLEAN,
         Track(Inputs(mapOk, free)), UNCHANGED <<control, vehicle>>
  PROVE  IInv'
<1> DEFINE in == Inputs(mapOk, free)
<1>1. phase = "TRACKING_COMMITTED_SEGMENT" /\ UNCHANGED <<task, searching>>
  BY DEF Track
<1>2. CASE Emergency
  BY <1>1, <1>2, EmergencyKeeps DEF IInv, PlannerTypeOK
<1>3. CASE ReachGoal /\ feedback' = NoTrajectory
  BY <1>1, <1>3, ReachGoalKeeps
<1>4. CASE /\ \/ phase' = "STOP_AT_CUSP" /\ in.atEnd
              \/ phase' = "REPLAN_AFTER_SEGMENT_END_MISS"
           /\ feedback' = NoTrajectory /\ UNCHANGED <<committed, cached, published>>
  <2>1. PlannerTypeOK'
    BY <1>1, <1>4 DEF IInv, PlannerTypeOK, Phases, task, published
  <2>2. phase' = "STOP_AT_CUSP" => ~moving /\ place.of = committed /\ place.fit # "short"
    BY <1>4 DEF Inputs
  <2>3. AtCusp'
    BY <1>4, <2>2 DEF AtCusp, Quiet, published, vehicle
  <2> QED BY <1>4, <2>1, <2>3, QuietStepKeeps
<1> QED BY <1>2, <1>3, <1>4, Zenon DEF Track

LEMMA LeaveKeeps ==
  ASSUME IInv, Quiet, Abandon("PLANNING"), feedback' = NoTrajectory,
         phase \in {"STOP_AT_CUSP", "REPLAN_AFTER_SEGMENT_END_MISS"},
         UNCHANGED <<task, searching, resetSent, goalSent, control, vehicle>>
  PROVE  IInv'
<1>1. UNCHANGED published /\ committed' = NoTrajectory /\ phase' = "PLANNING"
  BY DEF Abandon, published
<1>2. PlannerTypeOK'
  BY Constants DEF Abandon, IInv, PlannerTypeOK, Phases, task
<1>3. AtCusp'
  BY <1>1 DEF AtCusp
<1> QED BY <1>1, <1>2, <1>3, QuietStepKeeps

LEMMA BeginKeeps ==
  ASSUME IInv, Quiet, goalSet, mapReceived, NEW mapOk \in BOOLEAN, NEW free \in BOOLEAN,
         BeginSearch(Inputs(mapOk, free)), UNCHANGED <<control, vehicle>>
  PROVE  IInv'
<1>1. phase # "TRACKING_COMMITTED_SEGMENT" /\ committed = NoTrajectory /\ feedback = NoTrajectory
  BY DEF BeginSearch, MayPlan, IInv, PlannerTypeOK
<1>2. searching' \in BOOLEAN
  BY DEF BeginSearch, Inputs
<1>3. PlannerTypeOK'
  BY <1>1, <1>2 DEF BeginSearch, IInv, PlannerTypeOK, Phases, task, published
<1>4. UNCHANGED <<committed, published>> /\ phase' = "PLANNING"
  BY DEF BeginSearch
<1>5. AtCusp'
  BY <1>4 DEF AtCusp
<1> QED BY <1>3, <1>4, <1>5, QuietStepKeeps

LEMMA CycleKeeps ==
  ASSUME IInv, NEW mapOk \in BOOLEAN, NEW free \in BOOLEAN, PlannerCycle(mapOk, free)
  PROVE  IInv'
<1> DEFINE in == Inputs(mapOk, free)
<1>1. PICK t \in Trajectories : Cycle(in, t)
  BY Zenon DEF PlannerCycle
<1>2. Quiet /\ goalSet /\ mapReceived /\ ~searching /\ UNCHANGED <<control, vehicle>>
  BY <1>1, Zenon DEF PlannerCycle, Cycle
<1>3. CASE Track(in)
  BY <1>2, <1>3, TrackKeeps
<1>4. CASE ReplanAfterMiss
  BY <1>2, <1>4, LeaveKeeps DEF ReplanAfterMiss
<1>5. CASE LeaveCusp(in, t)
  <2>1. phase = "STOP_AT_CUSP" /\ UNCHANGED <<task, searching>> /\ feedback = NoTrajectory
    BY <1>5 DEF LeaveCusp, IInv, PlannerTypeOK
  <2>2. CASE cached > 0 /\ Commit(t, cached - 1)
    <3>1. cached - 1 \in 0..(MaxSegments - 1)
      BY <2>2, Constants DEF IInv, PlannerTypeOK
    <3>2. searching' = FALSE
      BY <1>2, <2>1 DEF IInv, PlannerTypeOK
    <3> QED BY <1>1, <1>2, <2>1, <2>2, <3>1, <3>2, CommitKeeps
  <2>3. CASE Abandon("PLANNING") /\ UNCHANGED <<feedback, resetSent, goalSent>>
    BY <1>2, <2>1, <2>3, LeaveKeeps
  <2> QED BY <1>5, <2>2, <2>3 DEF LeaveCusp
<1>6. CASE AlreadyThere(in)
  <2>1. feedback = NoTrajectory
    BY <1>6 DEF AlreadyThere, MayPlan, IInv, PlannerTypeOK
  <2> QED BY <1>2, <1>6, <2>1, ReachGoalKeeps DEF AlreadyThere
<1>7. CASE WaitForStandstill(in)
  BY <1>2, <1>7, EmergencyKeeps DEF WaitForStandstill, IInv, PlannerTypeOK
<1>8. CASE BeginSearch(in)
  BY <1>2, <1>8, BeginKeeps
<1> QED BY <1>1, <1>3, <1>4, <1>5, <1>6, <1>7, <1>8 DEF Cycle

LEMMA SearchKeeps == ASSUME IInv, Search PROVE IInv'
<1>1. ASSUME searching PROVE Quiet /\ goalSet /\ mapReceived /\ phase = "PLANNING"
  BY <1>1 DEF IInv, Safe, PlannerTypeOK, SearchWaits
<1>2. ASSUME NEW n \in 1..MaxSegments, SearchEnds(n) PROVE IInv'
  <2>1. PICK t \in Trajectories : SearchFinds(t, n)
    BY <1>2 DEF SearchEnds
  <2>2. n - 1 \in 0..(MaxSegments - 1)
    BY Constants
  <2>3. searching /\ searching' = FALSE /\ Commit(t, n - 1) /\ UNCHANGED <<task, control, vehicle>>
    BY <1>2, <2>1, Zenon DEF SearchEnds, SearchFinds
  <2> QED BY <1>1, <2>1, <2>2, <2>3, CommitKeeps
<1>3. CASE SearchIsRefused
  <2>1. searching /\ searching' = FALSE /\ Emergency /\ UNCHANGED <<task, control, vehicle>>
    BY <1>3, Zenon DEF SearchIsRefused, LiomRefuses
  <2>2. searching' \in BOOLEAN /\ ~searching'
    BY <2>1, Zenon
  <2> QED BY <1>1, <2>1, <2>2, EmergencyKeeps
<1>4. CASE SearchIsVain
  <2>1. /\ searching /\ searching' = FALSE
        /\ UNCHANGED <<phase, committed, cached, feedback, task, published, control, vehicle>>
    BY <1>4, Zenon DEF SearchIsVain, SearchFails
  <2>2. searching' \in BOOLEAN
    BY <2>1, Zenon
  <2>3. PlannerTypeOK'
    BY <2>1, <2>2 DEF IInv, PlannerTypeOK, task, published
  <2>4. AtCusp' /\ phase' = "PLANNING"
    BY <1>1, <2>1 DEF AtCusp
  <2> QED BY <1>1, <2>1, <2>3, <2>4, QuietStepKeeps
<1> QED BY <1>2, <1>3, <1>4 DEF Search

(* A report changes nothing but the feedback, and that only while tracking. *)
LEMMA HearStatusKeeps == ASSUME IInv, HearStatus PROVE IInv'
<1>1. /\ status' = NoTrajectory
      /\ feedback' = IF phase = "TRACKING_COMMITTED_SEGMENT" THEN status ELSE feedback
      /\ UNCHANGED <<phase, committed, cached, task, searching, published, mode, segment, vehicle>>
  BY DEF HearStatus, OnStatus
<1>2. PlannerTypeOK'
  BY <1>1 DEF IInv, Safe, ControlTypes, Names, PlannerTypeOK, task, published
<1>3. SearchWaits' /\ CommittedIsSent' /\ BrakingIsSent' /\ ReachedIsSent' /\ AtCusp'
  BY <1>1 DEF IInv, Safe, Quiet, SearchWaits, CommittedIsSent, BrakingIsSent, ReachedIsSent, AtCusp,
     published, vehicle
<1>4. status' \in Names
  BY <1>1 DEF Names
<1> QED BY <1>1, <1>2, <1>3, <1>4, InsideKeeps

LEMMA HearMapKeeps == ASSUME IInv, HearMap PROVE IInv'
<1>1. mapReceived' \in BOOLEAN /\ mapReceived'
  BY Zenon DEF HearMap, OnMap
<1>2. UNCHANGED <<phase, committed, cached, feedback, liom, goalSet, searching, published,
                  control, vehicle>>
  BY DEF HearMap, OnMap
<1>3. PlannerTypeOK'
  BY <1>1, <1>2 DEF IInv, PlannerTypeOK, published
<1>4. Safe'
  BY <1>2 DEF IInv, Safe, ControlTypes, Quiet, SearchWaits, CommittedIsSent, BrakingIsSent,
     ReachedIsSent, AtCusp, published, control, vehicle
<1> QED BY <1>3, <1>4 DEF IInv

-----------------------------------------------------------------------------
(* The operator: the planner forgets the task, whatever is under way.       *)
LEMMA OperatorKeeps == ASSUME IInv, Operator PROVE IInv'
<1>1. /\ ResetTask /\ UNCHANGED <<liom, control>>
      /\ goalSet' \in BOOLEAN /\ mapReceived' \in BOOLEAN
      /\ moving' \in BOOLEAN /\ place' \in Places
  <2>1. CASE SetGoal
    <3>1. goalSet' = TRUE /\ UNCHANGED <<liom, mapReceived, control, moving>> /\ ResetTask
      BY <2>1, Zenon DEF SetGoal, OnGoal
    <3>2. PICK fit \in Fits : place' = [place EXCEPT !.fit = fit]
      BY <2>1 DEF SetGoal, IInv, Safe, ControlTypes, Places, Fits
    <3>3. place \in Places /\ moving \in BOOLEAN /\ mapReceived \in BOOLEAN
      BY DEF IInv, Safe, PlannerTypeOK, ControlTypes
    <3>4. place' \in Places
      BY <3>2, <3>3 DEF Places
    <3>5. goalSet' \in BOOLEAN
      BY <3>1, Zenon
    <3> QED BY <3>1, <3>3, <3>4, <3>5
  <2>2. CASE SetStart
    <3>1. /\ goalSet' = FALSE /\ mapReceived' = FALSE /\ moving' = FALSE /\ place' = Nowhere
          /\ UNCHANGED <<liom, control>> /\ ResetTask
      BY <2>2, Zenon DEF SetStart, OnInitialPose
    <3>2. goalSet' \in BOOLEAN /\ mapReceived' \in BOOLEAN /\ moving' \in BOOLEAN
      BY <3>1, Zenon
    <3>3. place' \in Places
      BY <3>1 DEF Nowhere, Places, Fits
    <3> QED BY <3>1, <3>2, <3>3
  <2> QED BY <2>1, <2>2 DEF Operator
<1>2. /\ ~searching /\ searching' = searching /\ committed' = NoTrajectory /\ cached' = 0
      /\ phase' = "WAITING_FOR_INPUT" /\ feedback' = NoTrajectory
      /\ UNCHANGED <<trajectory, goalSent>>
  BY <1>1 DEF ResetTask, Abandon
<1>3. resetSent' \in BOOLEAN
  BY <1>1, Zenon DEF ResetTask
<1>4. PlannerTypeOK'
  BY <1>1, <1>2, <1>3, Constants DEF IInv, PlannerTypeOK, Phases
<1>5. ControlTypes'
  BY <1>1 DEF IInv, Safe, ControlTypes, control
<1>6. SearchWaits' /\ CommittedIsSent' /\ BrakingIsSent' /\ ReachedIsSent' /\ AtCusp'
  BY <1>2 DEF SearchWaits, CommittedIsSent, BrakingIsSent, ReachedIsSent, AtCusp
<1> QED BY <1>4, <1>5, <1>6 DEF IInv, Safe

-----------------------------------------------------------------------------
(* The controller and the vehicle. *)

(* What they leave alone, and what remains to be shown of their steps.      *)
LEMMA OutsideKeeps ==
  ASSUME IInv, PlannerTypeOK', ControlTypes', SearchWaits', CommittedIsSent', BrakingIsSent',
         ReachedIsSent', AtCusp'
  PROVE  IInv'
BY DEF IInv, Safe

(* Whatever waits has overtaken nothing that was published after it but a reset. *)
LEMMA TakeTrajectoryKeeps == ASSUME IInv, TakeTrajectory PROVE IInv'
<1>1. /\ trajectory # NoTrajectory /\ trajectory' = NoTrajectory /\ segment' = trajectory
      /\ \/ trajectory \in Trajectories /\ mode' = "PREPARING"
         \/ trajectory = Stop /\ mode' = "EXECUTING"
      /\ UNCHANGED <<phase, committed, cached, feedback, task, searching, resetSent, goalSent,
                     status, vehicle>>
  BY DEF TakeTrajectory, C!Stage
<1>2. PlannerTypeOK'
  BY <1>1 DEF IInv, PlannerTypeOK, task
<1>3. ControlTypes'
  BY <1>1 DEF IInv, Safe, ControlTypes, vehicle, Names, C!Modes
<1>4. SearchWaits'
  BY <1>1 DEF IInv, Safe, SearchWaits, Quiet
<1>5. CommittedIsSent'
  BY <1>1, Constants DEF IInv, Safe, CommittedIsSent, PlannerTypeOK
<1>6. BrakingIsSent'
  BY <1>1, Constants DEF IInv, Safe, BrakingIsSent
<1>7. ReachedIsSent' /\ AtCusp'
  BY <1>1 DEF IInv, Safe, ReachedIsSent, AtCusp
<1> QED BY <1>2, <1>3, <1>4, <1>5, <1>6, <1>7, OutsideKeeps

(* A reset finds no segment committed and no stop published after it, a reached   *)
(* goal no more than the reset of the next task.                             *)
LEMMA TakeOrderKeeps == ASSUME IInv, TakeReset \/ TakeGoal PROVE IInv'
<1>1. /\ \/ resetSent /\ mode' = "IDLE" /\ goalSent' = goalSent
         \/ goalSent /\ mode' = "STRAIGHTENING" /\ resetSent' = resetSent
      /\ segment' = NoTrajectory
      /\ UNCHANGED <<phase, committed, cached, feedback, task, searching, trajectory, status, vehicle>>
  BY DEF TakeReset, TakeGoal, C!Cleared, C!GoalTaken
<1>2. /\ resetSent' \in BOOLEAN /\ goalSent' \in BOOLEAN
      /\ (resetSent' => resetSent) /\ (goalSent' => goalSent)
  <2>1. resetSent \in BOOLEAN /\ goalSent \in BOOLEAN BY DEF IInv, PlannerTypeOK
  <2>2. CASE TakeReset
    <3>1. resetSent' = FALSE /\ goalSent' = goalSent BY <2>2 DEF TakeReset
    <3> QED BY Zenon, <2>1, <3>1
  <2>3. CASE TakeGoal
    <3>1. goalSent' = FALSE /\ resetSent' = resetSent BY <2>3 DEF TakeGoal
    <3> QED BY Zenon, <2>1, <3>1
  <2> QED BY <2>2, <2>3
<1>3. PlannerTypeOK'
  BY <1>1, <1>2 DEF IInv, PlannerTypeOK, task
<1>4. ControlTypes'
  BY <1>1 DEF IInv, Safe, ControlTypes, vehicle, Names, C!Modes
<1>5. committed = NoTrajectory /\ phase # "EMERGENCY_BRAKING" /\ phase # "STOP_AT_CUSP" /\ ~searching
  BY <1>1 DEF IInv, Safe, PlannerTypeOK, CommittedIsSent, BrakingIsSent, SearchWaits, Quiet
<1>6. SearchWaits' /\ CommittedIsSent' /\ BrakingIsSent' /\ AtCusp'
  BY <1>1, <1>5 DEF SearchWaits, CommittedIsSent, BrakingIsSent, AtCusp
<1>7. ReachedIsSent'
  BY <1>1, <1>2 DEF IInv, Safe, ReachedIsSent
<1> QED BY <1>3, <1>4, <1>6, <1>7, OutsideKeeps

(* The controller goes on with the segment it has. *)
LEMMA GoesOnKeeps == ASSUME IInv, ReleaseSegment \/ ReportEnd \/ StraightenWheels PROVE IInv'
<1>1. /\ \/ mode = "PREPARING" /\ mode' = "EXECUTING"
         \/ mode = "EXECUTING" /\ mode' = "ENDED"
         \/ mode = "STRAIGHTENING" /\ mode' = "COMPLETE"
      /\ status' \in {status, segment}
      /\ UNCHANGED <<plannerVars, segment, vehicle>>
  BY DEF ReleaseSegment, ReportEnd, StraightenWheels, C!Release, C!EndReported, C!Straightened
<1>2. PlannerTypeOK'
  BY <1>1 DEF IInv, PlannerTypeOK, plannerVars, task, published
<1>3. ControlTypes'
  BY <1>1 DEF IInv, Safe, ControlTypes, vehicle, C!Modes
<1>4. SearchWaits' /\ CommittedIsSent' /\ BrakingIsSent' /\ ReachedIsSent' /\ AtCusp'
  BY <1>1 DEF IInv, Safe, Quiet, SearchWaits, CommittedIsSent, BrakingIsSent, ReachedIsSent, AtCusp,
     plannerVars, published, vehicle
<1> QED BY <1>2, <1>3, <1>4, OutsideKeeps

(* A vehicle that stands at the end of the controller's segment does not leave it. *)
LEMMA VehicleKeeps == ASSUME IInv, Vehicle PROVE IInv'
<1>1. UNCHANGED <<plannerVars, control>>
  BY DEF Vehicle, Drive, Arrive, Brake
<1>2. \/ Driven /\ place.of # segment /\ moving' = TRUE /\ place' = Nowhere
      \/ Driven /\ moving /\ moving' = FALSE /\ \E fit \in Fits : place' = [of |-> segment, fit |-> fit]
      \/ moving' = FALSE /\ place' = place
  BY Zenon DEF Vehicle, Drive, Arrive, Brake
<1>3. moving' \in BOOLEAN
  BY <1>2, Zenon
<1>4. place' \in Places
  BY <1>2 DEF IInv, Safe, ControlTypes, Nowhere, Places, Fits, Driven
<1>5. PlannerTypeOK'
  BY <1>1 DEF IInv, PlannerTypeOK, plannerVars, task, published
<1>6. ControlTypes'
  BY <1>1, <1>3, <1>4 DEF IInv, Safe, ControlTypes, control
<1>7. SearchWaits' /\ CommittedIsSent' /\ BrakingIsSent' /\ ReachedIsSent'
  BY <1>1 DEF IInv, Safe, Quiet, SearchWaits, CommittedIsSent, BrakingIsSent, ReachedIsSent,
     plannerVars, published, control
<1>8. AtCusp'
  <2> SUFFICES ASSUME phase' = "STOP_AT_CUSP" PROVE AtCusp'
    BY DEF AtCusp
  <2>1. UNCHANGED <<phase, committed, trajectory>> /\ phase = "STOP_AT_CUSP"
    BY <1>1 DEF plannerVars, published
  <2>2. ~moving /\ place.of = committed /\ place.fit # "short" /\ trajectory = NoTrajectory
    BY <2>1 DEF IInv, Safe, AtCusp
  <2>3. segment = committed
    BY <2>1, <2>2, Constants DEF IInv, Safe, CommittedIsSent, PlannerTypeOK
  <2>4. ~moving' /\ place' = place
    BY <1>2, <2>2, <2>3, Zenon
  <2> QED BY <2>1, <2>2, <2>4 DEF AtCusp
<1> QED BY <1>5, <1>6, <1>7, <1>8, OutsideKeeps

-----------------------------------------------------------------------------
LEMMA StepKeeps == IInv /\ [TaskNext]_taskVars => IInv'
<1> SUFFICES ASSUME IInv, [TaskNext]_taskVars PROVE IInv'
  OBVIOUS
<1>1. CASE \E mapOk, free \in BOOLEAN : PlannerCycle(mapOk, free)
  BY <1>1, CycleKeeps
<1>2. CASE Search \/ HearStatus \/ HearMap \/ Operator
  BY <1>2, SearchKeeps, HearStatusKeeps, HearMapKeeps, OperatorKeeps
<1>3. CASE Controller
  BY <1>3, TakeTrajectoryKeeps, TakeOrderKeeps, GoesOnKeeps DEF Controller
<1>4. CASE Vehicle
  BY <1>4, VehicleKeeps
<1>5. CASE UNCHANGED taskVars
  BY <1>5 DEF taskVars, plannerVars, task, published, control, vehicle, IInv, PlannerTypeOK, Safe,
     ControlTypes, SearchWaits, Quiet, CommittedIsSent, BrakingIsSent, ReachedIsSent, AtCusp
<1> QED BY <1>1, <1>2, <1>3, <1>4, <1>5 DEF TaskNext

LEMMA Invariance == TaskSpec => []IInv
BY InitHolds, StepKeeps, PTL DEF TaskSpec

(* The planner's variables keep their types and the relations between       *)
(* phase, committed and cached segments, feedback and search, whatever is    *)
(* reported and in whatever order topics are taken.                          *)
THEOREM PlannerTypes == TaskSpec => []PlannerTypeOK
<1>1. IInv => PlannerTypeOK
  BY DEF IInv
<1> QED BY <1>1, Invariance, PTL

(* Once the topics are empty the controller works on the segment the planner   *)
(* has committed, though reset and trajectory overtake each other.          *)
THEOREM SegmentsStayAgreed == TaskSpec => []SegmentsAgree
<1>1. IInv => SegmentsAgree
  BY Constants DEF IInv, Safe, PlannerTypeOK, CommittedIsSent, Quiet, SegmentsAgree
<1> QED BY <1>1, Invariance, PTL

(* A braking planner, and one at the goal, has left nothing to drive along.   *)
THEOREM NothingDrivesOn == TaskSpec => []NoDrivingOn
<1>1. IInv => NoDrivingOn
  BY Constants DEF IInv, Safe, BrakingIsSent, ReachedIsSent, Quiet, Driven, NoDrivingOn
<1> QED BY <1>1, Invariance, PTL

(* A segment is committed out of the cache only at the end of the one before,   *)
(* whatever reports come: the cusp is left as it was entered.                *)
THEOREM SequenceIsKept == TaskSpec => SegmentsInSequence
<1>1. IInv /\ [TaskNext]_taskVars =>
        [cached' < cached /\ committed' # NoTrajectory =>
           ~moving /\ place.of = committed /\ place.fit # "short"]_taskVars
  <2> SUFFICES ASSUME IInv, TaskNext, cached' < cached, committed' # NoTrajectory
               PROVE  ~moving /\ place.of = committed /\ place.fit # "short"
    OBVIOUS
  <2>1. cached \in Nat
    BY Constants DEF IInv, PlannerTypeOK
  <2>2. PICK mapOk, free \in BOOLEAN : PlannerCycle(mapOk, free)
    <3>1. ASSUME Search PROVE FALSE
      <4>1. searching => cached = 0
        BY <2>1 DEF IInv, PlannerTypeOK
      <4>2. ASSUME NEW n \in 1..MaxSegments, NEW t \in Trajectories, SearchFinds(t, n) PROVE FALSE
        BY <2>1, <4>1, <4>2, Constants DEF SearchFinds, Commit
      <4>3. ~SearchIsVain
        BY <2>1 DEF SearchIsVain, SearchFails
      <4>4. ~SearchIsRefused
        BY DEF SearchIsRefused, LiomRefuses, Emergency
      <4> QED BY <3>1, <4>2, <4>3, <4>4 DEF Search, SearchEnds
    <3>2. ~(HearStatus \/ HearMap \/ Controller \/ Vehicle)
      BY <2>1 DEF HearStatus, OnStatus, HearMap, OnMap, Controller, TakeTrajectory, TakeReset, TakeGoal,
         ReleaseSegment, ReportEnd, StraightenWheels, Vehicle, Drive, Arrive, Brake, plannerVars
    <3>3. ~Operator
      BY DEF Operator, SetGoal, SetStart, OnGoal, OnInitialPose, ResetTask, Abandon
    <3> QED BY <3>1, <3>2, <3>3 DEF TaskNext
  <2>3. PICK t \in Trajectories : Cycle(Inputs(mapOk, free), t)
    BY <2>2, Zenon DEF PlannerCycle
  <2>4. LeaveCusp(Inputs(mapOk, free), t)
    <3>1. ~Track(Inputs(mapOk, free))
      BY <2>1 DEF Track, Emergency, ReachGoal, Abandon
    <3>2. ~ReplanAfterMiss
      BY DEF ReplanAfterMiss, Abandon
    <3>3. ~AlreadyThere(Inputs(mapOk, free))
      BY DEF AlreadyThere, ReachGoal, Abandon
    <3>4. ~WaitForStandstill(Inputs(mapOk, free)) /\ ~BeginSearch(Inputs(mapOk, free))
      BY <2>1 DEF WaitForStandstill, Emergency, BeginSearch
    <3> QED BY <2>3, <3>1, <3>2, <3>3, <3>4 DEF Cycle
  <2> QED BY <2>4 DEF LeaveCusp, IInv, Safe, AtCusp
<1> QED BY <1>1, Invariance, PTL DEF TaskSpec, SegmentsInSequence
===============================================================================
