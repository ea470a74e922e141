------------------------- MODULE ParkingControlProofs -------------------------
(***************************************************************************)
(* ParkingControl for every set of segments, every threshold and both       *)
(* back-ends: types, what a pending segment implies, and that the           *)
(* controller implements SegmentExecution.                                  *)
(***************************************************************************)
EXTENDS ParkingControl, TLAPS

(* A count of steering cycles never waits at its threshold: the cycle that  *)
(* reaches it releases the segment or completes the task.                   *)
Unfinished ==
  pending # NoSegment \/ state = "STRAIGHTEN_STEERING" => steerCycles < SteerStable

(* Without a segment to prepare no gear is asked for and none is counted,   *)
(* so that SHIFT_GEAR is not left for PREPARE_STEERING without a segment.   *)
NothingAsked ==
  /\ Preparing /\ pending = NoSegment => targetGear = NoGear
  /\ state = "SHIFT_GEAR" /\ targetGear = NoGear => gearCycles = 0

IInv == ControlTypeOK /\ PendingFits /\ Unfinished /\ NothingAsked

-----------------------------------------------------------------------------
(* What is known of the vehicle. *)
LEMMA KnownFields ==
  ASSUME NEW k \in Known
  PROVE  k.wheel \in Wheels /\ k.moving \in BOOLEAN
<1>1. CASE k \in Reports
  BY <1>1 DEF Reports
<1>2. CASE k \in {NoReport(m) : m \in BOOLEAN}
  <2>1. PICK m \in BOOLEAN : k = NoReport(m)
    BY <1>2
  <2> QED BY <2>1 DEF NoReport, Wheels
<1> QED BY <1>1, <1>2 DEF Known

LEMMA Thresholds == GearStable \in Nat /\ GearStable > 0 /\ SteerStable \in Nat /\ SteerStable > 0
BY ParkingAssumption

LEMMA StopIsNoSegment == Stop \notin Segments /\ NoSegment \notin Segments /\ Stop # NoSegment
BY ParkingAssumption

LEMMA HeldOrDriven == ASSUME IInv PROVE HoldCommand \in Drives
BY DEF HoldCommand, IInv, ControlTypeOK, Drives

(* The count of steering cycles goes up by one or starts again. *)
LEMMA CountReady ==
  ASSUME NEW w, steerCycles \in 0..SteerStable, steerCycles < SteerStable
  PROVE  ReadyCycles(w) \in 0..SteerStable
BY Thresholds DEF ReadyCycles

-----------------------------------------------------------------------------
(* One step at a time: what each disjunct of the next-state relation does to *)
(* the invariant.                                                           *)
LEMMA InitHolds == ControlInit => IInv
<1> SUFFICES ASSUME ControlInit PROVE IInv
  OBVIOUS
<1>1. seen \in Known
  BY DEF ControlInit, Known
<1>2. drive \in Drives /\ wheelCmd \in Wheels \cup {None}
  BY DEF ControlInit, Drives
<1>3. endHold \in BOOLEAN /\ motionStart \in BOOLEAN
  BY Zenon DEF ControlInit
<1> QED BY <1>1, <1>2, <1>3, Thresholds
     DEF ControlInit, IInv, ControlTypeOK, PendingFits, Unfinished, NothingAsked, Preparing, States

LEMMA TrajectoryKeeps ==
  ASSUME IInv, NEW t \in Segments \cup {Stop}, OnTrajectory(t)
  PROVE  IInv'
<1>1. CASE StageStop
  <2>1. endHold' \in BOOLEAN
    BY <1>1, Zenon DEF StageStop
  <2> QED BY <1>1, <2>1, Thresholds, StopIsNoSegment
     DEF StageStop, IInv, ControlTypeOK, PendingFits, Unfinished, NothingAsked, Preparing, States,
         inputs, commands, NoGear
<1>2. CASE t \in Segments /\ RefuseRolling(t)
  BY <1>2, HeldOrDriven
     DEF RefuseRolling, IInv, ControlTypeOK, PendingFits, Unfinished, NothingAsked, Preparing,
         States, inputs
<1>3. CASE t \in Segments /\ StageMotion(t)
  <2>1. GearOf[t] \in {"D", "R"}
    BY <1>3, ParkingAssumption
  <2> QED BY <1>3, <2>1, Thresholds, StopIsNoSegment
     DEF StageMotion, IInv, ControlTypeOK, PendingFits, Unfinished, NothingAsked, Preparing, States,
         inputs, commands, NoGear
<1> QED BY <1>1, <1>2, <1>3 DEF OnTrajectory

LEMMA ReportKeeps ==
  ASSUME IInv, NEW r \in Reports, ChassisReport(r)
  PROVE  IInv'
<1>1. gearCycles' \in 0..GearStable
  BY Thresholds DEF ChassisReport, IInv, ControlTypeOK
<1>2. UNCHANGED <<state, pending, active, targetGear, steerCycles, endHold, motionStart,
                  drive, gearCmd, wheelCmd>>
  BY DEF ChassisReport, segmentState, commands
<1>3. seen' \in Known
  BY DEF ChassisReport, Known
<1>4. state = "SHIFT_GEAR" /\ targetGear = NoGear => gearCycles' = 0
  BY DEF ChassisReport
<1> QED BY <1>1, <1>2, <1>3, <1>4
     DEF IInv, ControlTypeOK, PendingFits, Unfinished, NothingAsked, Preparing

LEMMA OrderKeeps ==
  ASSUME IInv, NEW b \in BOOLEAN, MotionStart(b)
  PROVE  IInv'
<1>1. motionStart' \in BOOLEAN
  BY DEF MotionStart
<1>2. UNCHANGED <<state, pending, active, targetGear, gearCycles, steerCycles, endHold, seen,
                  drive, gearCmd, wheelCmd>>
  BY DEF MotionStart, segmentState, handshake, commands
<1> QED BY <1>1, <1>2 DEF IInv, ControlTypeOK, PendingFits, Unfinished, NothingAsked, Preparing

LEMMA ResetKeeps == ASSUME IInv, TaskReset PROVE IInv'
<1>1. endHold' \in BOOLEAN /\ motionStart' \in BOOLEAN
  BY Zenon DEF TaskReset
<1> QED BY <1>1, HeldOrDriven, Thresholds
   DEF TaskReset, NoGear, IInv, ControlTypeOK, PendingFits, Unfinished, NothingAsked, Preparing, States

LEMMA GoalKeeps == ASSUME IInv, GoalReached PROVE IInv'
<1>1. endHold' \in BOOLEAN
  BY Zenon DEF GoalReached
<1> QED BY <1>1, Thresholds
   DEF GoalReached, NoGear, inputs, commands, IInv, ControlTypeOK, PendingFits, Unfinished, NothingAsked,
       Preparing, States

-----------------------------------------------------------------------------
(* The disjuncts of a control cycle. *)
LEMMA ExecuteKeeps ==
  ASSUME IInv, NEW near \in BOOLEAN, NEW elapsed \in BOOLEAN, Execute(near, elapsed)
  PROVE  IInv'
<1>1. state = "EXECUTING" /\ state' \in {"EXECUTING", "SEGMENT_END_HOLD"}
  BY DEF Execute, SegmentEnd
<1>2. endHold' \in BOOLEAN
  BY Zenon DEF Execute, SegmentEnd, IInv, ControlTypeOK
<1>3. drive' \in Drives
  BY <1>1, StopIsNoSegment DEF Execute, IInv, ControlTypeOK, PendingFits, Drives
<1>4. wheelCmd' \in Wheels \cup {None}
  BY KnownFields DEF Execute, IInv, ControlTypeOK
<1>5. UNCHANGED <<pending, active, targetGear, gearCycles, steerCycles, seen, motionStart, gearCmd>>
  BY DEF Execute, handshake, inputs
<1> QED BY <1>1, <1>2, <1>3, <1>4, <1>5
     DEF IInv, ControlTypeOK, PendingFits, Unfinished, NothingAsked, Preparing, States

LEMMA StraightenKeeps == ASSUME IInv, Straighten PROVE IInv'
<1>1. state = "STRAIGHTEN_STEERING" /\ state' \in {"STRAIGHTEN_STEERING", "PARKING_COMPLETE"}
  BY DEF Straighten
<1>2. steerCycles' \in 0..SteerStable
  BY <1>1, CountReady, Thresholds DEF Straighten, IInv, ControlTypeOK, Unfinished
<1>3. state' = "STRAIGHTEN_STEERING" => steerCycles' < SteerStable
  BY <1>2, Thresholds DEF Straighten
<1>4. drive' \in Drives /\ wheelCmd' \in Wheels \cup {None}
  BY DEF Straighten, Drives, Wheels
<1>5. UNCHANGED <<pending, active, targetGear, gearCycles, endHold, seen, motionStart, gearCmd>>
  BY DEF Straighten, inputs
<1> QED BY <1>1, <1>2, <1>3, <1>4, <1>5
     DEF IInv, ControlTypeOK, PendingFits, Unfinished, NothingAsked, Preparing, States

LEMMA ShiftKeeps == ASSUME IInv, ShiftGear PROVE IInv'
<1>1. state \in {"HOLD_STOP", "SHIFT_GEAR"} /\ state' = "SHIFT_GEAR"
  BY DEF ShiftGear
<1>2. gearCycles' \in 0..GearStable /\ (gearCycles' = 0 \/ (gearCycles' = gearCycles /\ state = "SHIFT_GEAR"))
  BY <1>1, Thresholds DEF ShiftGear, IInv, ControlTypeOK
<1>3. drive' \in Drives /\ gearCmd' \in {"D", "R", NoGear}
  BY DEF ShiftGear, GearCommand, Drives, IInv, ControlTypeOK
<1>4. UNCHANGED <<pending, active, targetGear, steerCycles, endHold, seen, motionStart, wheelCmd>>
  BY DEF ShiftGear, inputs
<1> QED BY <1>1, <1>2, <1>3, <1>4
     DEF IInv, ControlTypeOK, PendingFits, Unfinished, NothingAsked, Preparing, States

LEMMA MovedAgainKeeps == ASSUME IInv, MovedAgain PROVE IInv'
BY Thresholds
   DEF MovedAgain, inputs, Drives, IInv, ControlTypeOK, PendingFits, Unfinished, NothingAsked,
       Preparing, States

LEMMA OnlyHoldKeeps == ASSUME IInv, OnlyHold PROVE IInv'
<1>1. drive' \in Drives /\ wheelCmd' \in Wheels \cup {None}
  BY DEF OnlyHold, Drives, Wheels, IInv, ControlTypeOK
<1>2. UNCHANGED <<state, pending, active, targetGear, gearCycles, steerCycles, endHold, seen,
                  motionStart, gearCmd>>
  BY DEF OnlyHold, segmentState, handshake, inputs
<1> QED BY <1>1, <1>2 DEF IInv, ControlTypeOK, PendingFits, Unfinished, NothingAsked, Preparing

(* The wheels are only prepared for a segment. *)
LEMMA SomethingPends == ASSUME IInv, PrepareSteering PROVE pending # NoSegment
<1>1. CASE state = "PREPARE_STEERING"
  BY <1>1 DEF IInv, PendingFits
<1>2. CASE GearDone
  BY <1>2, Thresholds DEF GearDone, Confirmed, IInv, ControlTypeOK, NothingAsked, Preparing
<1> QED BY <1>1, <1>2 DEF PrepareSteering

(* Either the wheels are not in place yet, or the segment is released. *)
LEMMA PrepareOutcomes ==
  ASSUME IInv, PrepareSteering
  PROVE  /\ Preparing /\ pending \in Segments
         /\ UNCHANGED <<targetGear, gearCycles, seen, motionStart>>
         /\ drive' \in Drives /\ gearCmd' \in {"D", "R", NoGear}
         /\ wheelCmd' \in Wheels \cup {None}
         /\ steerCycles' \in 0..SteerStable
         /\ \/ /\ steerCycles' < SteerStable /\ state' = "PREPARE_STEERING"
               /\ UNCHANGED <<pending, active, endHold>>
            \/ /\ active' = pending /\ pending' = NoSegment /\ endHold' \in BOOLEAN
               /\ state' = "EXECUTING"
<1>1. pending # NoSegment /\ pending \in Segments
  BY SomethingPends DEF IInv, ControlTypeOK
<1>2. steerCycles' = ReadyCycles(pending) /\ wheelCmd' = pending
  BY <1>1 DEF PrepareSteering
<1>3. steerCycles' \in 0..SteerStable
  BY <1>1, <1>2, CountReady DEF IInv, ControlTypeOK, Unfinished
<1>4. \/ /\ steerCycles' < SteerStable /\ state' = "PREPARE_STEERING"
         /\ UNCHANGED <<pending, active, endHold>>
      \/ /\ active' = pending /\ pending' = NoSegment /\ endHold' = FALSE
         /\ state' = "EXECUTING"
  BY <1>1, Zenon DEF PrepareSteering
<1>5. Preparing /\ UNCHANGED <<targetGear, gearCycles, seen, motionStart>>
  BY DEF PrepareSteering, GearDone, Preparing, inputs
<1>6. drive' \in Drives /\ gearCmd' \in {"D", "R", NoGear}
  BY DEF PrepareSteering, GearCommand, Drives, IInv, ControlTypeOK
<1>7. wheelCmd' \in Wheels \cup {None}
  BY <1>1, <1>2 DEF Wheels
<1>8. endHold' = FALSE => endHold' \in BOOLEAN
  BY Zenon
<1> QED BY <1>1, <1>3, <1>4, <1>5, <1>6, <1>7, <1>8, Zenon

LEMMA PrepareKeeps == ASSUME IInv, PrepareSteering PROVE IInv'
<1>1. CASE /\ steerCycles' < SteerStable /\ state' = "PREPARE_STEERING"
           /\ UNCHANGED <<pending, active, endHold>>
  BY <1>1, PrepareOutcomes, StopIsNoSegment
     DEF IInv, ControlTypeOK, PendingFits, Unfinished, NothingAsked, Preparing, States
<1>2. CASE /\ active' = pending /\ pending' = NoSegment /\ endHold' \in BOOLEAN
           /\ state' = "EXECUTING"
  BY <1>2, PrepareOutcomes, StopIsNoSegment
     DEF IInv, ControlTypeOK, PendingFits, Unfinished, NothingAsked, Preparing, States
<1> QED BY <1>1, <1>2, PrepareOutcomes

-----------------------------------------------------------------------------
LEMMA StepKeeps == IInv /\ [ControlNext]_controlVars => IInv'
<1> SUFFICES ASSUME IInv, [ControlNext]_controlVars PROVE IInv'
  OBVIOUS
<1>1. CASE \E t \in Segments \cup {Stop} : OnTrajectory(t)
  BY <1>1, TrajectoryKeeps
<1>2. CASE \E r \in Reports : ChassisReport(r)
  BY <1>2, ReportKeeps
<1>3. CASE \E b \in BOOLEAN : MotionStart(b)
  BY <1>3, OrderKeeps
<1>4. CASE TaskReset
  BY <1>4, ResetKeeps
<1>5. CASE GoalReached
  BY <1>5, GoalKeeps
<1>6. CASE \E near, elapsed \in BOOLEAN : Cycle(near, elapsed)
  BY <1>6, ExecuteKeeps, StraightenKeeps, ShiftKeeps, MovedAgainKeeps, PrepareKeeps, OnlyHoldKeeps
     DEF Cycle
<1>7. CASE UNCHANGED controlVars
  BY <1>7 DEF controlVars, IInv, ControlTypeOK, PendingFits, Unfinished, NothingAsked, Preparing
<1> QED BY <1>1, <1>2, <1>3, <1>4, <1>5, <1>6, <1>7 DEF ControlNext

LEMMA Invariance == ControlSpec => []IInv
<1> QED BY InitHolds, StepKeeps, PTL DEF ControlSpec

(* Every variable of the controller keeps its type: in particular the       *)
(* counts of the handshake stay within their thresholds.                    *)
THEOREM ControlTypes == ControlSpec => []ControlTypeOK
<1>1. IInv => ControlTypeOK
  BY DEF IInv
<1> QED BY <1>1, Invariance, PTL

(* A segment waits only while it is being prepared, and the gear asked for  *)
(* is its own; the wheels are prepared for a segment only, and something is *)
(* active whenever something is executed.                                   *)
THEOREM PendingAlwaysFits == ControlSpec => []PendingFits
<1>1. IInv => PendingFits
  BY DEF IInv
<1> QED BY <1>1, Invariance, PTL

-----------------------------------------------------------------------------
(***************************************************************************)
(* The refinement: what the planner may know of the controller.  Every      *)
(* step of the controller is one of SegmentExecution or changes neither     *)
(* Mode nor Doing.                                                          *)
(***************************************************************************)
Silent == Mode' = Mode /\ Doing' = Doing

LEMMA NothingSeen == ASSUME UNCHANGED <<state, pending, active>> PROVE Silent
BY DEF Silent, Mode, Doing, Preparing

LEMMA StageRefines ==
  ASSUME NEW t \in Segments \cup {Stop}, OnTrajectory(t)
  PROVE  SE!Stage(t) \/ SE!Refuse(t)
<1>1. CASE t = Stop /\ StageStop
  <2>1. Mode' = "EXECUTING" /\ Doing' = Stop
    BY <1>1 DEF StageStop, Mode, Doing, Preparing
  <2> QED BY <1>1, <2>1 DEF SE!Stage
<1>2. CASE t \in Segments /\ RefuseRolling(t)
  <2>1. Mode' = "PREPARING" /\ Doing' = NoSegment
    BY <1>2 DEF RefuseRolling, Mode, Doing, Preparing
  <2> QED BY <1>2, <2>1 DEF SE!Refuse, RefuseRolling
<1>3. CASE t \in Segments /\ StageMotion(t)
  <2>1. Mode' = "PREPARING" /\ Doing' = t
    BY <1>3 DEF StageMotion, Mode, Doing, Preparing
  <2> QED BY <1>3, <2>1 DEF SE!Stage
<1> QED BY <1>1, <1>2, <1>3 DEF OnTrajectory

LEMMA ResetRefines == TaskReset => SE!Cleared
BY DEF TaskReset, SE!Cleared, Mode, Doing, Preparing

LEMMA GoalRefines == GoalReached => SE!GoalTaken
BY DEF GoalReached, SE!GoalTaken, Mode, Doing, Preparing

LEMMA ExecuteRefines ==
  ASSUME IInv, NEW near \in BOOLEAN, NEW elapsed \in BOOLEAN, Execute(near, elapsed)
  PROVE  SE!EndReported \/ Silent
<1>1. state = "EXECUTING" /\ UNCHANGED <<pending, active>>
  BY DEF Execute
<1>2. CASE state' = state
  BY <1>1, <1>2, NothingSeen
<1>3. CASE state' = "SEGMENT_END_HOLD" /\ active \notin Rolling
  <2>1. Mode = "EXECUTING" /\ Mode' = "ENDED" /\ Doing = active /\ Doing' = active
    BY <1>1, <1>3 DEF Mode, Doing, Preparing
  <2> QED BY <1>3, <2>1 DEF SE!EndReported
<1>4. state' = state \/ (state' = "SEGMENT_END_HOLD" /\ active \notin Rolling)
  BY DEF Execute, SegmentEnd
<1> QED BY <1>2, <1>3, <1>4

LEMMA StraightenRefines == ASSUME Straighten PROVE SE!Straightened \/ Silent
<1>1. state = "STRAIGHTEN_STEERING" /\ UNCHANGED <<pending, active>>
  BY DEF Straighten
<1>2. CASE state' = state
  BY <1>1, <1>2, NothingSeen
<1>3. CASE state' = "PARKING_COMPLETE"
  BY <1>1, <1>3 DEF SE!Straightened, Mode, Doing, Preparing
<1> QED BY <1>2, <1>3 DEF Straighten

LEMMA PrepareRefines == ASSUME IInv, PrepareSteering PROVE SE!Release \/ Silent
<1>1. Mode = "PREPARING" /\ Doing = pending /\ pending # NoSegment
  <2>1. Preparing /\ pending # NoSegment
    BY PrepareOutcomes, SomethingPends
  <2> QED BY <2>1 DEF Mode, Doing, Preparing
<1>2. CASE state' = "PREPARE_STEERING" /\ UNCHANGED pending
  BY <1>1, <1>2 DEF Silent, Mode, Doing, Preparing
<1>3. CASE state' = "EXECUTING" /\ active' = pending
  <2>1. Mode' = "EXECUTING" /\ Doing' = pending
    BY <1>3 DEF Mode, Doing, Preparing
  <2> QED BY <1>1, <2>1 DEF SE!Release
<1> QED BY <1>2, <1>3, PrepareOutcomes

LEMMA CycleRefines ==
  ASSUME IInv, NEW near \in BOOLEAN, NEW elapsed \in BOOLEAN, Cycle(near, elapsed)
  PROVE  SE!EndReported \/ SE!Straightened \/ SE!Release \/ Silent
<1>1. CASE ShiftGear
  BY <1>1 DEF ShiftGear, Silent, Mode, Doing, Preparing
<1>2. CASE MovedAgain
  BY <1>2 DEF MovedAgain, Silent, Mode, Doing, Preparing
<1>3. CASE OnlyHold
  BY <1>3, NothingSeen DEF OnlyHold, segmentState
<1> QED BY <1>1, <1>2, <1>3, ExecuteRefines, StraightenRefines, PrepareRefines DEF Cycle

LEMMA StepRefines ==
  ASSUME IInv, [ControlNext]_controlVars
  PROVE  [SE!ExecutionNext]_(SE!segmentVars)
<1>1. CASE \E t \in Segments \cup {Stop} : OnTrajectory(t)
  BY <1>1, StageRefines DEF SE!ExecutionNext
<1>2. CASE \E r \in Reports : ChassisReport(r)
  BY <1>2, NothingSeen DEF ChassisReport, segmentState, Silent, SE!segmentVars
<1>3. CASE \E b \in BOOLEAN : MotionStart(b)
  BY <1>3, NothingSeen DEF MotionStart, segmentState, Silent, SE!segmentVars
<1>4. CASE TaskReset \/ GoalReached
  BY <1>4, ResetRefines, GoalRefines DEF SE!ExecutionNext
<1>5. CASE \E near, elapsed \in BOOLEAN : Cycle(near, elapsed)
  BY <1>5, CycleRefines DEF SE!ExecutionNext, Silent, SE!segmentVars
<1>6. CASE UNCHANGED controlVars
  BY <1>6, NothingSeen DEF controlVars, Silent, SE!segmentVars
<1> QED BY <1>1, <1>2, <1>3, <1>4, <1>5, <1>6 DEF ControlNext

(* The controller implements SegmentExecution: only the latest segment, once *)
(* prepared, is ever executed, its end is reported at most once, and nothing *)
(* is executed after a reset or a reached goal until a new trajectory comes.  *)
THEOREM ControlRefines == ControlSpec => ExecutesLatestSegment
<1>1. ControlInit => SE!ExecutionInit
  BY DEF ControlInit, SE!ExecutionInit, Mode, Doing, Preparing
<1>2. IInv /\ [ControlNext]_controlVars => [SE!ExecutionNext]_(SE!segmentVars)
  BY StepRefines
<1> QED BY <1>1, <1>2, Invariance, PTL DEF ControlSpec, ExecutesLatestSegment, SE!ExecutionSpec
===============================================================================
