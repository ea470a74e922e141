---------------------------- MODULE ParkingControl ----------------------------
(***************************************************************************)
(* The parking (open-space) execution state machine of the trajectory      *)
(* follower, controller_node.cpp.  A motion segment waits in the pending    *)
(* buffer until the vehicle has stopped (HOLD_STOP), the chassis has        *)
(* confirmed its gear (SHIFT_GEAR) and the front wheels stand at its first  *)
(* steering angle (PREPARE_STEERING); only then the longitudinal and        *)
(* lateral controllers see it.  Speeds are "moving or stopped", angles are  *)
(* "the start angle of this segment", straight, or neither.                 *)
(***************************************************************************)
EXTENDS Naturals

CONSTANTS
  Segments,     \* motion segments that may arrive on the trajectory topic
  GearOf,       \* GearOf[s]: gear of s, from is_forward_shift
  Rolling,      \* segments whose last point asks for a non-zero speed
  Stop,         \* a stop trajectory (isOpenSpaceStopTrajectory)
  NoSegment,
  VehicleMode,  \* IsVehicleMode(): commands go to a real chassis
  GearStable,   \* open_space_gear_confirm_stable_cycles
  SteerStable   \* open_space_steering_prepare_stable_cycles

(* kGearDrive, kGearReverse, neutral and kGearInvalid *)
Gears == {"D", "R", "N"}
NoGear == "invalid"

(* Front wheel angles told apart: the start angle of a segment, straight    *)
(* ahead, and anything else.  A drive command holds the vehicle at zero     *)
(* speed with its brake, or drives it along a segment.                      *)
Straight == "straight"
Between == "between"
Hold == "hold"
None == "none"   \* no command waits on the topic
Wheels == Segments \cup {Straight, Between}
Drives == Segments \cup {Hold, None}

ASSUME ParkingAssumption ==
  /\ GearOf \in [Segments -> {"D", "R"}]
  /\ Rolling \subseteq Segments
  /\ Stop \notin Segments /\ NoSegment \notin Segments /\ Stop # NoSegment
  /\ {Straight, Between, Hold, None} \cap (Segments \cup {Stop, NoSegment}) = {}
  /\ VehicleMode \in BOOLEAN
  /\ GearStable \in Nat \ {0} /\ SteerStable \in Nat \ {0}

States == {"IDLE", "HOLD_STOP", "SHIFT_GEAR", "PREPARE_STEERING", "EXECUTING",
           "SEGMENT_END_HOLD", "STRAIGHTEN_STEERING", "PARKING_COMPLETE"}

VARIABLES
  state,        \* open_space_execution_state_
  pending,      \* pending_open_space_trajectory_, NoSegment when there is none
  active,       \* sim_trajectory and the controllers' copies of it
  targetGear,   \* open_space_target_gear_
  gearCycles,   \* open_space_gear_confirmed_cycles_
  steerCycles,  \* open_space_steering_ready_cycles_
  endHold,      \* open_space_segment_end_candidate_start_ is set
  seen,         \* last chassis report: received, moving, gear, wheel
  motionStart,  \* lon_input.motion_start_cmd
  drive,        \* last command on auto_chassis_drive_cmd not yet taken
  gearCmd,      \* the same on auto_chassis_gear_cmd
  wheelCmd      \* the same on auto_chassis_steeringwheel_cmd

segmentState == <<state, pending, active>>
handshake == <<targetGear, gearCycles, steerCycles>>
inputs == <<seen, motionStart>>
commands == <<drive, gearCmd, wheelCmd>>
controlVars == <<state, pending, active, targetGear, gearCycles, steerCycles,
                 endHold, seen, motionStart, drive, gearCmd, wheelCmd>>

Reports == [received : {TRUE}, moving : BOOLEAN, gear : Gears, wheel : Wheels]

(* input_data_.vel has no initializer: before the first report the vehicle  *)
(* may seem to move or to stand.                                            *)
NoReport(m) == [received |-> FALSE, moving |-> m, gear |-> NoGear, wheel |-> Between]
Known == Reports \cup {NoReport(m) : m \in BOOLEAN}

ControlInit ==
  /\ state = "IDLE" /\ pending = NoSegment /\ active = NoSegment
  /\ targetGear = NoGear /\ gearCycles = 0 /\ steerCycles = 0 /\ endHold = FALSE
  /\ seen \in {NoReport(m) : m \in BOOLEAN}
  /\ motionStart = FALSE
  /\ drive = None /\ gearCmd = NoGear /\ wheelCmd = None

(* No command goes to a real chassis that has not reported yet.             *)
Mute == VehicleMode /\ ~seen.received

(* publishOpenSpaceHoldCommand *)
HoldCommand == IF Mute THEN drive ELSE Hold

-----------------------------------------------------------------------------
(***************************************************************************)
(* stageOpenSpaceTrajectory.  An empty trajectory is ignored.               *)
(***************************************************************************)
StageStop ==
  /\ pending' = NoSegment
  /\ targetGear' = NoGear /\ gearCycles' = 0
  /\ active' = Stop /\ endHold' = FALSE
  /\ state' = "EXECUTING"
  /\ UNCHANGED <<steerCycles, inputs, commands>>

RefuseRolling(s) ==
  /\ VehicleMode /\ s \in Rolling
  /\ pending' = NoSegment
  /\ targetGear' = NoGear
  /\ state' = "HOLD_STOP"
  /\ drive' = HoldCommand
  /\ UNCHANGED <<active, gearCycles, steerCycles, endHold, inputs, gearCmd, wheelCmd>>

(* Mutant: a segment that comes during the handshake does not restart it. *)
StageMotionInPlace(s) ==
  /\ ~(VehicleMode /\ s \in Rolling)
  /\ pending' = s
  /\ targetGear' = GearOf[s] /\ gearCycles' = 0 /\ steerCycles' = 0
  /\ state' = IF pending = NoSegment THEN "HOLD_STOP" ELSE state
  /\ UNCHANGED <<active, endHold, inputs, commands>>

StageMotion(s) ==
  /\ ~(VehicleMode /\ s \in Rolling)
  /\ pending' = s
  /\ targetGear' = GearOf[s] /\ gearCycles' = 0 /\ steerCycles' = 0
  /\ state' = "HOLD_STOP"
  /\ UNCHANGED <<active, endHold, inputs, commands>>

OnTrajectory(t) ==
  \/ t = Stop /\ StageStop
  \/ t \in Segments /\ (RefuseRolling(t) \/ StageMotion(t))

-----------------------------------------------------------------------------
(* chassisCallback: only reports that arrive while shifting are counted.    *)
ChassisReport(r) ==
  /\ seen' = r
  /\ gearCycles' =
       IF state # "SHIFT_GEAR" THEN gearCycles
       ELSE IF targetGear # NoGear /\ r.gear = targetGear /\ gearCycles < GearStable
            THEN gearCycles + 1
       ELSE IF targetGear # NoGear /\ r.gear = targetGear THEN gearCycles
       ELSE 0
  /\ UNCHANGED <<segmentState, targetGear, steerCycles, endHold, motionStart, commands>>

MotionStart(b) ==
  /\ motionStart' = b
  /\ UNCHANGED <<segmentState, handshake, endHold, seen, commands>>

(* Mutant: the trajectories are cleared, the state is not. *)
TaskResetBuffers ==
  /\ pending' = NoSegment /\ active' = NoSegment
  /\ targetGear' = NoGear /\ gearCycles' = 0 /\ steerCycles' = 0
  /\ endHold' = FALSE /\ motionStart' = FALSE /\ drive' = HoldCommand
  /\ UNCHANGED <<state, seen, gearCmd, wheelCmd>>

(* openSpaceTaskResetCallback *)
TaskReset ==
  /\ state' = "IDLE" /\ pending' = NoSegment /\ active' = NoSegment
  /\ targetGear' = NoGear /\ gearCycles' = 0 /\ steerCycles' = 0
  /\ endHold' = FALSE
  /\ motionStart' = FALSE
  /\ drive' = HoldCommand
  /\ UNCHANGED <<seen, gearCmd, wheelCmd>>

(* Mutant: the pending segment is not dropped. *)
GoalReachedOnly ==
  /\ state' = "STRAIGHTEN_STEERING"
  /\ gearCycles' = 0 /\ steerCycles' = 0 /\ endHold' = FALSE
  /\ UNCHANGED <<pending, active, targetGear, inputs, commands>>

(* openSpaceGoalReachedCallback *)
GoalReached ==
  /\ state' = "STRAIGHTEN_STEERING" /\ pending' = NoSegment
  /\ targetGear' = NoGear /\ gearCycles' = 0 /\ steerCycles' = 0
  /\ endHold' = FALSE
  /\ UNCHANGED <<active, inputs, commands>>

-----------------------------------------------------------------------------
(***************************************************************************)
(* One 50 Hz cycle of run(): the longitudinal part, then latControl().      *)
(***************************************************************************)

(* updateOpenSpaceSegmentEndHold.  near: no more than                       *)
(* open_space_segment_end_remaining_distance is left of the active segment; *)
(* elapsed: more than open_space_segment_end_stable_duration since endHold. *)
SegmentEnd(near, elapsed) ==
  LET candidate == near /\ active \notin Rolling /\ ~seen.moving
  IN  /\ endHold' = candidate
      /\ state' = IF candidate /\ endHold /\ elapsed THEN "SEGMENT_END_HOLD" ELSE state

(* EXECUTING: openSpaceLonControl; a real vehicle is held while the motion  *)
(* start order is withdrawn.  The lateral controller then steers along the  *)
(* path, by any angle, or keeps the wheels where they are on a stop         *)
(* trajectory.  A controller is configured and can compute a command for    *)
(* every segment, which has two points or more.                             *)
Withheld == VehicleMode /\ ~motionStart

Execute(near, elapsed) ==
  /\ state = "EXECUTING"
  /\ \/ /\ Withheld
        /\ drive' = Hold
        /\ UNCHANGED <<state, endHold>>
     \/ /\ ~Withheld
        /\ drive' = IF active = Stop THEN Hold ELSE active
        /\ SegmentEnd(active = Stop \/ near, elapsed)
  /\ wheelCmd' \in IF state' # "EXECUTING" THEN {wheelCmd}
                   ELSE IF active = Stop THEN {seen.wheel} ELSE Wheels
  /\ UNCHANGED <<pending, active, handshake, inputs, gearCmd>>

(* updateOpenSpaceSteeringReady *)
ReadyCycles(target) == IF seen.received /\ seen.wheel = target THEN steerCycles + 1 ELSE 0

Straighten ==
  /\ state = "STRAIGHTEN_STEERING"
  /\ drive' = Hold /\ wheelCmd' = Straight
  /\ steerCycles' = IF seen.moving THEN 0 ELSE ReadyCycles(Straight)
  /\ state' = IF steerCycles' >= SteerStable THEN "PARKING_COMPLETE" ELSE state
  /\ UNCHANGED <<pending, active, targetGear, gearCycles, endHold, inputs, gearCmd>>

(* Mutant: the gear is ordered once only. *)
GearCommandOnce ==
  IF targetGear = NoGear \/ state # "HOLD_STOP" THEN gearCmd ELSE targetGear

(* publishOpenSpaceGearCommand says nothing without a target.               *)
GearCommand == IF targetGear = NoGear THEN gearCmd ELSE targetGear

(* Mutant: the first feedback of the gear is enough. *)
ConfirmedAtOnce == seen.gear = targetGear

(* HOLD_STOP with the vehicle at rest, and SHIFT_GEAR until the gear is     *)
(* confirmed; a vehicle that moves again goes back to HOLD_STOP.            *)
Confirmed == seen.gear = targetGear /\ gearCycles >= GearStable

ShiftGear ==
  /\ state \in {"HOLD_STOP", "SHIFT_GEAR"} /\ ~seen.moving
  /\ state = "SHIFT_GEAR" => ~Confirmed
  /\ state' = "SHIFT_GEAR"
  /\ gearCycles' = IF state = "HOLD_STOP" THEN 0 ELSE gearCycles
  /\ drive' = Hold /\ gearCmd' = GearCommand
  /\ UNCHANGED <<pending, active, targetGear, steerCycles, endHold, inputs, wheelCmd>>

MovedAgain ==
  /\ state = "SHIFT_GEAR" /\ seen.moving
  /\ state' = "HOLD_STOP" /\ gearCycles' = 0
  /\ drive' = Hold
  /\ UNCHANGED <<pending, active, targetGear, steerCycles, endHold, inputs, gearCmd, wheelCmd>>

(* PREPARE_STEERING, entered in the very cycle that finds the gear          *)
(* confirmed; activateTrajectory once the wheels have been in place for     *)
(* SteerStable cycles.                                                      *)
GearDone == state = "SHIFT_GEAR" /\ ~seen.moving /\ Confirmed

PrepareSteering ==
  /\ GearDone \/ state = "PREPARE_STEERING"
  /\ drive' = Hold
  /\ gearCmd' = IF state = "SHIFT_GEAR" THEN GearCommand ELSE gearCmd
  /\ \/ /\ pending = NoSegment
        /\ state' = "PREPARE_STEERING"
        /\ UNCHANGED <<pending, active, steerCycles, endHold, wheelCmd>>
     \/ /\ pending # NoSegment
        /\ wheelCmd' = pending
        /\ steerCycles' = ReadyCycles(pending)
        /\ \/ /\ steerCycles' < SteerStable
              /\ state' = "PREPARE_STEERING"
              /\ UNCHANGED <<pending, active, endHold>>
           \/ /\ steerCycles' >= SteerStable
              /\ active' = pending /\ endHold' = FALSE
              /\ pending' = NoSegment
              /\ state' = "EXECUTING"
  /\ UNCHANGED <<targetGear, gearCycles, inputs>>

(* The states that only brake, and HOLD_STOP while the vehicle still moves. *)
OnlyHold ==
  /\ \/ state \in {"IDLE", "SEGMENT_END_HOLD", "PARKING_COMPLETE"}
     \/ state = "HOLD_STOP" /\ seen.moving
  /\ drive' = Hold
  /\ wheelCmd' = IF state = "PARKING_COMPLETE" THEN Straight ELSE wheelCmd
  /\ UNCHANGED <<segmentState, handshake, endHold, inputs, gearCmd>>

Cycle(near, elapsed) ==
  /\ ~Mute
  /\ \/ Execute(near, elapsed)
     \/ Straighten \/ ShiftGear \/ MovedAgain \/ PrepareSteering \/ OnlyHold

-----------------------------------------------------------------------------
(***************************************************************************)
(* The controller in an open environment: trajectories, reports, orders    *)
(* and timer cycles in any order.                                          *)
(***************************************************************************)
ControlNext ==
  \/ \E t \in Segments \cup {Stop} : OnTrajectory(t)
  \/ \E r \in Reports : ChassisReport(r)
  \/ \E b \in BOOLEAN : MotionStart(b)
  \/ TaskReset \/ GoalReached
  \/ \E near, elapsed \in BOOLEAN : Cycle(near, elapsed)

ControlSpec == ControlInit /\ [][ControlNext]_controlVars

(* A segment is pending exactly while it is being prepared, something is     *)
(* active whenever it is executed or has ended, and the gear asked for is    *)
(* that of the pending segment.                                              *)
ControlTypeOK ==
  /\ state \in States
  /\ pending \in Segments \cup {NoSegment}
  /\ active \in Segments \cup {Stop, NoSegment}
  /\ targetGear \in {"D", "R", NoGear}
  /\ gearCycles \in 0..GearStable
  /\ steerCycles \in 0..SteerStable
  /\ endHold \in BOOLEAN
  /\ seen \in Known
  /\ motionStart \in BOOLEAN
  /\ drive \in Drives
  /\ gearCmd \in {"D", "R", NoGear}
  /\ wheelCmd \in Wheels \cup {None}

Preparing == state \in {"HOLD_STOP", "SHIFT_GEAR", "PREPARE_STEERING"}

PendingFits ==
  /\ pending # NoSegment => Preparing /\ targetGear = GearOf[pending]
  /\ state = "PREPARE_STEERING" => pending # NoSegment
  /\ state \in {"EXECUTING", "SEGMENT_END_HOLD"} => active # NoSegment

(* The controller implements SegmentExecution: what it is doing, and with   *)
(* which segment.                                                           *)
Mode == CASE Preparing -> "PREPARING"
          [] state = "SEGMENT_END_HOLD" -> "ENDED"
          [] state = "STRAIGHTEN_STEERING" -> "STRAIGHTENING"
          [] state = "PARKING_COMPLETE" -> "COMPLETE"
          [] OTHER -> state

Doing == IF Preparing THEN pending
         ELSE IF state \in {"EXECUTING", "SEGMENT_END_HOLD"} THEN active
         ELSE NoSegment

SE == INSTANCE SegmentExecution WITH mode <- Mode, segment <- Doing

(* Only the latest segment, once prepared, is ever executed; its end is     *)
(* reported once; nothing is executed after a reset or a reached goal.      *)
ExecutesLatestSegment == SE!ExecutionSpec
===============================================================================
