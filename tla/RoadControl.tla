------------------------------ MODULE RoadControl ------------------------------
(***************************************************************************)
(* The longitudinal control of a vehicle on the road: lonControl of          *)
(* controller_node.cpp with LonController and TankController behind it.      *)
(* Every cycle of the node it publishes a gear, a drive and a parking brake   *)
(* command from the last chassis report, trajectory, pose and start order.   *)
(* Speeds are told apart where the code compares them, distances are counted  *)
(* in points; the closed loop itself is left open.                           *)
(***************************************************************************)
EXTENDS Naturals, Sequences

CONSTANTS
  Trajectories,  \* what the planner may publish: a gear and the speed of each point
  MinPoints,     \* point_size_to_end
  StopPoints,    \* path_to_stop, in points
  HaltPoints     \* the metre before the end in which the vehicle is parked, in points

Gears == {"N", "D", "P", "R"}
Speeds == {"zero", "slow", "fast"}   \* fast: more than 0.5 m/s

ASSUME RoadAssumption ==
  /\ \A t \in Trajectories : t.gear \in {"D", "R"} /\ t.speed \in Seq(Speeds) /\ t.speed # <<>>
  /\ MinPoints \in Nat /\ StopPoints \in Nat /\ HaltPoints \in Nat

VARIABLES
  terminal,     \* lon_input.motion_start_cmd
  seen,         \* lon_input.chassis_data: gear, moving, remote button, automatic mode
  trajectory,   \* lon_input.trajectory_data
  place,        \* index of its point nearest to the pose in lon_input
  fits,         \* inputTrajectoryType = trajectoryType
  motionCmd,    \* mChassis.motion_start_cmd
  lastTerminal, \* mLstTermMotionCmd
  index,        \* nearst_index: the point the vehicle was nearest to when it last looked
  stopFinal,    \* is_stop_final
  order         \* what is on the three command topics

inputVars == <<terminal, seen, trajectory, place, fits>>
laws == <<motionCmd, lastTerminal, index, stopFinal, order>>
roadVars == <<terminal, seen, trajectory, place, fits,
              motionCmd, lastTerminal, index, stopFinal, order>>

(* No chassis takes the gear "none" of the order before the first.           *)
Order(g, d) == [gear |-> g, drive |-> d]
Parks(o) == o.gear \in {"N", "P"}

(* A trajectory or report that never came is all zeros: no points, backwards;   *)
(* neutral, manual, no button.  The terminal's order is invalid until one comes. *)
NoTrajectory == [gear |-> "R", speed |-> <<>>]

RoadInit ==
  /\ terminal = "invalid"
  /\ seen = [gear |-> "N", moving |-> FALSE, remote |-> "none", auto |-> FALSE]
  /\ trajectory = NoTrajectory /\ place = 1 /\ fits = TRUE
  /\ motionCmd = "invalid" /\ lastTerminal = "invalid"
  /\ index = 2 /\ stopFinal = FALSE
  /\ order = Order("none", "free")

-------------------------------------------------------------------------------
(* ConvChassisMsg: a valid order of the terminal counts when it changes, the    *)
(* button of the remote control whenever the report shows it, and it goes first. *)
TerminalChanged == terminal \notin {"invalid", lastTerminal}

(* Mutant: a start of the terminal counts as long as it stands. *)
MotionByLevel ==
  IF seen.remote # "none" THEN seen.remote
  ELSE IF terminal # "invalid" THEN terminal ELSE motionCmd

Motion ==
  IF seen.remote # "none" THEN seen.remote
  ELSE IF TerminalChanged THEN terminal ELSE motionCmd

-------------------------------------------------------------------------------
(* ComputeControlCommand.  The commands name the cases it tells apart:         *)
(* "brake" holds or slows the vehicle, "throttle" drives it, "free" is         *)
(* neither: an acceleration of zero or more, and no throttle.                *)
Long == Len(trajectory.speed) >= MinPoints

(* The speed at an index past the end of the points is whatever is there.     *)
Fast(i) ==
  IF i <= Len(trajectory.speed) THEN {trajectory.speed[i] = "fast"} ELSE BOOLEAN

Remaining == Len(trajectory.speed) - place
AtEnd == Remaining < StopPoints /\ Remaining <= HaltPoints

(* Without a trajectory worth following.                                     *)
WithoutTrajectory ==
  IF seen.gear = "N" THEN Order("N", "free")
  ELSE Order(IF seen.moving THEN seen.gear ELSE "P", "brake")

(* Mutant: at rest the vehicle waits in its gear. *)
StoppedInGear ==
  Order(seen.gear, IF seen.gear = "P" THEN "free" ELSE "brake")

(* After an order to stop. *)
Stopped ==
  IF seen.gear = "P" THEN Order("P", "free")
  ELSE Order(IF seen.moving THEN seen.gear ELSE "P", "brake")

(* Mutant: neutral is ordered again when it is in. *)
ShiftOnlyToNeutral ==
  Order(IF seen.moving THEN seen.gear ELSE "N", "brake")

(* Another gear than the planned one is in: to neutral at rest, from there to  *)
(* the planned one.                                                          *)
Shift ==
  Order(IF seen.moving THEN seen.gear
        ELSE IF seen.gear = "N" THEN trajectory.gear ELSE "N", "brake")

(* StopVehicle within the last metre. *)
Halt ==
  IF seen.gear = "P" \/ ~seen.moving THEN Order("P", "free")
  ELSE Order(seen.gear, "brake")

(* The closed loop in the gear that is in.  At rest the speed error is never    *)
(* below the threshold of the brake.                                         *)
Closed == {Order(seen.gear, d) : d \in {"throttle", "free"} \cup
                                       (IF seen.moving THEN {"brake"} ELSE {})}

(* Mutant: the end of the path is not remembered. *)
FollowForgetting ==
  /\ index' = place
  /\ order' \in IF AtEnd THEN {Halt} ELSE Closed
  /\ UNCHANGED stopFinal

Follow ==
  /\ index' = place
  /\ order' \in IF AtEnd THEN {Halt} ELSE Closed
  /\ stopFinal' = (stopFinal \/ (AtEnd /\ (seen.gear = "P" \/ ~seen.moving)))

(* Neither a vehicle that is driven by hand nor one that was never told to start *)
(* or stop is touched: its gear is ordered again.                            *)
Compute ==
  \/ /\ ~seen.auto \/ motionCmd' = "invalid"
     /\ order' = Order(seen.gear, "free")
     /\ UNCHANGED <<index, stopFinal>>
  \/ /\ seen.auto /\ motionCmd' = "stop"
     /\ order' = Stopped
     /\ stopFinal' = FALSE
     /\ UNCHANGED index
  \/ /\ seen.auto /\ motionCmd' = "start" /\ ~Long
     /\ order' = WithoutTrajectory
     /\ UNCHANGED <<index, stopFinal>>
  \/ /\ seen.auto /\ motionCmd' = "start" /\ Long
     /\ \E fast \in Fast(index) :
          IF seen.gear # trajectory.gear /\ (~stopFinal \/ fast)
          THEN order' = Shift /\ stopFinal' = FALSE /\ UNCHANGED index
          ELSE Follow

(* run and lonControl.  A trajectory of another type than the mission silences  *)
(* the node.                                                                 *)
Cycle ==
  /\ fits
  /\ motionCmd' = Motion
  /\ lastTerminal' = IF TerminalChanged THEN terminal ELSE lastTerminal
  /\ Compute
  /\ UNCHANGED inputVars

-------------------------------------------------------------------------------
(* chassisCallback, motionStartCallback, activateTrajectory with the pose of    *)
(* callbackPose, callbackPlatoonMission.                                     *)
TakeReport(r) == seen' = r /\ UNCHANGED <<terminal, trajectory, place, fits, laws>>
TakeTerminal(o) == terminal' = o /\ UNCHANGED <<seen, trajectory, place, fits, laws>>

TakeTrajectory(t, p, f) ==
  /\ trajectory' = t /\ place' = p /\ fits' = f
  /\ UNCHANGED <<terminal, seen, laws>>

TakePose(p) == place' = p /\ UNCHANGED <<terminal, seen, trajectory, fits, laws>>
TakeMission(f) == fits' = f /\ UNCHANGED <<terminal, seen, trajectory, place, laws>>
===============================================================================
