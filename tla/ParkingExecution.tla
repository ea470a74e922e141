--------------------------- MODULE ParkingExecution ---------------------------
(***************************************************************************)
(* Controller and simulated vehicle together, for whatever planner and      *)
(* operator.  Drive and steering commands are taken one by one and in order, *)
(* the gear command and the task reset travel on topics of their own.        *)
(***************************************************************************)
EXTENDS ParkingBackEnd

VARIABLES
  gear, pendingGear, motion, wheel, wheelTarget, enabled,
  resets      \* who has not yet received the last task reset

V == INSTANCE ParkingVehicle

vehicle == <<gear, pendingGear, motion, wheel, wheelTarget, enabled>>
links == <<resets, late>>
executionVars == <<controlVars, vehicle, links>>

ExecutionInit ==
  /\ ControlInit /\ V!VehicleInit
  /\ resets = {} /\ late = 0

-----------------------------------------------------------------------------
(* What the planner and the operator do: segments come in any number and at *)
(* any time, but never before the reset that made way for them, and none is *)
(* sent again while it is being prepared; a goal is reached once.           *)
Send(t) ==
  /\ "controller" \notin resets /\ t # pending
  /\ OnTrajectory(t)
  /\ UNCHANGED <<vehicle, links>>

SendGoalReached ==
  /\ "controller" \notin resets
  /\ state \notin {"STRAIGHTEN_STEERING", "PARKING_COMPLETE"}
  /\ GoalReached
  /\ UNCHANGED <<vehicle, links>>

Reset ==
  /\ resets = {}
  /\ resets' = {"controller", "vehicle"}
  /\ UNCHANGED <<controlVars, vehicle, late>>

(* The motion start order of a task comes after its reset; only on a real   *)
(* vehicle the controller listens to it too.                                *)
Order(b) ==
  /\ resets = {}
  /\ V!Enable(b)
  /\ UNCHANGED <<controlVars, links>>

-----------------------------------------------------------------------------
(* Messages to the vehicle; a gear command or a reset is under way for no   *)
(* more than Lag reports.                                                   *)
Waiting == gearCmd # NoGear \/ "vehicle" \in resets
Received == late' = IF Waiting' THEN late ELSE 0

ResetController ==
  /\ "controller" \in resets
  /\ TaskReset
  /\ resets' = resets \ {"controller"}
  /\ UNCHANGED <<vehicle, late>>

ResetVehicle ==
  /\ "vehicle" \in resets
  /\ \E w \in Wheels : V!VehicleReset(w)
  /\ resets' = resets \ {"vehicle"}
  /\ UNCHANGED <<controlVars>>
  /\ Received

DeliverGear ==
  /\ gearCmd # NoGear
  /\ V!TakeGear(gearCmd)
  /\ gearCmd' = NoGear
  /\ UNCHANGED <<segmentState, handshake, endHold, inputs, drive, wheelCmd, resets>>
  /\ Received

DeliverWheel ==
  /\ wheelCmd # None
  /\ V!TakeWheel(wheelCmd)
  /\ wheelCmd' = None
  /\ UNCHANGED <<segmentState, handshake, endHold, inputs, drive, gearCmd, links>>

DeliverDrive ==
  /\ drive # None
  /\ V!TakeDrive(IF drive = Hold THEN V!Braking ELSE V!Driving(GearOf[drive]))
  /\ drive' = None
  /\ UNCHANGED <<segmentState, handshake, endHold, inputs, gearCmd, wheelCmd, links>>

(* One tick of the vehicle ends with its chassis report.                    *)
Report ==
  /\ Waiting => late < Lag
  /\ \E elapsed \in BOOLEAN : V!Tick(elapsed)
  /\ ChassisReport([received |-> TRUE, moving |-> motion # "stop",
                    gear |-> gear', wheel |-> wheel'])
  /\ late' = IF Waiting THEN late + 1 ELSE 0
  /\ UNCHANGED <<resets>>

(* A control cycle, after the commands of the last one have been taken; the *)
(* vehicle may be anywhere on its segment.                                  *)
ControlCycle ==
  /\ drive = None /\ wheelCmd = None
  /\ \E near, elapsed \in BOOLEAN : Cycle(near, elapsed)
  /\ UNCHANGED <<vehicle, links>>

Environment ==
  \/ \E t \in Segments \cup {Stop} : Send(t)
  \/ SendGoalReached \/ Reset
  \/ \E b \in BOOLEAN : Order(b)

Machine ==
  \/ ControlCycle \/ Report
  \/ DeliverGear \/ DeliverDrive \/ DeliverWheel
  \/ ResetController \/ ResetVehicle

ExecutionNext == Environment \/ Machine

Spec == ExecutionInit /\ [][ExecutionNext]_executionVars

(* Timers and subscriptions are served; a vehicle held by its brake comes   *)
(* to rest, a shift at rest takes place and the wheels reach their target.  *)
Brakes == DeliverDrive /\ motion' = "stop"
Shifts == Report /\ pendingGear # "none" /\ gear' = pendingGear
WheelsArrive == Report /\ wheel' = wheelTarget

Fairness ==
  /\ WF_executionVars(ControlCycle)
  /\ WF_executionVars(DeliverGear) /\ WF_executionVars(DeliverWheel)
  /\ WF_executionVars(ResetController) /\ WF_executionVars(ResetVehicle)
  /\ SF_executionVars(Brakes) /\ SF_executionVars(Shifts) /\ SF_executionVars(WheelsArrive)

FairSpec == Spec /\ Fairness

-----------------------------------------------------------------------------
(* The gear handshake protects the drive: a vehicle never moves against the *)
(* gear it is in, whatever overtakes whatever and whoever resets the task.  *)
MovesInGear == motion # "stop" => gear = motion

(* A segment is released to a vehicle at rest whose wheels stand at its      *)
(* start angle and whose gear is its own, with no other shift to come.      *)
ReleasedWhenReady ==
  [][active' # active /\ active' \in Segments /\ "controller" \notin resets =>
       /\ motion = "stop" /\ wheel = active'
       /\ gear = GearOf[active'] /\ pendingGear = "none"]_executionVars

(* No handshake hangs: while the vehicle may move, a pending segment is      *)
(* released or superseded, and after the goal the wheels are straightened.  *)
HandshakeEnds ==
  /\ \A s \in Segments : pending = s /\ enabled ~> pending # s \/ ~enabled
  /\ state = "STRAIGHTEN_STEERING" /\ enabled
       ~> state # "STRAIGHTEN_STEERING" \/ ~enabled
===============================================================================
