---------------------------- MODULE ParkingVehicle ----------------------------
(***************************************************************************)
(* The vehicle of the parking simulation, simulate.cpp with                 *)
(* open_space_execution_mode and open_space_virtual_gear_shift: a gearbox   *)
(* that shifts at standstill after a delay, front wheels that turn at a     *)
(* limited rate towards the last angle ordered, and a speed that follows    *)
(* the last drive command, whatever the gear.                               *)
(***************************************************************************)
CONSTANTS
  Wheels,     \* front wheel angles told apart
  Straight    \* the angle after an initial pose

VARIABLES
  gear,         \* gear_location_
  pendingGear,  \* pending_gear_location_ while gear_shift_pending_, else "none"
  motion,       \* sign of v: "stop", "D" forward, "R" backward
  wheel,        \* steering
  wheelTarget,  \* open_space_target_tire_angle_rad_
  enabled       \* motion_start

vehicleVars == <<gear, pendingGear, motion, wheel, wheelTarget, enabled>>

VehicleInit ==
  /\ gear = "N" /\ pendingGear = "none"
  /\ motion = "stop"
  /\ wheel = Straight /\ wheelTarget = Straight
  /\ enabled = FALSE

(* onGearControlCommand: a request for the gear that is in cancels a shift  *)
(* under way, a repeated one does not restart its delay.                    *)
TakeGear(g) ==
  /\ pendingGear' = IF g = gear THEN "none" ELSE g
  /\ UNCHANGED <<gear, motion, wheel, wheelTarget, enabled>>

(* onLatControlCommand *)
TakeWheel(w) ==
  /\ wheelTarget' = IF enabled THEN w ELSE wheelTarget
  /\ UNCHANGED <<gear, pendingGear, motion, wheel, enabled>>

(* onLonControlCommand: braking never reverses the motion, driving may only *)
(* start it in the direction of the command.                                *)
TakeDrive(speeds) ==
  /\ motion' \in IF enabled THEN speeds ELSE {motion}
  /\ UNCHANGED <<gear, pendingGear, wheel, wheelTarget, enabled>>

Braking == {motion, "stop"}
Driving(dir) == IF motion \in {"stop", dir} THEN {"stop", dir} ELSE {motion, "stop"}

(* callbackTimer2: the wheels turn on and pass any angle on their way, a     *)
(* pending shift whose delay has elapsed is carried out at standstill.      *)
Tick(elapsed) ==
  /\ wheel' \in IF enabled /\ wheel # wheelTarget THEN Wheels ELSE {wheel}
  /\ \/ /\ pendingGear # "none" /\ motion = "stop" /\ elapsed
        /\ gear' = pendingGear /\ pendingGear' = "none"
     \/ /\ ~(pendingGear # "none" /\ motion = "stop" /\ elapsed)
        /\ UNCHANGED <<gear, pendingGear>>
  /\ UNCHANGED <<motion, wheelTarget, enabled>>

(* motionStartCallback *)
Enable(b) ==
  /\ enabled' = b
  /\ UNCHANGED <<gear, pendingGear, motion, wheel, wheelTarget>>

(* openSpaceTaskResetCallback; initPoseCallBack also sets the wheels ahead. *)
(* The report published at once says what that of the next tick says.       *)
VehicleReset(w) ==
  /\ w \in {wheel, Straight}
  /\ gear' = "N" /\ pendingGear' = "none"
  /\ motion' = "stop"
  /\ wheel' = w /\ wheelTarget' = w
  /\ enabled' = FALSE
===============================================================================
