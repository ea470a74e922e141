---------------------------- MODULE ParkingBridge ----------------------------
(***************************************************************************)
(* The bridge between the parking controller and the Lite simulator,        *)
(* lite_parking_bridge_node.cpp, and the vehicle behind it.  Lite knows no   *)
(* gear orders: it is told to go backwards or not with every control         *)
(* command, says whether it does, and its forward gear is reported from what *)
(* was ordered last.  Drive and steering orders expire, gear orders do not.  *)
(***************************************************************************)
VARIABLES
  requested,    \* requested_gear_, "none" while has_requested_gear_command_ is false
  applied,      \* applied_gear_, "none" while has_applied_gear_command_ is false
  throttle,     \* throttle_command_ > 0; the brake is on otherwise
  driveFresh,   \* the last drive command is no older than control_command_timeout_
  command,      \* what /vehicle_control_cmd says
  lite          \* the vehicle: goes backwards, its motion, its front wheels

bridgeVars == <<requested, applied, throttle, driveFresh, command, lite>>

Control(t, r) == [throttle |-> t, reverse |-> r]

(* No command has been sent before the first tick of the timer: the vehicle  *)
(* stands.                                                                  *)
BridgeInit ==
  /\ requested = "none" /\ applied = "none"
  /\ throttle = FALSE /\ driveFresh = FALSE
  /\ command = Control(FALSE, FALSE)
  /\ lite = [reverse |-> FALSE, motion |-> "stop"]

(* gearCommandCallback *)
TakeGear(g) ==
  /\ requested' = g
  /\ UNCHANGED <<applied, throttle, driveFresh, command, lite>>

(* driveCommandCallback.  An order to drive leaves the amount of throttle    *)
(* open: the brake may be on as well, near the end of a segment.            *)
TakeDrive(t) ==
  /\ throttle' = t /\ driveFresh' = TRUE
  /\ UNCHANGED <<requested, applied, command, lite>>

(* control_command_timeout_ passes without a command. *)
DriveExpires ==
  /\ driveFresh /\ driveFresh' = FALSE
  /\ UNCHANGED <<requested, applied, throttle, command, lite>>

(* Mutant: an old order to drive stays in force. *)
ThrottleForEver == throttle

(* With no fresh drive command the brake is on. *)
Throttle == driveFresh /\ throttle

(* controlTimerCallback *)
ControlTimer ==
  /\ applied' = requested
  /\ command' = Control(Throttle, requested = "R")
  /\ UNCHANGED <<requested, throttle, driveFresh, lite>>

(* gear_location of publishChassis.  Standing still the gear of the vehicle   *)
(* itself (raw) may be the first or none.                                   *)
GearLocation(raw) ==
  IF lite.reverse THEN "R" ELSE IF applied = "D" \/ raw THEN "D" ELSE "N"

(* The vehicle takes its newest command: it brakes, or drives the way it is    *)
(* told to go once it stands.                                               *)
Driven(dir) == IF lite.motion \in {"stop", dir} THEN {"stop", dir} ELSE {lite.motion, "stop"}

LiteStep ==
  /\ \E m \in IF command.throttle THEN Driven(IF command.reverse THEN "R" ELSE "D")
              ELSE {lite.motion, "stop"} :
       lite' = [reverse |-> command.reverse, motion |-> m]
  /\ UNCHANGED <<requested, applied, throttle, driveFresh, command>>
===============================================================================
