---------------------------- MODULE LiteExecution ----------------------------
(***************************************************************************)
(* The parking controller on the Lite simulator, behind the bridge: whatever *)
(* planner sends segments, and a controller that may stop for good.  The     *)
(* topics from the controller to the bridge are independent.                 *)
(***************************************************************************)
EXTENDS ParkingBackEnd

VARIABLES
  requested, applied, throttle, driveFresh, command, lite,
  alive       \* the controller runs

B == INSTANCE ParkingBridge

bridge == <<requested, applied, throttle, driveFresh, command, lite>>
liteVars == <<controlVars, bridge, alive, late>>

LiteInit == ControlInit /\ B!BridgeInit /\ alive = TRUE /\ late = 0

-------------------------------------------------------------------------------
(* Planner and operator, as in ParkingExecution; the reset of a task reaches   *)
(* the controller only.                                                      *)
LiteSend(t) ==
  /\ alive /\ t # pending
  /\ OnTrajectory(t)
  /\ UNCHANGED <<bridge, alive, late>>

LiteGoalReached ==
  /\ alive /\ state \notin {"STRAIGHTEN_STEERING", "PARKING_COMPLETE"}
  /\ GoalReached
  /\ UNCHANGED <<bridge, alive, late>>

LiteReset ==
  /\ alive
  /\ TaskReset
  /\ UNCHANGED <<bridge, alive, late>>

(* The controller's node ends; what it sent last may still arrive. *)
Die ==
  /\ alive /\ alive' = FALSE
  /\ state' = "IDLE" /\ pending' = NoSegment /\ active' = NoSegment
  /\ targetGear' = NoGear /\ gearCycles' = 0 /\ steerCycles' = 0 /\ endHold' = FALSE
  /\ seen' = NoReport(FALSE)
  /\ UNCHANGED <<motionStart, commands, bridge, late>>

-------------------------------------------------------------------------------
(* An order is under way: to the bridge, to its next command, or to the vehicle. *)
OnItsWay == gearCmd # NoGear \/ requested # applied \/ command.reverse # lite.reverse
Arrived == late' = IF OnItsWay' THEN late ELSE 0

LiteGear ==
  /\ gearCmd # NoGear
  /\ B!TakeGear(gearCmd)
  /\ gearCmd' = NoGear
  /\ UNCHANGED <<segmentState, handshake, endHold, inputs, drive, wheelCmd, alive>>
  /\ Arrived

(* Steering is left open: its orders are taken with those to drive. *)
LiteDrive ==
  /\ drive # None
  /\ \E t \in IF drive = Hold THEN {FALSE} ELSE BOOLEAN : B!TakeDrive(t)
  /\ drive' = None /\ wheelCmd' = None
  /\ UNCHANGED <<segmentState, handshake, endHold, inputs, gearCmd, alive, late>>

(* Orders expire when the controller is silent. *)
Expire ==
  /\ ~alive /\ drive = None
  /\ B!DriveExpires
  /\ UNCHANGED <<controlVars, alive, late>>

BridgeTimer == B!ControlTimer /\ UNCHANGED <<controlVars, alive>> /\ Arrived
Vehicle == B!LiteStep /\ UNCHANGED <<controlVars, alive>> /\ Arrived

(* The vehicle's state reaches the controller through the bridge. *)
LiteReport ==
  /\ OnItsWay => late < Lag
  /\ alive
  /\ \E raw \in BOOLEAN, w \in {Between, Straight} \cup ({pending} \ {NoSegment}) :
       ChassisReport([received |-> TRUE, moving |-> lite.motion # "stop",
                      gear |-> B!GearLocation(raw), wheel |-> w])
  /\ late' = IF OnItsWay THEN late + 1 ELSE 0
  /\ UNCHANGED <<bridge, alive>>

LiteCycle ==
  /\ alive /\ drive = None /\ wheelCmd = None
  /\ \E near, elapsed \in BOOLEAN : Cycle(near, elapsed)
  /\ UNCHANGED <<bridge, alive, late>>

LiteNext ==
  \/ \E t \in Segments \cup {Stop} : LiteSend(t)
  \/ LiteGoalReached \/ LiteReset \/ Die
  \/ LiteGear \/ LiteDrive \/ Expire
  \/ BridgeTimer \/ Vehicle \/ LiteReport \/ LiteCycle

LiteSpec == LiteInit /\ [][LiteNext]_liteVars

(* What is in the queues is delivered, the bridge's timer and the vehicle's     *)
(* steps do not stop, and braking brings the vehicle to rest.                *)
Rests == Vehicle /\ ~command.throttle /\ lite'.motion = "stop"
LiteFairness ==
  /\ WF_liteVars(LiteDrive) /\ WF_liteVars(Expire)
  /\ WF_liteVars(BridgeTimer) /\ WF_liteVars(Rests)

LiteFairSpec == LiteSpec /\ LiteFairness

-------------------------------------------------------------------------------
(* A segment is released only to a vehicle that goes its way and is going to:  *)
(* no other gear order is on its way (gear feedback of publishChassis,         *)
(* handshake of the controller).                                             *)
ReleasedInGear ==
  [][active' # active /\ active' \in Segments =>
       /\ lite.reverse = (GearOf[active'] = "R")
       /\ requested = GearOf[active'] /\ applied = requested]_liteVars

(* When the controller falls silent the vehicle comes to rest and stays there, *)
(* whatever it was told last and whichever gear is in.                        *)
SilentControllerStops == ~alive ~> [](lite.motion = "stop")
===============================================================================
