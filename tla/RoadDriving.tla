------------------------------ MODULE RoadDriving ------------------------------
(***************************************************************************)
(* The road controller, the vehicle behind its command topics, the planner,   *)
(* and an operator with a terminal and a remote control.  The chassis is not   *)
(* part of the repository: it changes gear at rest, brakes when it is told to  *)
(* or parked, and otherwise does what it likes.  It reports often enough that   *)
(* the last report is at most one change old.                               *)
(***************************************************************************)
EXTENDS RoadControl

CONSTANT Buttons   \* orders the remote control may give

ASSUME DrivingAssumption == Buttons \subseteq {"start", "stop"}

VARIABLES
  gear, moving, auto,   \* the vehicle
  started               \* a start order came since the last cycle that stopped

vehicle == <<gear, moving, auto>>
vars == <<roadVars, vehicle, started>>

Init ==
  /\ RoadInit
  /\ gear = "P" /\ moving = FALSE /\ auto = FALSE
  /\ started = FALSE

ControlCycle ==
  /\ Cycle
  /\ started' = (started /\ motionCmd' # "stop")
  /\ UNCHANGED vehicle

(* The chassis shows a press of the remote button in one report. *)
Report ==
  \E b \in Buttons \cup {"none"} :
    /\ TakeReport([gear |-> gear, moving |-> moving, remote |-> b, auto |-> auto])
    /\ started' = (started \/ b = "start")
    /\ UNCHANGED vehicle

Terminal ==
  \E o \in {"start", "stop"} :
    /\ TakeTerminal(o)
    /\ started' = (started \/ o = "start")
    /\ UNCHANGED vehicle

Plan ==
  /\ \E t \in Trajectories, f \in BOOLEAN :
       \E p \in 1..Len(t.speed) : TakeTrajectory(t, p, f)
  /\ UNCHANGED <<vehicle, started>>

Mission == \E f \in BOOLEAN : TakeMission(f) /\ UNCHANGED <<vehicle, started>>

-------------------------------------------------------------------------------
(* The vehicle.  In manual mode the driver has it.                           *)
Reported == seen.gear = gear /\ seen.moving = moving /\ seen.auto = auto

Shifted ==
  /\ Reported /\ auto /\ ~moving /\ order.gear \in Gears \ {gear}
  /\ gear' = order.gear
  /\ UNCHANGED <<roadVars, moving, auto, started>>

Held == Parks(order) \/ order.drive = "brake" \/ gear = "P"

SetsOff ==
  /\ Reported /\ auto /\ ~moving /\ ~Held
  /\ moving' = TRUE
  /\ UNCHANGED <<roadVars, gear, auto, started>>

ComesToRest ==
  /\ Reported /\ auto /\ moving
  /\ moving' = FALSE
  /\ UNCHANGED <<roadVars, gear, auto, started>>

Advances ==
  /\ moving /\ place < Len(trajectory.speed)
  /\ TakePose(place + 1)
  /\ UNCHANGED <<vehicle, started>>

TakesOver ==
  /\ Reported
  /\ auto' = ~auto
  /\ UNCHANGED <<roadVars, gear, moving, started>>

Driver ==
  /\ Reported /\ ~auto
  /\ \/ ~moving /\ gear' \in Gears /\ UNCHANGED moving
     \/ moving' = ~moving /\ UNCHANGED gear
  /\ UNCHANGED <<roadVars, auto, started>>

Next ==
  \/ ControlCycle \/ Report \/ Terminal \/ Plan \/ Mission
  \/ Shifted \/ SetsOff \/ ComesToRest \/ Advances \/ TakesOver \/ Driver

Spec == Init /\ [][Next]_vars

(* The node runs at 50 Hz and the chassis reports periodically; a gearbox       *)
(* at rest carries out its order, and a vehicle that is held comes to rest.   *)
FairSpec ==
  /\ Spec
  /\ WF_vars(ControlCycle) /\ WF_vars(Report)
  /\ WF_vars(Shifted) /\ WF_vars(ComesToRest /\ Held)

-------------------------------------------------------------------------------
RoadTypeOK ==
  /\ terminal \in {"invalid", "start", "stop"}
  /\ seen \in [gear : Gears, moving : BOOLEAN, remote : {"none", "start", "stop"}, auto : BOOLEAN]
  /\ trajectory \in Trajectories \cup {NoTrajectory}
  /\ place \in Nat /\ index \in Nat
  /\ fits \in BOOLEAN /\ stopFinal \in BOOLEAN
  /\ motionCmd \in {"invalid", "start", "stop"} /\ lastTerminal \in {"invalid", "start", "stop"}
  /\ order \in [gear : Gears \cup {"none"}, drive : {"throttle", "free", "brake"}]
  /\ gear \in Gears /\ moving \in BOOLEAN /\ auto \in BOOLEAN
  /\ started \in BOOLEAN

(* A vehicle stopped by either of its two operators' channels is only started by  *)
(* an order given after that: what the other channel still says does not count.  *)
StopLasts == [][motionCmd = "stop" /\ motionCmd' = "start" => started]_vars

Parked == gear = "P" /\ ~moving

(* A vehicle in automatic mode that is told to stop, and whose controller is not  *)
(* silenced, is in the end parked for good.                                 *)
StopParks == <>[](auto /\ fits /\ motionCmd = "stop") => <>[]Parked

Driving(t) == auto /\ fits /\ motionCmd = "start" /\ trajectory = t /\ Long

(* A vehicle told to start, whose trajectory asks for more than a crawl where it  *)
(* stands, does not stay in another gear.                                   *)
GearReached ==
  \A t \in Trajectories :
    []<>~(Driving(t) /\ t.speed[place] = "fast" /\ gear # t.gear)

(* One that is at the end of its trajectory, and is not to pass it at speed, is in  *)
(* the end parked for good, whatever gear it has to pass through.           *)
ParksAtEnd ==
  \A t \in Trajectories :
    <>[](Driving(t) /\ AtEnd /\ t.speed[place] # "fast") => <>[]Parked

===============================================================================
