------------------------------ MODULE RoadProofs ------------------------------
(***************************************************************************)
(* Theorems about the road controller, for any trajectories and distances.   *)
(* A vehicle that was stopped is started by a new order only: while it is     *)
(* stopped and none has come, the last report shows no pressed start button   *)
(* and a start that the terminal still shows has been answered before.       *)
(***************************************************************************)
EXTENDS RoadDriving, TLAPS

Answered == seen.remote # "start" /\ (terminal = "start" => lastTerminal = "start")
Quiet == motionCmd = "stop" /\ ~started => Answered
IInv == RoadTypeOK /\ Quiet

USE DrivingAssumption DEF Gears

(* What the controller makes of its inputs is an order, and a choice of drive.   *)
LEMMA CycleTyped == ASSUME RoadTypeOK, RoadAssumption, Cycle
                    PROVE /\ motionCmd' \in {"invalid", "start", "stop"}
                          /\ index' \in Nat /\ stopFinal' \in BOOLEAN
                          /\ order' \in [gear : Gears \cup {"none"}, drive : {"throttle", "free", "brake"}]
<1>1. motionCmd' \in {"invalid", "start", "stop"}
  BY DEF RoadTypeOK, Cycle, Motion
<1>2. trajectory.gear \in Gears
  BY DEF RoadTypeOK, RoadAssumption, NoTrajectory
<1>3. seen.gear \in Gears /\ place \in Nat /\ index \in Nat /\ stopFinal \in BOOLEAN
  BY DEF RoadTypeOK
<1>4. Stopped \in [gear : Gears, drive : {"free", "brake"}]
  BY <1>3 DEF Stopped, Order
<1>5. WithoutTrajectory \in [gear : Gears, drive : {"free", "brake"}]
  BY <1>3 DEF WithoutTrajectory, Order
<1>6. Shift \in [gear : Gears, drive : {"free", "brake"}]
  BY <1>2, <1>3 DEF Shift, Order
<1>7. Halt \in [gear : Gears, drive : {"free", "brake"}]
  BY <1>3 DEF Halt, Order
<1>8. Closed \subseteq [gear : Gears, drive : {"throttle", "free", "brake"}]
  BY <1>3 DEF Closed, Order
<1>9. Order(seen.gear, "free") \in [gear : Gears, drive : {"free", "brake"}]
  BY <1>3 DEF Order
<1>10. CASE Follow
  <2>1. order' \in [gear : Gears, drive : {"throttle", "free", "brake"}]
    BY <1>7, <1>8, <1>10 DEF Follow
  <2>2. index' \in Nat
    BY <1>3, <1>10 DEF Follow
  <2>3. stopFinal' \in BOOLEAN
    BY <1>10, Zenon DEF Follow
  <2> QED
    BY <1>1, <2>1, <2>2, <2>3
<1>11. CASE ~Follow
  <2>1. order' \in {Stopped, WithoutTrajectory, Shift, Order(seen.gear, "free")}
    BY <1>11, Zenon DEF Cycle, Compute
  <2>2. stopFinal' \in {FALSE, stopFinal} /\ index' = index
    BY <1>11, Zenon DEF Cycle, Compute
  <2> QED
    BY <1>1, <1>3, <1>4, <1>5, <1>6, <1>9, <2>1, <2>2
<1> QED
  BY <1>10, <1>11

LEMMA CycleKeeps == ASSUME IInv, RoadAssumption, ControlCycle
                    PROVE IInv'
<1>1. RoadTypeOK'
  <2>1. lastTerminal' \in {"invalid", "start", "stop"} /\ started' \in BOOLEAN
    BY DEF IInv, RoadTypeOK, ControlCycle, Cycle
  <2> QED
    BY CycleTyped, <2>1 DEF IInv, RoadTypeOK, ControlCycle, Cycle, inputVars, vehicle
<1>2. Quiet'
  BY DEF IInv, Quiet, Answered, RoadTypeOK, ControlCycle, Cycle, Motion, TerminalChanged, inputVars
<1> QED
  BY <1>1, <1>2 DEF IInv

LEMMA ReportKeeps == ASSUME IInv, Report
                     PROVE IInv'
<1> PICK b \in Buttons \cup {"none"} :
      /\ TakeReport([gear |-> gear, moving |-> moving, remote |-> b, auto |-> auto])
      /\ started' = (started \/ b = "start")
      /\ UNCHANGED vehicle
  BY Zenon DEF Report
<1>1. seen' = [gear |-> gear, moving |-> moving, remote |-> b, auto |-> auto]
  BY DEF TakeReport
<1>2. seen' \in [gear : Gears, moving : BOOLEAN, remote : {"none", "start", "stop"}, auto : BOOLEAN]
  BY <1>1 DEF IInv, RoadTypeOK
<1>3. RoadTypeOK'
  <2>1. started' \in BOOLEAN
    BY Zenon
  <2> QED
    BY <1>2, <2>1 DEF IInv, RoadTypeOK, TakeReport, laws, vehicle
<1>4. Quiet'
  <2>1. b = "start" => started'
    BY Zenon
  <2>2. UNCHANGED <<terminal, lastTerminal, motionCmd>> /\ seen'.remote = b
    BY <1>1 DEF TakeReport, laws
  <2>3. ~started' => ~started
    BY Zenon
  <2> QED
    BY <2>1, <2>2, <2>3 DEF IInv, Quiet, Answered
<1> QED
  BY <1>3, <1>4 DEF IInv

LEMMA TerminalKeeps == ASSUME IInv, Terminal
                       PROVE IInv'
<1> PICK o \in {"start", "stop"} :
      TakeTerminal(o) /\ started' = (started \/ o = "start") /\ UNCHANGED vehicle
  BY Zenon DEF Terminal
<1>1. RoadTypeOK'
  <2>1. started' \in BOOLEAN
    BY Zenon
  <2> QED
    BY <2>1 DEF IInv, RoadTypeOK, TakeTerminal, laws, vehicle
<1>2. Quiet'
  BY DEF IInv, Quiet, Answered, TakeTerminal, laws
<1> QED
  BY <1>1, <1>2 DEF IInv

(* The rest touches neither the orders to start and stop nor what answers them.   *)
LEMMA OthersKeep == ASSUME IInv, RoadAssumption,
                           Plan \/ Mission \/ Shifted \/ SetsOff \/ ComesToRest
                             \/ Advances \/ TakesOver \/ Driver \/ UNCHANGED vars
                    PROVE IInv' /\ UNCHANGED motionCmd
<1>1. UNCHANGED <<terminal, seen, laws, started>>
  BY DEF Plan, Mission, Shifted, SetsOff, ComesToRest, Advances, TakesOver, Driver, vars,
         TakeTrajectory, TakeMission, TakePose, roadVars, laws, vehicle
<1>2. Quiet'
  BY <1>1 DEF IInv, Quiet, Answered, laws
<1>3. trajectory' \in Trajectories \cup {NoTrajectory} /\ place' \in Nat /\ fits' \in BOOLEAN
  <2>1. CASE Plan
    <3> PICK t \in Trajectories, f \in BOOLEAN :
          \E p \in 1..Len(t.speed) : TakeTrajectory(t, p, f)
      BY <2>1, Zenon DEF Plan
    <3> PICK p \in 1..Len(t.speed) : TakeTrajectory(t, p, f)
      OBVIOUS
    <3>1. Len(t.speed) \in Nat
      BY DEF RoadAssumption
    <3> QED
      BY <3>1 DEF TakeTrajectory
  <2>2. CASE ~Plan
    <3>1. trajectory' = trajectory
      BY <2>2 DEF Mission, Shifted, SetsOff, ComesToRest, Advances, TakesOver,
                  Driver, vars, TakeMission, TakePose, roadVars
    <3>2. place' \in {place, place + 1}
      BY <2>2 DEF Mission, Shifted, SetsOff, ComesToRest, Advances, TakesOver,
                  Driver, vars, TakeMission, TakePose, roadVars
    <3>3. fits' \in BOOLEAN \cup {fits}
      BY <2>2 DEF Mission, Shifted, SetsOff, ComesToRest, Advances, TakesOver,
                  Driver, vars, TakeMission, TakePose, roadVars
    <3>4. trajectory \in Trajectories \cup {NoTrajectory} /\ place \in Nat
      BY DEF IInv, RoadTypeOK
    <3>5. fits' \in BOOLEAN
      BY <3>3, Zenon DEF IInv, RoadTypeOK
    <3> QED
      BY <3>1, <3>2, <3>4, <3>5
  <2> QED
    BY <2>1, <2>2
<1>4. gear' \in Gears /\ moving' \in BOOLEAN /\ auto' \in BOOLEAN
  <2>1. gear' \in Gears
    BY DEF IInv, RoadTypeOK, Plan, Mission, Shifted, SetsOff, ComesToRest, Advances, TakesOver,
           Driver, vars, roadVars, vehicle
  <2>2. moving' \in BOOLEAN
    BY Zenon DEF IInv, RoadTypeOK, Plan, Mission, Shifted, SetsOff, ComesToRest, Advances,
           TakesOver, Driver, vars, roadVars, vehicle
  <2>3. auto' \in BOOLEAN
    BY Zenon DEF IInv, RoadTypeOK, Plan, Mission, Shifted, SetsOff, ComesToRest, Advances,
           TakesOver, Driver, vars, roadVars, vehicle
  <2> QED
    BY <2>1, <2>2, <2>3
<1>5. RoadTypeOK'
  BY <1>1, <1>3, <1>4 DEF IInv, RoadTypeOK, laws
<1> QED
  BY <1>1, <1>2, <1>5 DEF IInv, laws

LEMMA Initially == ASSUME Init
                   PROVE IInv
BY DEF Init, RoadInit, IInv, RoadTypeOK, Quiet, Order, NoTrajectory

LEMMA StepKeeps == ASSUME IInv, RoadAssumption, [Next]_vars
                   PROVE IInv'
BY CycleKeeps, ReportKeeps, TerminalKeeps, OthersKeep DEF Next

(* The two operators' channels, the report and the order to start.           *)
THEOREM Invariance == Spec => []IInv
<1>1. Init => IInv
  BY Initially
<1>2. IInv /\ [Next]_vars => IInv'
  BY StepKeeps, RoadAssumption
<1> QED
  BY <1>1, <1>2, PTL DEF Spec

(* The types of all variables of the road controller and its vehicle.        *)
THEOREM RoadTyped == Spec => []RoadTypeOK
<1>1. IInv => RoadTypeOK
  BY DEF IInv
<1> QED
  BY Invariance, <1>1, PTL

(* A stopped vehicle is started only by an order given after it was stopped: the   *)
(* edge remembered for the terminal outlasts what the remote control said since. *)
THEOREM Restart == Spec => StopLasts
<1>1. IInv /\ [Next]_vars => [motionCmd = "stop" /\ motionCmd' = "start" => started]_vars
  <2> SUFFICES ASSUME IInv, Next, motionCmd = "stop", motionCmd' = "start", ~started
               PROVE FALSE
    OBVIOUS
  <2>1. Answered
    BY DEF IInv, Quiet
  <2>2. motionCmd' = motionCmd \/ ControlCycle
    <3>1. CASE Report
      BY <3>1 DEF Report, TakeReport, laws
    <3>2. CASE Terminal
      BY <3>2 DEF Terminal, TakeTerminal, laws
    <3>3. CASE ~Report /\ ~Terminal /\ ~ControlCycle
      BY <3>3, RoadAssumption, OthersKeep DEF Next
    <3> QED
      BY <3>1, <3>2, <3>3
  <2>3. CASE ControlCycle
    BY <2>1, <2>3 DEF ControlCycle, Cycle, Motion, TerminalChanged, Answered
  <2> QED
    BY <2>2, <2>3
<1> QED
  BY Invariance, <1>1, PTL DEF Spec, StopLasts
===============================================================================
