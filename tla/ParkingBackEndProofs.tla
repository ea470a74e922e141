------------------------- MODULE ParkingBackEndProofs -------------------------
(***************************************************************************)
(* The gear handshake with both simulated vehicles, for any segments, any    *)
(* thresholds and any delay Lag that the count of confirmations outlasts:    *)
(* the vehicle never moves against its gear, and a segment is released to a  *)
(* vehicle that is ready for it.  First the virtual gearbox of               *)
(* ParkingExecution, then the Lite simulator behind its bridge.              *)
(***************************************************************************)
EXTENDS ParkingExecution, LiteExecution, ParkingControlProofs

VehicleTypeOK ==
  /\ gear \in Gears /\ pendingGear \in {"D", "R", "none"}
  /\ motion \in {"stop", "D", "R"}
  /\ wheel \in Wheels
  /\ enabled \in BOOLEAN
  /\ resets \in SUBSET {"controller", "vehicle"}
  /\ late \in 0..Lag

(* The vehicle is in gear g and no shift out of it is to come. *)
Stays(g) == gear = g /\ pendingGear = "none" /\ gearCmd \in {NoGear, g}

(* Of a reset that has reached one side only: the controller still drives   *)
(* for the old task, or the vehicle has still to leave its gear.            *)
VehicleFirst == "controller" \in resets /\ "vehicle" \notin resets
ControllerFirst == "vehicle" \in resets /\ "controller" \notin resets

(* Except in neutral, where a reset may have put it, the vehicle is in the   *)
(* gear, and its wheels are at the angle, that the controller has seen last. *)
ReportFits == gear # "N" => seen.received /\ seen.gear = gear /\ seen.wheel = wheel

(* A vehicle that is reset first waits at rest, deaf to the old task; a      *)
(* controller that is reset first cannot confirm a gear before the vehicle   *)
(* has left it, because fewer reports than confirmations come in between.    *)
HalfReset ==
  /\ VehicleFirst => motion = "stop" /\ ~enabled
  /\ ControllerFirst =>
       /\ drive \notin Segments
       /\ state # "PREPARE_STEERING"
       /\ state = "EXECUTING" => active = Stop
       /\ state = "SHIFT_GEAR" => gearCycles <= late

(* From the confirmation of the gear to the last order to drive, the         *)
(* vehicle is in the gear of the segment.                                    *)
GearIn ==
  ~VehicleFirst =>
    /\ drive \in Segments => Stays(GearOf[drive])
    /\ state = "EXECUTING" /\ active \in Segments => Stays(GearOf[active])
    /\ state = "PREPARE_STEERING" => Stays(targetGear)

(* While confirmations are counted, the order is under way and no more have  *)
(* been counted than reports since; or the gear is in for good; or it is     *)
(* not, and the next report that says so clears what was counted too early.  *)
OrderCounted ==
  ~VehicleFirst /\ state = "SHIFT_GEAR" /\ targetGear # NoGear =>
    /\ gearCmd \in {NoGear, targetGear}
    /\ \/ gearCmd # NoGear /\ gearCycles <= late
       \/ gear = targetGear /\ pendingGear = "none"
       \/ gear # targetGear /\ gearCycles <= Lag

(* During the handshake nothing sets the vehicle in motion, so that one      *)
(* report of a standstill lasts.                                            *)
StandsStill ==
  /\ state \in {"SHIFT_GEAR", "PREPARE_STEERING"} => drive \notin Segments
  /\ state = "PREPARE_STEERING" => motion = "stop"
  /\ state = "SHIFT_GEAR" /\ gearCycles > 0 /\ ~seen.moving => motion = "stop"

Handshake ==
  /\ VehicleTypeOK /\ MovesInGear /\ ReportFits /\ HalfReset
  /\ GearIn /\ OrderCounted /\ StandsStill

ExecutionInv == IInv /\ Handshake

-----------------------------------------------------------------------------
LEMMA Simulated == ~Mute /\ HoldCommand = Hold /\ ~Withheld
BY BackEndAssumption DEF Mute, HoldCommand, Withheld

LEMMA LagIsNat == Lag \in Nat
BY BackEndAssumption

LEMMA NamesDiffer ==
  /\ Hold \notin Segments /\ None \notin Segments /\ Stop \notin Segments /\ NoSegment \notin Segments
  /\ Straight \in Wheels /\ Between \in Wheels
BY ParkingAssumption DEF Wheels


LEMMA StartHolds == ExecutionInit => ExecutionInv
<1> SUFFICES ASSUME ExecutionInit PROVE ExecutionInv
  OBVIOUS
<1>1. IInv
  BY InitHolds DEF ExecutionInit
<1>2. enabled \in BOOLEAN
  BY Zenon DEF ExecutionInit, V!VehicleInit
<1>3. VehicleTypeOK
  BY <1>2, LagIsNat, NamesDiffer DEF ExecutionInit, V!VehicleInit, VehicleTypeOK, Gears
<1>4. MovesInGear /\ ReportFits /\ HalfReset /\ GearIn /\ OrderCounted /\ StandsStill
  BY NamesDiffer
     DEF ExecutionInit, V!VehicleInit, ControlInit, MovesInGear, ReportFits, HalfReset, GearIn,
         OrderCounted, StandsStill, VehicleFirst, ControllerFirst
<1> QED BY <1>1, <1>3, <1>4 DEF ExecutionInv, Handshake

-----------------------------------------------------------------------------
(* The planner and the operator. *)

(* A trajectory changes neither vehicle nor commands, and leaves the         *)
(* controller before a handshake or with a stop trajectory.                  *)
LEMMA SendKeeps ==
  ASSUME ExecutionInv, NEW t \in Segments \cup {Stop}, Send(t)
  PROVE  ExecutionInv'
<1>1. IInv'
  BY TrajectoryKeeps DEF Send, ExecutionInv
<1>2. UNCHANGED <<gear, pendingGear, motion, wheel, wheelTarget, enabled, resets, late>>
  BY DEF Send, vehicle, links
<1>3. UNCHANGED <<seen, drive, gearCmd>>
  BY BackEndAssumption
     DEF Send, OnTrajectory, StageStop, StageMotion, RefuseRolling, inputs, commands
<1>4. state' = "HOLD_STOP" \/ (state' = "EXECUTING" /\ active' = Stop)
  BY DEF Send, OnTrajectory, StageStop, StageMotion, RefuseRolling
<1> QED
  BY <1>1, <1>2, <1>3, <1>4, NamesDiffer
     DEF ExecutionInv, Handshake, VehicleTypeOK, MovesInGear, ReportFits, HalfReset, GearIn, Stays,
         OrderCounted, StandsStill, VehicleFirst, ControllerFirst

LEMMA GoalSentKeeps ==
  ASSUME ExecutionInv, SendGoalReached
  PROVE  ExecutionInv'
<1>1. IInv'
  BY GoalKeeps DEF SendGoalReached, ExecutionInv
<1>2. UNCHANGED <<gear, pendingGear, motion, wheel, enabled, resets, late, seen, drive, gearCmd>>
  BY DEF SendGoalReached, GoalReached, vehicle, links, inputs, commands
<1>3. state' = "STRAIGHTEN_STEERING"
  BY DEF SendGoalReached, GoalReached
<1> QED
  BY <1>1, <1>2, <1>3
     DEF ExecutionInv, Handshake, VehicleTypeOK, MovesInGear, ReportFits, HalfReset, GearIn, Stays,
         OrderCounted, StandsStill, VehicleFirst, ControllerFirst

(* The controller alone has not moved. *)
LEMMA ControlStands == ASSUME IInv, UNCHANGED controlVars PROVE IInv'
BY StepKeeps

LEMMA ResetSentKeeps ==
  ASSUME ExecutionInv, Reset
  PROVE  ExecutionInv'
<1>1. IInv'
  BY ControlStands DEF Reset, ExecutionInv
<1>2. resets = {} /\ resets' = {"controller", "vehicle"} /\ UNCHANGED <<controlVars, vehicle, late>>
  BY DEF Reset
<1>3. ~VehicleFirst /\ ~VehicleFirst' /\ ~ControllerFirst'
  BY <1>2 DEF VehicleFirst, ControllerFirst
<1> QED
  BY <1>1, <1>2, <1>3
     DEF ExecutionInv, Handshake, VehicleTypeOK, MovesInGear, ReportFits, HalfReset, GearIn, Stays,
         OrderCounted, StandsStill, controlVars, vehicle

LEMMA OrderSentKeeps ==
  ASSUME ExecutionInv, NEW b \in BOOLEAN, Order(b)
  PROVE  ExecutionInv'
<1>1. IInv'
  BY ControlStands DEF Order, ExecutionInv
<1>2. enabled' \in BOOLEAN
  BY DEF Order, V!Enable
<1>3. UNCHANGED <<gear, pendingGear, motion, wheel>> /\ resets = {}
  BY DEF Order, V!Enable
<1> QED
  BY <1>1, <1>2, <1>3
     DEF Order, ExecutionInv, Handshake, VehicleTypeOK, MovesInGear, ReportFits, HalfReset, GearIn, Stays,
         OrderCounted, StandsStill, VehicleFirst, ControllerFirst, controlVars, links

-----------------------------------------------------------------------------
(* What arrives at the controller and at the vehicle. *)

LEMMA ControllerResetKeeps ==
  ASSUME ExecutionInv, ResetController
  PROVE  ExecutionInv'
<1>1. IInv'
  BY ResetKeeps DEF ResetController, ExecutionInv
<1>2. state' = "IDLE" /\ drive' = Hold /\ UNCHANGED <<seen, gearCmd>>
  BY Simulated DEF ResetController, TaskReset
<1>3. UNCHANGED <<gear, pendingGear, motion, wheel, enabled, late>>
  BY DEF ResetController, vehicle
<1>4. resets' \in SUBSET {"controller", "vehicle"} /\ ~VehicleFirst'
  BY DEF ResetController, ExecutionInv, Handshake, VehicleTypeOK, VehicleFirst
<1> QED
  BY <1>1, <1>2, <1>3, <1>4, NamesDiffer
     DEF ExecutionInv, Handshake, VehicleTypeOK, MovesInGear, ReportFits, HalfReset, GearIn, Stays,
         OrderCounted, StandsStill

(* The vehicle leaves its gear: what was confirmed before falls short of the *)
(* threshold if the controller has been reset already.                       *)
LEMMA VehicleResetKeeps ==
  ASSUME ExecutionInv, ResetVehicle
  PROVE  ExecutionInv'
<1>1. IInv'
  BY ControlStands DEF ResetVehicle, ExecutionInv
<1>2. /\ gear' = "N" /\ pendingGear' = "none" /\ motion' = "stop"
      /\ wheel' \in Wheels /\ enabled' = FALSE
  BY DEF ResetVehicle, V!VehicleReset
<1>3. enabled' \in BOOLEAN
  BY <1>2, Zenon
<1>4. late \in 0..Lag /\ late' \in 0..Lag
  BY LagIsNat DEF ResetVehicle, Received, ExecutionInv, Handshake, VehicleTypeOK
<1>5. /\ "vehicle" \in resets /\ "vehicle" \notin resets' /\ resets' \in SUBSET {"controller", "vehicle"}
      /\ "controller" \in resets' <=> "controller" \in resets
  BY DEF ResetVehicle, ExecutionInv, Handshake, VehicleTypeOK
<1>6. UNCHANGED <<state, active, targetGear, gearCycles, seen, drive, gearCmd>>
  BY DEF ResetVehicle, controlVars
<1>7. ControllerFirst \/ VehicleFirst'
  BY <1>5 DEF ControllerFirst, VehicleFirst
<1>8. CASE ControllerFirst
  <2>1. state = "SHIFT_GEAR" => gearCycles <= Lag
    BY <1>4, <1>8, LagIsNat, Thresholds DEF ExecutionInv, Handshake, HalfReset, IInv, ControlTypeOK
  <2>2. state = "SHIFT_GEAR" /\ targetGear # NoGear => targetGear \in {"D", "R"} /\ gearCmd \in {NoGear, targetGear}
    BY <1>8 DEF ExecutionInv, Handshake, OrderCounted, ControllerFirst, VehicleFirst, IInv, ControlTypeOK
  <2> QED
    BY <1>1, <1>2, <1>3, <1>4, <1>5, <1>6, <1>8, <2>1, <2>2, NamesDiffer
       DEF ExecutionInv, Handshake, VehicleTypeOK, MovesInGear, ReportFits, HalfReset, GearIn, Stays,
           OrderCounted, StandsStill, VehicleFirst, ControllerFirst, Gears
<1>9. CASE VehicleFirst'
  BY <1>1, <1>2, <1>3, <1>4, <1>5, <1>6, <1>9
     DEF ExecutionInv, Handshake, VehicleTypeOK, MovesInGear, ReportFits, HalfReset, GearIn,
         OrderCounted, StandsStill, VehicleFirst, ControllerFirst, Gears
<1> QED BY <1>7, <1>8, <1>9

(* Commands that are taken leave the rest of the controller alone. *)
LEMMA TakenKeeps ==
  ASSUME IInv,
         UNCHANGED <<state, pending, active, targetGear, gearCycles, steerCycles, endHold, seen, motionStart>>,
         drive' \in {drive, None}, gearCmd' \in {gearCmd, NoGear}, wheelCmd' \in {wheelCmd, None}
  PROVE  IInv'
BY DEF IInv, ControlTypeOK, PendingFits, Unfinished, NothingAsked, Preparing, Drives

(* An order for the gear that is in cancels every shift; one for another     *)
(* gear comes before the reports that would confirm it.                      *)
LEMMA GearTakenKeeps ==
  ASSUME ExecutionInv, DeliverGear
  PROVE  ExecutionInv'
<1>1. UNCHANGED <<state, pending, active, targetGear, gearCycles, steerCycles, endHold, seen, motionStart,
                  drive, wheelCmd, resets>>
  BY DEF DeliverGear, segmentState, handshake, inputs
<1>2. gearCmd # NoGear /\ gearCmd' = NoGear /\ gearCmd \in {"D", "R"}
  BY DEF DeliverGear, ExecutionInv, IInv, ControlTypeOK
<1>3. IInv'
  BY <1>1, <1>2, TakenKeeps DEF ExecutionInv
<1>4. pendingGear' = IF gearCmd = gear THEN "none" ELSE gearCmd
  BY DEF DeliverGear, V!TakeGear
<1>5. UNCHANGED <<gear, motion, wheel, enabled>>
  BY DEF DeliverGear, V!TakeGear
<1>6. late \in 0..Lag /\ late' \in 0..Lag /\ ("vehicle" \in resets => late' = late)
  BY <1>1, LagIsNat DEF DeliverGear, Received, Waiting, ExecutionInv, Handshake, VehicleTypeOK
<1>7. VehicleTypeOK'
  BY <1>1, <1>2, <1>4, <1>5, <1>6 DEF ExecutionInv, Handshake, VehicleTypeOK
<1>8. GearIn' /\ HalfReset'
  BY <1>1, <1>2, <1>4, <1>5, <1>6
     DEF ExecutionInv, Handshake, GearIn, Stays, HalfReset, VehicleFirst, ControllerFirst
<1>9. OrderCounted'
  BY <1>1, <1>2, <1>4, <1>5, <1>6, LagIsNat, Thresholds
     DEF ExecutionInv, Handshake, OrderCounted, VehicleFirst, IInv, ControlTypeOK
<1>10. MovesInGear' /\ ReportFits' /\ StandsStill'
  BY <1>1, <1>5 DEF ExecutionInv, Handshake, MovesInGear, ReportFits, StandsStill
<1> QED BY <1>3, <1>7, <1>8, <1>9, <1>10 DEF ExecutionInv, Handshake

LEMMA WheelTakenKeeps ==
  ASSUME ExecutionInv, DeliverWheel
  PROVE  ExecutionInv'
<1>1. UNCHANGED <<state, pending, active, targetGear, gearCycles, steerCycles, endHold, seen, motionStart,
                  drive, gearCmd, resets, late>> /\ wheelCmd' = None
  BY DEF DeliverWheel, segmentState, handshake, inputs, links
<1>2. IInv'
  BY <1>1, TakenKeeps DEF ExecutionInv
<1>3. UNCHANGED <<gear, pendingGear, motion, wheel, enabled>>
  BY DEF DeliverWheel, V!TakeWheel
<1> QED
  BY <1>1, <1>2, <1>3
     DEF ExecutionInv, Handshake, VehicleTypeOK, MovesInGear, ReportFits, HalfReset, GearIn, Stays,
         OrderCounted, StandsStill, VehicleFirst, ControllerFirst

(* Only an order to drive sets the vehicle in motion, in its gear. *)
LEMMA DriveTakenKeeps ==
  ASSUME ExecutionInv, DeliverDrive
  PROVE  ExecutionInv'
<1>1. UNCHANGED <<state, pending, active, targetGear, gearCycles, steerCycles, endHold, seen, motionStart,
                  wheelCmd, gearCmd, resets, late>> /\ drive' = None /\ drive # None
  BY DEF DeliverDrive, segmentState, handshake, inputs, links
<1>2. IInv'
  BY <1>1, TakenKeeps DEF ExecutionInv
<1>3. UNCHANGED <<gear, pendingGear, wheel, enabled>>
  BY DEF DeliverDrive, V!TakeDrive
<1>4. motion' \in {motion, "stop"} \/ (enabled /\ drive \in Segments /\ motion' = GearOf[drive])
  BY DEF DeliverDrive, V!TakeDrive, V!Braking, V!Driving, ExecutionInv, IInv, ControlTypeOK, Drives
<1>5. CASE motion' \in {motion, "stop"}
  BY <1>1, <1>2, <1>3, <1>5, NamesDiffer
     DEF ExecutionInv, Handshake, VehicleTypeOK, MovesInGear, ReportFits, HalfReset, GearIn, Stays,
         OrderCounted, StandsStill, VehicleFirst, ControllerFirst
<1>6. CASE enabled /\ drive \in Segments /\ motion' = GearOf[drive]
  <2>1. ~VehicleFirst /\ Stays(GearOf[drive]) /\ motion' = gear
    BY <1>6 DEF ExecutionInv, Handshake, HalfReset, GearIn, Stays
  <2>2. motion' \in {"D", "R"}
    BY <1>6, ParkingAssumption
  <2>3. state \notin {"SHIFT_GEAR", "PREPARE_STEERING"}
    BY <1>6 DEF ExecutionInv, Handshake, StandsStill
  <2> QED
    BY <1>1, <1>2, <1>3, <1>6, <2>1, <2>2, <2>3, NamesDiffer
       DEF ExecutionInv, Handshake, VehicleTypeOK, MovesInGear, ReportFits, HalfReset, GearIn, Stays,
           OrderCounted, StandsStill, VehicleFirst, ControllerFirst
<1> QED BY <1>4, <1>5, <1>6

-----------------------------------------------------------------------------
(* A report: the gear may have changed at rest, and is then seen. *)
LEMMA ReportTakenKeeps ==
  ASSUME ExecutionInv, Report
  PROVE  ExecutionInv'
<1> DEFINE r == [received |-> TRUE, moving |-> motion # "stop", gear |-> gear', wheel |-> wheel']
<1>1. gear' \in Gears /\ pendingGear' \in {"D", "R", "none"}
  BY DEF Report, V!Tick, ExecutionInv, Handshake, VehicleTypeOK, Gears
<1>2. wheel' \in Wheels
  BY DEF Report, V!Tick, ExecutionInv, Handshake, VehicleTypeOK
<1>3. UNCHANGED <<motion, enabled, resets>>
  BY DEF Report, V!Tick
<1>4. \/ gear' = gear /\ pendingGear' = pendingGear
      \/ gear' = pendingGear /\ pendingGear # "none" /\ pendingGear' = "none" /\ motion = "stop"
  BY DEF Report, V!Tick
<1>5. r \in Reports
  BY <1>1, <1>2 DEF Reports
<1>6. IInv' /\ seen' = r
  BY <1>5, ReportKeeps DEF Report, ExecutionInv, ChassisReport
<1>7. UNCHANGED <<state, pending, active, targetGear, drive, gearCmd>>
  BY DEF Report, ChassisReport, segmentState, commands
<1>8. /\ state # "SHIFT_GEAR" => gearCycles' = gearCycles
      /\ state = "SHIFT_GEAR" => gearCycles' \in {0, gearCycles, gearCycles + 1}
      /\ state = "SHIFT_GEAR" /\ gear' # targetGear => gearCycles' = 0
  BY <1>6 DEF Report, ChassisReport
<1>9. /\ late \in 0..Lag /\ late' \in 0..Lag
      /\ Waiting => late' = late + 1
  BY LagIsNat DEF Report, ExecutionInv, Handshake, VehicleTypeOK
<1>10. gearCycles \in Nat
  BY Thresholds DEF ExecutionInv, IInv, ControlTypeOK
<1>11. VehicleTypeOK' /\ MovesInGear' /\ ReportFits'
  BY <1>1, <1>2, <1>3, <1>4, <1>6, <1>9
     DEF ExecutionInv, Handshake, VehicleTypeOK, MovesInGear, ReportFits
<1>12. HalfReset'
  BY <1>3, <1>7, <1>8, <1>9, <1>10, LagIsNat
     DEF ExecutionInv, Handshake, HalfReset, VehicleFirst, ControllerFirst, Waiting
<1>13. GearIn'
  BY <1>3, <1>4, <1>7 DEF ExecutionInv, Handshake, GearIn, Stays, VehicleFirst
<1>14. OrderCounted'
  BY <1>3, <1>4, <1>7, <1>8, <1>9, <1>10, LagIsNat
     DEF ExecutionInv, Handshake, OrderCounted, VehicleFirst, Waiting
<1>15. StandsStill'
  <2>1. ~seen'.moving => motion = "stop"
    BY <1>6
  <2> QED BY <1>3, <1>7, <2>1 DEF ExecutionInv, Handshake, StandsStill
<1> QED BY <1>6, <1>11, <1>12, <1>13, <1>14, <1>15 DEF ExecutionInv, Handshake

-----------------------------------------------------------------------------
(* A control cycle.  Nothing waits to be taken but perhaps a gear command. *)
CycleTaken == drive = None /\ UNCHANGED <<vehicle, links>>

LEMMA ExecuteTakenKeeps ==
  ASSUME ExecutionInv, CycleTaken, NEW near \in BOOLEAN, NEW elapsed \in BOOLEAN, Execute(near, elapsed)
  PROVE  ExecutionInv'
<1>1. IInv'
  BY ExecuteKeeps DEF ExecutionInv
<1>2. UNCHANGED <<gear, pendingGear, motion, wheel, enabled, resets, late>>
  BY DEF CycleTaken, vehicle, links
<1>3. /\ state = "EXECUTING" /\ state' \in {"EXECUTING", "SEGMENT_END_HOLD"}
      /\ UNCHANGED <<active, targetGear, seen, gearCmd>>
      /\ drive' \in Segments => active \in Segments /\ drive' = active
  BY NamesDiffer DEF Execute, SegmentEnd, handshake, inputs
<1> QED
  BY <1>1, <1>2, <1>3, NamesDiffer
     DEF ExecutionInv, Handshake, VehicleTypeOK, MovesInGear, ReportFits, HalfReset, GearIn, Stays,
         OrderCounted, StandsStill, VehicleFirst, ControllerFirst

(* The states that only hold, and from which no handshake goes on. *)
LEMMA HoldTakenKeeps ==
  ASSUME ExecutionInv, CycleTaken, IInv', drive' = Hold,
         UNCHANGED <<active, targetGear, seen, gearCmd>>,
         state' \notin {"SHIFT_GEAR", "PREPARE_STEERING", "EXECUTING"}
  PROVE  ExecutionInv'
<1>1. UNCHANGED <<gear, pendingGear, motion, wheel, enabled, resets, late>>
  BY DEF CycleTaken, vehicle, links
<1> QED
  BY <1>1, NamesDiffer
     DEF ExecutionInv, Handshake, VehicleTypeOK, MovesInGear, ReportFits, HalfReset, GearIn, Stays,
         OrderCounted, StandsStill, VehicleFirst, ControllerFirst

LEMMA ShiftTakenKeeps ==
  ASSUME ExecutionInv, CycleTaken, ShiftGear
  PROVE  ExecutionInv'
<1>1. IInv'
  BY ShiftKeeps DEF ExecutionInv
<1>2. UNCHANGED <<gear, pendingGear, motion, wheel, enabled, resets, late>>
  BY DEF CycleTaken, vehicle, links
<1>3. /\ state \in {"HOLD_STOP", "SHIFT_GEAR"} /\ state' = "SHIFT_GEAR" /\ ~seen.moving
      /\ drive' = Hold /\ UNCHANGED <<active, targetGear, seen>>
      /\ gearCycles' = IF state = "HOLD_STOP" THEN 0 ELSE gearCycles
      /\ gearCmd' = IF targetGear = NoGear THEN gearCmd ELSE targetGear
  BY DEF ShiftGear, GearCommand, inputs
<1>4. late \in Nat /\ gearCycles \in Nat
  BY Thresholds, LagIsNat DEF ExecutionInv, Handshake, VehicleTypeOK, IInv, ControlTypeOK
<1>5. VehicleTypeOK' /\ MovesInGear' /\ ReportFits' /\ StandsStill'
  BY <1>2, <1>3, NamesDiffer DEF ExecutionInv, Handshake, VehicleTypeOK, MovesInGear, ReportFits, StandsStill
<1>6. HalfReset' /\ GearIn'
  BY <1>2, <1>3, <1>4, NamesDiffer
     DEF ExecutionInv, Handshake, HalfReset, GearIn, VehicleFirst, ControllerFirst
<1>7. OrderCounted'
  BY <1>2, <1>3, <1>4 DEF ExecutionInv, Handshake, OrderCounted, VehicleFirst
<1> QED BY <1>1, <1>5, <1>6, <1>7 DEF ExecutionInv, Handshake

(* The confirmations outlast the delay of the order: once they are counted   *)
(* the vehicle has taken it, stands, and has no reset to come.               *)
LEMMA ConfirmedIsIn ==
  ASSUME ExecutionInv, GearDone, Lag < GearStable
  PROVE  ~ControllerFirst /\ motion = "stop" /\ targetGear # NoGear /\ (~VehicleFirst => Stays(targetGear))
<1>1. state = "SHIFT_GEAR" /\ ~seen.moving /\ gearCycles >= GearStable
  BY DEF GearDone, Confirmed
<1>2. late \in 0..Lag /\ gearCycles > Lag /\ gearCycles > late /\ gearCycles > 0
  BY <1>1, LagIsNat, Thresholds DEF ExecutionInv, Handshake, VehicleTypeOK, IInv, ControlTypeOK
<1>3. ~(gearCycles <= late) /\ ~(gearCycles <= Lag) /\ gearCycles # 0
  BY <1>2, LagIsNat, Thresholds DEF ExecutionInv, IInv, ControlTypeOK
<1>4. targetGear # NoGear
  BY <1>1, <1>3 DEF ExecutionInv, IInv, NothingAsked
<1>5. ~ControllerFirst /\ motion = "stop"
  BY <1>1, <1>2, <1>3 DEF ExecutionInv, Handshake, HalfReset, StandsStill
<1>6. ~VehicleFirst => Stays(targetGear)
  BY <1>1, <1>3, <1>4 DEF ExecutionInv, Handshake, OrderCounted, Stays
<1> QED BY <1>4, <1>5, <1>6

(* The same holds as long as the wheels are prepared. *)
LEMMA PreparedIsIn ==
  ASSUME ExecutionInv, PrepareSteering, Lag < GearStable
  PROVE  ~ControllerFirst /\ motion = "stop" /\ (~VehicleFirst => Stays(targetGear))
<1>1. CASE state = "PREPARE_STEERING"
  BY <1>1 DEF ExecutionInv, Handshake, HalfReset, StandsStill, GearIn
<1> QED BY <1>1, ConfirmedIsIn DEF PrepareSteering

LEMMA PrepareTakenKeeps ==
  ASSUME ExecutionInv, CycleTaken, PrepareSteering, Lag < GearStable
  PROVE  ExecutionInv'
<1>1. IInv' /\ pending # NoSegment /\ pending \in Segments /\ targetGear = GearOf[pending]
  BY PrepareKeeps, SomethingPends, PrepareOutcomes DEF ExecutionInv, IInv, PendingFits
<1>2. UNCHANGED <<gear, pendingGear, motion, wheel, enabled, resets, late>>
  BY DEF CycleTaken, vehicle, links
<1>3. drive' = Hold /\ UNCHANGED <<targetGear, seen>> /\ gearCmd' \in {gearCmd, targetGear}
  BY DEF PrepareSteering, GearCommand, inputs
<1>4. state' = "PREPARE_STEERING" \/ (state' = "EXECUTING" /\ active' = pending)
  BY PrepareOutcomes DEF ExecutionInv
<1>5. ~ControllerFirst /\ motion = "stop" /\ (~VehicleFirst => Stays(targetGear))
  BY PreparedIsIn
<1> QED
  BY <1>1, <1>2, <1>3, <1>4, <1>5, NamesDiffer
     DEF ExecutionInv, Handshake, VehicleTypeOK, MovesInGear, ReportFits, HalfReset, GearIn, Stays,
         OrderCounted, StandsStill, VehicleFirst, ControllerFirst

LEMMA CycleTakenKeeps ==
  ASSUME ExecutionInv, ControlCycle, Lag < GearStable
  PROVE  ExecutionInv'
<1>1. CycleTaken
  BY DEF ControlCycle, CycleTaken
<1>2. PICK near \in BOOLEAN, elapsed \in BOOLEAN : Cycle(near, elapsed)
  BY DEF ControlCycle
<1>3. CASE Straighten
  <2>1. state' \in {"STRAIGHTEN_STEERING", "PARKING_COMPLETE"}
    BY <1>3 DEF Straighten
  <2> QED BY <1>1, <1>3, <2>1, StraightenKeeps, HoldTakenKeeps DEF Straighten, inputs, ExecutionInv
<1>4. CASE MovedAgain
  BY <1>1, <1>4, MovedAgainKeeps, HoldTakenKeeps DEF MovedAgain, inputs, ExecutionInv
<1>5. CASE OnlyHold
  <2>1. state' \notin {"SHIFT_GEAR", "PREPARE_STEERING", "EXECUTING"}
    BY <1>5 DEF OnlyHold, segmentState
  <2> QED
    BY <1>1, <1>5, <2>1, OnlyHoldKeeps, HoldTakenKeeps
       DEF OnlyHold, segmentState, handshake, inputs, ExecutionInv
<1> QED
  BY <1>1, <1>2, <1>3, <1>4, <1>5, ExecuteTakenKeeps, ShiftTakenKeeps, PrepareTakenKeeps DEF Cycle

-----------------------------------------------------------------------------
LEMMA ExecutionStepKeeps ==
  ASSUME Lag < GearStable, ExecutionInv, [ExecutionNext]_executionVars
  PROVE  ExecutionInv'
<1>1. CASE Environment
  BY <1>1, SendKeeps, GoalSentKeeps, ResetSentKeeps, OrderSentKeeps DEF Environment
<1>2. CASE Machine
  BY <1>2, CycleTakenKeeps, ReportTakenKeeps, GearTakenKeeps, DriveTakenKeeps, WheelTakenKeeps,
     ControllerResetKeeps, VehicleResetKeeps DEF Machine
<1>3. CASE UNCHANGED executionVars
  <2>1. IInv'
    BY <1>3, ControlStands DEF executionVars, ExecutionInv
  <2> QED
    BY <1>3, <2>1
       DEF executionVars, controlVars, vehicle, links, ExecutionInv, Handshake, VehicleTypeOK, MovesInGear,
           ReportFits, HalfReset, GearIn, Stays, OrderCounted, StandsStill, VehicleFirst, ControllerFirst
<1> QED BY <1>1, <1>2, <1>3 DEF ExecutionNext

LEMMA ExecutionInvariance ==
  ASSUME Lag < GearStable
  PROVE  Spec => []ExecutionInv
BY StartHolds, ExecutionStepKeeps, PTL DEF Spec

(* The gear handshake protects the drive: whatever overtakes whatever and    *)
(* whoever resets the task, as long as a gear command or a reset arrives     *)
(* before the vehicle has reported as often as its gear must be confirmed,   *)
(* the vehicle never moves against the gear it is in.                        *)
THEOREM AlwaysInGear ==
  ASSUME Lag < GearStable
  PROVE  Spec => []MovesInGear
<1>1. ExecutionInv => MovesInGear
  BY DEF ExecutionInv, Handshake
<1> QED BY <1>1, ExecutionInvariance, PTL

-----------------------------------------------------------------------------
(* No step but the end of a handshake gives the controllers a segment. *)
LEMMA OnlyPreparedIsReleased ==
  ASSUME ExecutionInv, [ExecutionNext]_executionVars, active' # active, active' \in Segments
  PROVE  ControlCycle /\ PrepareSteering
<1>1. CASE Environment
  BY <1>1, NamesDiffer
     DEF Environment, Send, OnTrajectory, StageStop, StageMotion, RefuseRolling, SendGoalReached, GoalReached,
         Reset, Order, controlVars
<1>2. CASE Machine
  <2>1. CASE ControlCycle
    BY <2>1 DEF ControlCycle, Cycle, Execute, Straighten, ShiftGear, MovedAgain, OnlyHold, segmentState
  <2>2. ASSUME ~ControlCycle PROVE FALSE
    BY <1>2, <2>2, NamesDiffer
       DEF Machine, Report, ChassisReport, DeliverGear, DeliverDrive, DeliverWheel, ResetController, TaskReset,
           ResetVehicle, segmentState, controlVars
  <2> QED BY <2>1, <2>2
<1>3. CASE UNCHANGED executionVars
  BY <1>3 DEF executionVars, controlVars
<1> QED BY <1>1, <1>2, <1>3 DEF ExecutionNext

(* The cycle that releases a segment has just seen the wheels in place. *)
LEMMA ReleasedIsReady ==
  ASSUME ExecutionInv, ControlCycle, PrepareSteering, Lag < GearStable,
         active' # active, active' \in Segments, "controller" \notin resets
  PROVE  /\ motion = "stop" /\ wheel = active'
         /\ gear = GearOf[active'] /\ pendingGear = "none"
<1>1. /\ pending # NoSegment /\ pending \in Segments /\ targetGear = GearOf[pending]
      /\ GearOf[pending] \in {"D", "R"}
  BY SomethingPends, PrepareOutcomes, ParkingAssumption DEF ExecutionInv, IInv, PendingFits
<1>2. active' = pending /\ steerCycles' = ReadyCycles(pending) /\ steerCycles' >= SteerStable
  BY <1>1 DEF PrepareSteering
<1>3. seen.wheel = pending
  BY <1>2, Thresholds DEF ReadyCycles
<1>4. motion = "stop" /\ gear = targetGear /\ pendingGear = "none"
  BY PreparedIsIn DEF Stays, VehicleFirst
<1>5. wheel = seen.wheel
  BY <1>1, <1>4 DEF ExecutionInv, Handshake, ReportFits
<1> QED BY <1>1, <1>2, <1>3, <1>4, <1>5

(* A segment is released to a vehicle at rest, in the gear of the segment    *)
(* with no other shift to come, whose wheels stand at its start angle.       *)
THEOREM ReleasesWhenReady ==
  ASSUME Lag < GearStable
  PROVE  Spec => ReleasedWhenReady
<1>1. ExecutionInv /\ [ExecutionNext]_executionVars =>
        [active' # active /\ active' \in Segments /\ "controller" \notin resets =>
           /\ motion = "stop" /\ wheel = active'
           /\ gear = GearOf[active'] /\ pendingGear = "none"]_executionVars
  BY OnlyPreparedIsReleased, ReleasedIsReady
<1> QED BY <1>1, ExecutionInvariance, PTL DEF Spec, ReleasedWhenReady

-----------------------------------------------------------------------------
(* Types hold whatever the delay: no confirmation is needed for them. *)
Typed == IInv /\ VehicleTypeOK

LEMMA TypedKept ==
  ASSUME Typed, [ExecutionNext]_executionVars
  PROVE  Typed'
<1>1. CASE \E t \in Segments \cup {Stop} : Send(t)
  BY <1>1, TrajectoryKeeps DEF Send, vehicle, links, Typed, VehicleTypeOK
<1>2. CASE SendGoalReached
  BY <1>2, GoalKeeps DEF SendGoalReached, vehicle, links, Typed, VehicleTypeOK
<1>3. CASE Reset
  BY <1>3, ControlStands DEF Reset, vehicle, Typed, VehicleTypeOK
<1>4. CASE \E b \in BOOLEAN : Order(b)
  BY <1>4, ControlStands DEF Order, V!Enable, links, Typed, VehicleTypeOK
<1>5. CASE ControlCycle
  BY <1>5, StepKeeps DEF ControlCycle, ControlNext, vehicle, links, Typed, VehicleTypeOK
<1>6. CASE Report
  <2>1. gear' \in Gears /\ pendingGear' \in {"D", "R", "none"} /\ wheel' \in Wheels
    BY <1>6 DEF Report, V!Tick, Typed, VehicleTypeOK, Gears
  <2>2. [received |-> TRUE, moving |-> motion # "stop", gear |-> gear', wheel |-> wheel'] \in Reports
    BY <2>1 DEF Reports
  <2>3. IInv'
    BY <1>6, <2>2, ReportKeeps DEF Report, Typed
  <2>4. late' \in 0..Lag
    BY <1>6, LagIsNat DEF Report, Typed, VehicleTypeOK
  <2> QED BY <1>6, <2>1, <2>3, <2>4 DEF Report, V!Tick, Typed, VehicleTypeOK
<1>7. CASE DeliverGear
  <2>1. gearCmd \in {"D", "R"}
    BY <1>7 DEF DeliverGear, Typed, IInv, ControlTypeOK
  <2>2. late' \in 0..Lag
    BY <1>7, LagIsNat DEF DeliverGear, Received, Typed, VehicleTypeOK
  <2>3. IInv'
    BY <1>7, TakenKeeps DEF DeliverGear, segmentState, handshake, inputs, Typed
  <2> QED BY <1>7, <2>1, <2>2, <2>3 DEF DeliverGear, V!TakeGear, Typed, VehicleTypeOK
<1>8. CASE DeliverWheel
  <2>1. IInv'
    BY <1>8, TakenKeeps DEF DeliverWheel, segmentState, handshake, inputs, Typed
  <2> QED BY <1>8, <2>1 DEF DeliverWheel, V!TakeWheel, links, Typed, VehicleTypeOK
<1>9. CASE DeliverDrive
  <2>1. IInv'
    BY <1>9, TakenKeeps DEF DeliverDrive, segmentState, handshake, inputs, Typed
  <2>2. drive = Hold \/ GearOf[drive] \in {"D", "R"}
    BY <1>9, ParkingAssumption DEF DeliverDrive, Typed, IInv, ControlTypeOK, Drives
  <2>3. motion' \in {"stop", "D", "R"}
    BY <1>9, <2>2 DEF DeliverDrive, V!TakeDrive, V!Braking, V!Driving, Typed, VehicleTypeOK
  <2> QED BY <1>9, <2>1, <2>3 DEF DeliverDrive, V!TakeDrive, links, Typed, VehicleTypeOK
<1>10. CASE ResetController
  BY <1>10, ResetKeeps DEF ResetController, vehicle, Typed, VehicleTypeOK
<1>11. CASE ResetVehicle
  <2>1. enabled' \in BOOLEAN
    BY <1>11, Zenon DEF ResetVehicle, V!VehicleReset
  <2>2. late' \in 0..Lag
    BY <1>11, LagIsNat DEF ResetVehicle, Received, Typed, VehicleTypeOK
  <2> QED
    BY <1>11, <2>1, <2>2, ControlStands DEF ResetVehicle, V!VehicleReset, Gears, Typed, VehicleTypeOK
<1>12. CASE UNCHANGED executionVars
  BY <1>12, ControlStands DEF executionVars, vehicle, links, Typed, VehicleTypeOK
<1> QED
  BY <1>1, <1>2, <1>3, <1>4, <1>5, <1>6, <1>7, <1>8, <1>9, <1>10, <1>11, <1>12
     DEF ExecutionNext, Environment, Machine

LEMMA TypedInvariance == Spec => []Typed
<1>1. ExecutionInit => Typed
  BY StartHolds DEF ExecutionInv, Handshake, Typed
<1> QED BY <1>1, TypedKept, PTL DEF Spec

-----------------------------------------------------------------------------
(* Taking a command is no step of the controller. *)
LEMMA TakenUnseen ==
  ASSUME UNCHANGED <<state, pending, active>>
  PROVE  [SE!ExecutionNext]_(SE!segmentVars)
BY NothingSeen DEF Silent, SE!segmentVars

LEMMA ExecutionStepRefines ==
  ASSUME Typed, [ExecutionNext]_executionVars
  PROVE  [SE!ExecutionNext]_(SE!segmentVars)
<1>1. CASE Environment
  <2>1. CASE \E t \in Segments \cup {Stop} : Send(t)
    BY <2>1, StageRefines DEF Send, SE!ExecutionNext
  <2>2. CASE SendGoalReached
    BY <2>2, GoalRefines DEF SendGoalReached, SE!ExecutionNext
  <2>3. CASE Reset \/ \E b \in BOOLEAN : Order(b)
    BY <2>3, TakenUnseen DEF Reset, Order, controlVars
  <2> QED BY <1>1, <2>1, <2>2, <2>3 DEF Environment
<1>2. CASE Machine
  <2>1. CASE ControlCycle
    BY <2>1, CycleRefines DEF ControlCycle, Typed, SE!ExecutionNext, Silent, SE!segmentVars
  <2>2. CASE ResetController
    BY <2>2, ResetRefines DEF ResetController, SE!ExecutionNext
  <2>3. CASE Report \/ DeliverGear \/ DeliverDrive \/ DeliverWheel \/ ResetVehicle
    BY <2>3, TakenUnseen
       DEF Report, ChassisReport, DeliverGear, DeliverDrive, DeliverWheel, ResetVehicle, segmentState, controlVars
  <2> QED BY <1>2, <2>1, <2>2, <2>3 DEF Machine
<1>3. CASE UNCHANGED executionVars
  BY <1>3, TakenUnseen DEF executionVars, controlVars
<1> QED BY <1>1, <1>2, <1>3 DEF ExecutionNext

(* In the loop with a vehicle, too, the controller implements                *)
(* SegmentExecution, so that ParkingTask may put that in its place.          *)
THEOREM LoopRefines == Spec => ExecutesLatestSegment
<1>1. ExecutionInit => SE!ExecutionInit
  BY DEF ExecutionInit, ControlInit, SE!ExecutionInit, Mode, Doing, Preparing
<1>2. Typed /\ [ExecutionNext]_executionVars => [SE!ExecutionNext]_(SE!segmentVars)
  BY ExecutionStepRefines
<1> QED BY <1>1, <1>2, TypedInvariance, PTL DEF Spec, ExecutesLatestSegment, SE!ExecutionSpec

-----------------------------------------------------------------------------
(***************************************************************************)
(* LiteExecution.                                                           *)
(***************************************************************************)
LiteGears == {"none", "D", "R"}

LiteTypeOK ==
  /\ requested \in LiteGears /\ applied \in LiteGears
  /\ late \in 0..Lag

(* The vehicle is told to go backwards exactly when the gear applied is R. *)
CommandFits == command.reverse = (applied = "R")

(* The vehicle goes the way of gear g and no order will change that. *)
Through(g) ==
  /\ requested = g /\ applied = g /\ lite.reverse = (g = "R")
  /\ gearCmd \in {NoGear, g}

(* Once the gear is asked for, nothing else is on its way to the bridge; as  *)
(* long as it is on its way, no more reports than those since have confirmed *)
(* it, however the bridge has guessed the gear; then it is through.          *)
OrderGoesThrough ==
  /\ state = "SHIFT_GEAR" /\ targetGear # NoGear =>
       /\ gearCmd = targetGear \/ (gearCmd = NoGear /\ requested = targetGear)
       /\ (OnItsWay /\ gearCycles <= late) \/ Through(targetGear)
  /\ state = "PREPARE_STEERING" => Through(targetGear)

LiteInv == IInv /\ LiteTypeOK /\ CommandFits /\ OrderGoesThrough

LEMMA LiteStartHolds == LiteInit => LiteInv
<1> SUFFICES ASSUME LiteInit PROVE LiteInv
  OBVIOUS
<1>1. IInv
  BY InitHolds DEF LiteInit
<1>2. LiteTypeOK /\ OrderGoesThrough
  BY LagIsNat DEF LiteInit, B!BridgeInit, ControlInit, LiteTypeOK, LiteGears, OrderGoesThrough
<1>3. applied = "none" /\ command.reverse = FALSE
  BY DEF LiteInit, B!BridgeInit, B!Control
<1>4. CommandFits
  BY <1>3 DEF CommandFits
<1> QED BY <1>1, <1>2, <1>4 DEF LiteInv

(* Steps of the controller that leave the handshake, or the node. *)
LEMMA LeavingKeeps ==
  ASSUME LiteInv, IInv', UNCHANGED <<requested, applied, command, late>>,
         state' \notin {"SHIFT_GEAR", "PREPARE_STEERING"}
  PROVE  LiteInv'
BY DEF LiteInv, LiteTypeOK, CommandFits, OrderGoesThrough

LEMMA LiteSendKeeps ==
  ASSUME LiteInv, NEW t \in Segments \cup {Stop}, LiteSend(t)
  PROVE  LiteInv'
<1>1. IInv'
  BY TrajectoryKeeps DEF LiteSend, LiteInv
<1>2. state' \in {"HOLD_STOP", "EXECUTING"} /\ UNCHANGED <<requested, applied, command, late>>
  BY DEF LiteSend, OnTrajectory, StageStop, StageMotion, RefuseRolling, bridge
<1> QED BY <1>1, <1>2, LeavingKeeps

LEMMA LiteGoalKeeps == ASSUME LiteInv, LiteGoalReached PROVE LiteInv'
<1>1. IInv'
  BY GoalKeeps DEF LiteGoalReached, LiteInv
<1>2. state' = "STRAIGHTEN_STEERING" /\ UNCHANGED <<requested, applied, command, late>>
  BY DEF LiteGoalReached, GoalReached, bridge
<1> QED BY <1>1, <1>2, LeavingKeeps

LEMMA LiteResetKeeps == ASSUME LiteInv, LiteReset PROVE LiteInv'
<1>1. IInv'
  BY ResetKeeps DEF LiteReset, LiteInv
<1>2. state' = "IDLE" /\ UNCHANGED <<requested, applied, command, late>>
  BY DEF LiteReset, TaskReset, bridge
<1> QED BY <1>1, <1>2, LeavingKeeps

(* The node ends: nothing of its state is left. *)
LEMMA DeathKeeps == ASSUME IInv, Die PROVE IInv'
<1>1. state' = "IDLE" /\ UNCHANGED <<motionStart, drive, gearCmd, wheelCmd>>
  BY DEF Die, commands
<1>2. pending' = NoSegment /\ active' = NoSegment /\ targetGear' = NoGear /\ gearCycles' = 0 /\ steerCycles' = 0
  BY DEF Die
<1>3. seen' \in Known
  BY DEF Die, Known
<1>4. endHold' \in BOOLEAN
  BY Zenon DEF Die
<1> QED
  BY <1>1, <1>2, <1>3, <1>4, Thresholds
     DEF IInv, ControlTypeOK, PendingFits, Unfinished, NothingAsked, Preparing, States

LEMMA DieKeeps == ASSUME LiteInv, Die PROVE LiteInv'
<1>1. state' = "IDLE" /\ UNCHANGED <<requested, applied, command, late>>
  BY DEF Die, bridge
<1> QED BY <1>1, DeathKeeps, LeavingKeeps DEF LiteInv

-----------------------------------------------------------------------------
(* The bridge and its vehicle. *)
LEMMA LiteGearKeeps == ASSUME LiteInv, LiteGear PROVE LiteInv'
<1>1. UNCHANGED <<state, pending, active, targetGear, gearCycles, steerCycles, endHold, seen, motionStart,
                  drive, wheelCmd, applied, command, lite>>
  BY DEF LiteGear, B!TakeGear, segmentState, handshake, inputs
<1>2. gearCmd \in {"D", "R"} /\ gearCmd' = NoGear /\ requested' = gearCmd
  BY DEF LiteGear, B!TakeGear, LiteInv, IInv, ControlTypeOK
<1>3. IInv'
  BY <1>1, <1>2, TakenKeeps DEF LiteInv
<1>4. late' \in 0..Lag /\ (OnItsWay' => late' = late)
  BY LagIsNat DEF LiteGear, Arrived, LiteInv, LiteTypeOK
<1>5. LiteTypeOK' /\ CommandFits'
  BY <1>1, <1>2, <1>4 DEF LiteInv, LiteTypeOK, LiteGears, CommandFits
<1>6. ASSUME state = "SHIFT_GEAR", targetGear # NoGear
      PROVE  gearCmd = targetGear /\ ((OnItsWay' /\ gearCycles <= late') \/ Through(targetGear)')
  <2>1. gearCmd = targetGear
    BY <1>2, <1>6 DEF LiteInv, OrderGoesThrough, NoGear
  <2>2. CASE Through(targetGear)
    BY <1>1, <1>2, <2>1, <2>2 DEF Through
  <2>3. CASE OnItsWay /\ gearCycles <= late
    <3>1. CASE OnItsWay'
      BY <1>1, <1>4, <2>1, <2>3, <3>1
    <3>2. CASE ~OnItsWay'
      <4>1. requested' = applied' /\ lite'.reverse = command'.reverse
        BY <3>2 DEF OnItsWay
      <4> QED BY <1>1, <1>2, <2>1, <4>1 DEF LiteInv, CommandFits, Through
    <3> QED BY <3>1, <3>2
  <2> QED BY <1>6, <2>1, <2>2, <2>3, Zenon DEF LiteInv, OrderGoesThrough
<1>7. state = "PREPARE_STEERING" => Through(targetGear)'
  BY <1>1, <1>2 DEF LiteInv, OrderGoesThrough, Through, NoGear
<1>8. OrderGoesThrough'
  BY <1>1, <1>2, <1>6, <1>7 DEF OrderGoesThrough
<1> QED BY <1>3, <1>5, <1>8 DEF LiteInv

LEMMA LiteDriveKeeps == ASSUME LiteInv, LiteDrive PROVE LiteInv'
<1>1. UNCHANGED <<state, pending, active, targetGear, gearCycles, steerCycles, endHold, seen, motionStart,
                  gearCmd, late, requested, applied, command, lite>>
  BY DEF LiteDrive, B!TakeDrive, segmentState, handshake, inputs
<1>2. IInv'
  BY <1>1, TakenKeeps DEF LiteDrive, LiteInv
<1> QED
  BY <1>1, <1>2 DEF LiteInv, LiteTypeOK, CommandFits, OrderGoesThrough, Through, OnItsWay

LEMMA ExpireKeeps == ASSUME LiteInv, Expire PROVE LiteInv'
<1>1. UNCHANGED <<controlVars, late, requested, applied, command, lite>>
  BY DEF Expire, B!DriveExpires
<1>2. IInv'
  BY <1>1, ControlStands DEF LiteInv
<1> QED
  BY <1>1, <1>2
     DEF controlVars, LiteInv, LiteTypeOK, CommandFits, OrderGoesThrough, Through, OnItsWay

(* An order that stops being on its way without having been replaced is     *)
(* through.                                                                 *)
LEMMA ArrivedIsThrough ==
  ASSUME LiteInv, UNCHANGED <<controlVars, requested>>, CommandFits', Arrived,
         \A g \in LiteGears : Through(g) => Through(g)',
         applied' \in LiteGears
  PROVE  LiteInv'
<1>1. UNCHANGED <<state, targetGear, gearCycles, gearCmd>>
  BY DEF controlVars
<1>2. IInv'
  BY ControlStands DEF LiteInv
<1>3. late' \in 0..Lag /\ (OnItsWay' => late' = late)
  BY LagIsNat DEF Arrived, LiteInv, LiteTypeOK
<1>4. LiteTypeOK'
  BY <1>3 DEF LiteInv, LiteTypeOK
<1>5. targetGear \in {"D", "R", NoGear}
  BY DEF LiteInv, IInv, ControlTypeOK
<1>6. state = "PREPARE_STEERING" => targetGear \in {"D", "R"}
  BY <1>5, ParkingAssumption DEF LiteInv, IInv, PendingFits, ControlTypeOK
<1>7. state = "PREPARE_STEERING" => Through(targetGear)'
  BY <1>1, <1>6 DEF LiteInv, OrderGoesThrough, LiteGears, Through
<1>8. ASSUME state = "SHIFT_GEAR", targetGear # NoGear
      PROVE  (OnItsWay' /\ gearCycles <= late') \/ Through(targetGear)'
  <2>1. CASE Through(targetGear)
    BY <1>1, <1>5, <1>8, <2>1 DEF LiteGears, Through
  <2>2. CASE OnItsWay /\ gearCycles <= late
    <3>1. CASE OnItsWay'
      BY <1>3, <2>2, <3>1
    <3>2. CASE ~OnItsWay'
      <4>1. gearCmd' = NoGear /\ requested' = applied' /\ lite'.reverse = command'.reverse
        BY <3>2 DEF OnItsWay
      <4>2. requested' = targetGear
        BY <1>1, <1>8, <4>1 DEF LiteInv, OrderGoesThrough
      <4> QED BY <1>1, <4>1, <4>2 DEF CommandFits, Through
    <3> QED BY <3>1, <3>2
  <2> QED BY <1>8, <2>1, <2>2, Zenon DEF LiteInv, OrderGoesThrough
<1>9. OrderGoesThrough'
  BY <1>1, <1>7, <1>8 DEF LiteInv, OrderGoesThrough, Through
<1> QED BY <1>2, <1>4, <1>9 DEF LiteInv

LEMMA BridgeTimerKeeps == ASSUME LiteInv, BridgeTimer PROVE LiteInv'
<1>1. applied' = requested /\ command' = B!Control(B!Throttle, requested = "R")
  BY DEF BridgeTimer, B!ControlTimer
<1>2. UNCHANGED <<controlVars, requested, lite>> /\ Arrived
  BY DEF BridgeTimer, B!ControlTimer
<1>3. CommandFits'
  BY <1>1, Zenon DEF CommandFits, B!Control
<1>4. \A g \in LiteGears : Through(g) => Through(g)'
  BY <1>1, <1>2 DEF Through, controlVars
<1>5. applied' \in LiteGears
  BY <1>1 DEF LiteInv, LiteTypeOK
<1> QED BY <1>2, <1>3, <1>4, <1>5, ArrivedIsThrough

LEMMA LiteVehicleKeeps == ASSUME LiteInv, Vehicle PROVE LiteInv'
<1>1. lite'.reverse = command.reverse /\ UNCHANGED <<requested, applied, command>>
  BY DEF Vehicle, B!LiteStep
<1>2. UNCHANGED controlVars /\ Arrived
  BY DEF Vehicle
<1>3. CommandFits'
  BY <1>1 DEF LiteInv, CommandFits
<1>4. \A g \in LiteGears : Through(g) => Through(g)'
  BY <1>1, <1>2 DEF Through, controlVars, LiteInv, CommandFits
<1> QED BY <1>1, <1>2, <1>3, <1>4, ArrivedIsThrough DEF LiteInv, LiteTypeOK

-----------------------------------------------------------------------------
LEMMA LiteReportIsOne ==
  ASSUME IInv, LiteReport
  PROVE  \E r \in Reports : ChassisReport(r)
<1>1. PICK raw \in BOOLEAN, w \in {Between, Straight} \cup ({pending} \ {NoSegment}) :
        ChassisReport([received |-> TRUE, moving |-> lite.motion # "stop",
                       gear |-> B!GearLocation(raw), wheel |-> w])
  BY DEF LiteReport
<1>2. B!GearLocation(raw) \in Gears
  BY DEF B!GearLocation, Gears
<1>3. w \in Wheels
  BY NamesDiffer DEF IInv, ControlTypeOK, Wheels
<1> QED BY <1>1, <1>2, <1>3 DEF Reports

(* A report that comes while the order is on its way is counted by both. *)
LEMMA LiteReportKeeps == ASSUME LiteInv, LiteReport PROVE LiteInv'
<1>1. PICK r \in Reports : ChassisReport(r)
  BY LiteReportIsOne DEF LiteInv
<1>3. IInv'
  BY <1>1, ReportKeeps DEF LiteInv
<1>4. UNCHANGED <<state, targetGear, gearCmd, requested, applied, command, lite>>
  BY <1>1 DEF LiteReport, ChassisReport, segmentState, commands, bridge
<1>5. /\ late \in 0..Lag /\ late' \in 0..Lag
      /\ OnItsWay => late' = late + 1
  BY LagIsNat DEF LiteReport, LiteInv, LiteTypeOK
<1>6. state = "SHIFT_GEAR" => gearCycles' \in {0, gearCycles, gearCycles + 1}
  BY <1>1 DEF ChassisReport
<1>7. gearCycles \in Nat
  BY Thresholds DEF LiteInv, IInv, ControlTypeOK
<1>8. LiteTypeOK' /\ CommandFits'
  BY <1>4, <1>5 DEF LiteInv, LiteTypeOK, CommandFits
<1>9. OrderGoesThrough'
  BY <1>4, <1>5, <1>6, <1>7, LagIsNat DEF LiteInv, OrderGoesThrough, Through, OnItsWay
<1> QED BY <1>3, <1>8, <1>9 DEF LiteInv

-----------------------------------------------------------------------------
LEMMA LiteShiftKeeps ==
  ASSUME LiteInv, ShiftGear, UNCHANGED <<bridge, late>>
  PROVE  LiteInv'
<1>1. IInv'
  BY ShiftKeeps DEF LiteInv
<1>2. UNCHANGED <<requested, applied, command, lite, late>>
  BY DEF bridge
<1>3. /\ state \in {"HOLD_STOP", "SHIFT_GEAR"} /\ state' = "SHIFT_GEAR" /\ UNCHANGED targetGear
      /\ gearCycles' = IF state = "HOLD_STOP" THEN 0 ELSE gearCycles
      /\ targetGear # NoGear => gearCmd' = targetGear
  BY DEF ShiftGear, GearCommand
<1>4. late \in Nat
  BY LagIsNat DEF LiteInv, LiteTypeOK
<1>5. LiteTypeOK' /\ CommandFits'
  BY <1>2 DEF LiteInv, LiteTypeOK, CommandFits
<1>6. targetGear # NoGear => OnItsWay' /\ (gearCycles' <= late' \/ Through(targetGear)')
  BY <1>2, <1>3, <1>4 DEF LiteInv, OrderGoesThrough, OnItsWay, Through
<1>7. OrderGoesThrough'
  BY <1>3, <1>6 DEF OrderGoesThrough
<1> QED BY <1>1, <1>5, <1>7 DEF LiteInv

(* The gear of a segment that is prepared is through. *)
LEMMA PreparedIsThrough ==
  ASSUME LiteInv, PrepareSteering, Lag < GearStable
  PROVE  Through(targetGear)
<1>1. CASE state = "PREPARE_STEERING"
  BY <1>1 DEF LiteInv, OrderGoesThrough
<1>2. CASE GearDone
  <2>1. state = "SHIFT_GEAR" /\ gearCycles >= GearStable
    BY <1>2 DEF GearDone, Confirmed
  <2>2. ~(gearCycles <= late) /\ gearCycles # 0
    BY <2>1, LagIsNat, Thresholds DEF LiteInv, LiteTypeOK, IInv, ControlTypeOK
  <2>3. targetGear # NoGear
    BY <2>1, <2>2 DEF LiteInv, IInv, NothingAsked
  <2> QED BY <2>1, <2>2, <2>3, Zenon DEF LiteInv, OrderGoesThrough
<1> QED BY <1>1, <1>2 DEF PrepareSteering

LEMMA LitePrepareKeeps ==
  ASSUME LiteInv, PrepareSteering, Lag < GearStable, UNCHANGED <<bridge, late>>
  PROVE  LiteInv'
<1>1. IInv' /\ state' \in {"PREPARE_STEERING", "EXECUTING"} /\ UNCHANGED targetGear
  BY PrepareKeeps, PrepareOutcomes DEF LiteInv
<1>2. UNCHANGED <<requested, applied, command, lite, late>>
  BY DEF bridge
<1>3. gearCmd' \in {gearCmd, targetGear}
  BY DEF PrepareSteering, GearCommand
<1>4. Through(targetGear)'
  BY <1>1, <1>2, <1>3, PreparedIsThrough DEF Through
<1> QED BY <1>1, <1>2, <1>4 DEF LiteInv, LiteTypeOK, CommandFits, OrderGoesThrough

LEMMA LiteCycleKeeps ==
  ASSUME LiteInv, LiteCycle, Lag < GearStable
  PROVE  LiteInv'
<1>1. UNCHANGED <<bridge, late>>
  BY DEF LiteCycle
<1>2. PICK near \in BOOLEAN, elapsed \in BOOLEAN : Cycle(near, elapsed)
  BY DEF LiteCycle
<1>3. ASSUME ~ShiftGear, ~PrepareSteering PROVE state' \notin {"SHIFT_GEAR", "PREPARE_STEERING"}
  BY <1>2, <1>3 DEF Cycle, Execute, SegmentEnd, Straighten, MovedAgain, OnlyHold, segmentState
<1>4. IInv'
  BY <1>2, StepKeeps DEF ControlNext, LiteInv
<1>5. UNCHANGED <<requested, applied, command, late>>
  BY <1>1 DEF bridge
<1> QED BY <1>1, <1>3, <1>4, <1>5, LiteShiftKeeps, LitePrepareKeeps, LeavingKeeps

LEMMA LiteStepKeeps ==
  ASSUME Lag < GearStable, LiteInv, [LiteNext]_liteVars
  PROVE  LiteInv'
<1>1. CASE UNCHANGED liteVars
  <2>1. IInv'
    BY <1>1, ControlStands DEF liteVars, LiteInv
  <2> QED
    BY <1>1, <2>1
       DEF liteVars, controlVars, bridge, LiteInv, LiteTypeOK, CommandFits, OrderGoesThrough, Through, OnItsWay
<1> QED
  BY <1>1, LiteSendKeeps, LiteGoalKeeps, LiteResetKeeps, DieKeeps, LiteGearKeeps, LiteDriveKeeps, ExpireKeeps,
     BridgeTimerKeeps, LiteVehicleKeeps, LiteReportKeeps, LiteCycleKeeps DEF LiteNext

LEMMA LiteInvariance ==
  ASSUME Lag < GearStable
  PROVE  LiteSpec => []LiteInv
BY LiteStartHolds, LiteStepKeeps, PTL DEF LiteSpec

LEMMA LiteReleases ==
  ASSUME LiteInv, [LiteNext]_liteVars, active' # active, active' \in Segments, Lag < GearStable
  PROVE  /\ lite.reverse = (GearOf[active'] = "R")
         /\ requested = GearOf[active'] /\ applied = requested
<1>1. PrepareSteering
  BY NamesDiffer
     DEF LiteNext, LiteSend, OnTrajectory, StageStop, StageMotion, RefuseRolling, LiteGoalReached, GoalReached,
         LiteReset, TaskReset, Die, LiteGear, LiteDrive, Expire, BridgeTimer, Vehicle, LiteReport, ChassisReport,
         LiteCycle, Cycle, Execute, Straighten, ShiftGear, MovedAgain, OnlyHold, segmentState, controlVars, liteVars
<1>2. pending # NoSegment /\ targetGear = GearOf[pending] /\ active' = pending
  <2>1. pending # NoSegment
    BY <1>1, SomethingPends DEF LiteInv
  <2> QED BY <1>1, <2>1 DEF PrepareSteering, LiteInv, IInv, PendingFits
<1> QED BY <1>1, <1>2, PreparedIsThrough DEF Through

(* On the Lite simulator, too, a segment is released only to a vehicle that   *)
(* goes its way with no other order to come, although the bridge confirms the *)
(* forward gear from what it has ordered itself.                             *)
THEOREM LiteReleasesInGear ==
  ASSUME Lag < GearStable
  PROVE  LiteSpec => ReleasedInGear
<1>1. LiteInv /\ [LiteNext]_liteVars =>
        [active' # active /\ active' \in Segments =>
           /\ lite.reverse = (GearOf[active'] = "R")
           /\ requested = GearOf[active'] /\ applied = requested]_liteVars
  BY LiteReleases
<1> QED BY <1>1, LiteInvariance, PTL DEF LiteSpec, ReleasedInGear

-----------------------------------------------------------------------------
(* The controller's own invariant, whatever the delay. *)
LEMMA LiteControlKept ==
  ASSUME IInv, [LiteNext]_liteVars
  PROVE  IInv'
<1>1. CASE \E t \in Segments \cup {Stop} : LiteSend(t)
  BY <1>1, TrajectoryKeeps DEF LiteSend
<1>2. CASE LiteGoalReached \/ LiteReset \/ Die
  BY <1>2, GoalKeeps, ResetKeeps, DeathKeeps DEF LiteGoalReached, LiteReset
<1>3. CASE LiteGear \/ LiteDrive
  BY <1>3, TakenKeeps DEF LiteGear, LiteDrive, segmentState, handshake, inputs
<1>4. CASE Expire \/ BridgeTimer \/ Vehicle \/ UNCHANGED liteVars
  BY <1>4, ControlStands DEF Expire, BridgeTimer, Vehicle, liteVars
<1>5. CASE LiteReport
  BY <1>5, LiteReportIsOne, ReportKeeps
<1>6. CASE LiteCycle
  BY <1>6, StepKeeps DEF LiteCycle, ControlNext
<1> QED BY <1>1, <1>2, <1>3, <1>4, <1>5, <1>6 DEF LiteNext

LEMMA LiteStepRefines ==
  ASSUME IInv, [LiteNext]_liteVars
  PROVE  [SE!ExecutionNext]_(SE!segmentVars)
<1>1. CASE \E t \in Segments \cup {Stop} : LiteSend(t)
  BY <1>1, StageRefines DEF LiteSend, SE!ExecutionNext
<1>2. CASE LiteGoalReached \/ LiteReset
  BY <1>2, GoalRefines, ResetRefines DEF LiteGoalReached, LiteReset, SE!ExecutionNext
<1>3. CASE Die
  BY <1>3 DEF Die, SE!ExecutionNext, SE!Cleared, Mode, Doing, Preparing
<1>4. CASE LiteGear \/ LiteDrive \/ Expire \/ BridgeTimer \/ Vehicle \/ LiteReport \/ UNCHANGED liteVars
  BY <1>4, TakenUnseen
     DEF LiteGear, LiteDrive, Expire, BridgeTimer, Vehicle, LiteReport, ChassisReport, segmentState, controlVars,
         liteVars
<1>5. CASE LiteCycle
  BY <1>5, CycleRefines DEF LiteCycle, SE!ExecutionNext, Silent, SE!segmentVars
<1> QED BY <1>1, <1>2, <1>3, <1>4, <1>5 DEF LiteNext

(* A controller that drives Lite, and may end at any moment, implements       *)
(* SegmentExecution: its end is like a reset.                                 *)
THEOREM LiteRefines == LiteSpec => ExecutesLatestSegment
<1>1. LiteInit => IInv /\ SE!ExecutionInit
  BY InitHolds DEF LiteInit, ControlInit, SE!ExecutionInit, Mode, Doing, Preparing
<1>2. IInv /\ [LiteNext]_liteVars => IInv'
  BY LiteControlKept
<1>3. IInv /\ [LiteNext]_liteVars => [SE!ExecutionNext]_(SE!segmentVars)
  BY LiteStepRefines
<1> QED BY <1>1, <1>2, <1>3, PTL DEF LiteSpec, ExecutesLatestSegment, SE!ExecutionSpec
===============================================================================
