---------------------------- MODULE ParkingBackEnd ----------------------------
(***************************************************************************)
(* What the two back-ends of a simulated parking have in common: no real    *)
(* chassis is commanded, and a gear order or a reset reaches the vehicle     *)
(* before it has published Lag more chassis reports.                        *)
(***************************************************************************)
EXTENDS ParkingControl

CONSTANT Lag   \* reports that may overtake a message to the vehicle

ASSUME BackEndAssumption == Lag \in Nat /\ VehicleMode = FALSE

VARIABLE late  \* reports since such a message has been under way
===============================================================================
