----------------------------- MODULE MCParkingTask ----------------------------
EXTENDS ParkingTask, TLC

(* Trajectories are told apart by name only; a run that checks no liveness may  *)
(* take them for symmetric.                                                 *)
MCNames == Permutations(Trajectories)
===============================================================================
