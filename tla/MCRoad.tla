-------------------------------- MODULE MCRoad --------------------------------
EXTENDS RoadDriving

(* Both ways; one is longer than the other, so that the place where the vehicle *)
(* stood on it may lie past the other's end.                               *)
MCTrajectories ==
  {[gear |-> "D", speed |-> <<"fast", "fast", "zero">>],
   [gear |-> "R", speed |-> <<"slow", "fast">>]}
===============================================================================
