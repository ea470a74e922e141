--------------------------- MODULE MCShapedDriving ---------------------------
(***************************************************************************)
(* Values of the constants of ShapedDriving for TLC: the entry of a stop     *)
(* order lies anywhere from behind the trajectory to beyond it.             *)
(***************************************************************************)
EXTENDS ShapedDriving

CONSTANTS p, q

MCBehind == {-2, -3, -5}
MCConstraints ==
  {[role |-> r] : r \in {"NONE", "PROCEED"}}
  \cup {[role |-> "YIELD", strategy |-> "STOP_AND_WAIT", entry |-> s] : s \in -7..18}
  \cup {[role |-> "YIELD", strategy |-> "FOLLOW", peer |-> x] : x \in Peers}
===============================================================================
