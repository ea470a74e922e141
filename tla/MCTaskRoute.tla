----------------------------- MODULE MCTaskRoute -----------------------------
(***************************************************************************)
(* Values of the constants of TaskRoute for TLC: task 3 is off the map.      *)
(***************************************************************************)
EXTENDS TaskRoute

MCSolutions == {<<1, 2>>, <<>>}
MCCloudTasks == {<<1, 3>>}
===============================================================================
