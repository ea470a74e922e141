------------------------------ MODULE MCPlatoon ------------------------------
(***************************************************************************)
(* Values of the constants of Platoon for TLC.                              *)
(***************************************************************************)
EXTENDS Platoon

(* What a BUILD may find: everybody heard, or one vehicle not heard yet. *)
MCLists == {<<1, 2, 3>>, <<1, 3>>}
===============================================================================
