-------------------------- MODULE MCConflictResolver --------------------------
(***************************************************************************)
(* Small instances of ConflictResolver: the geometry of a pair of routes   *)
(* that cross or that merge into one lane.                                 *)
(***************************************************************************)
EXTENDS ConflictResolver

Near(x, c, reach) == x >= c - reach /\ x <= c + reach
Gap(x, y) == IF x < y THEN y - x ELSE x - y

(* Perpendicular routes that cross at map point c of both; footprints      *)
(* overlap when both centres are within reach of the crossing.             *)
Crossing(c, reach) ==
  [xy \in Pos \X Pos |->
     [angle |-> IF Near(xy[1], c, reach) /\ Near(xy[2], c, reach) THEN "large" ELSE "none",
      dist |-> (xy[1] - c) * (xy[1] - c) + (xy[2] - c) * (xy[2] - c)]]

(* Routes that meet at an angle between map points a and b and share one   *)
(* lane from b on; footprints of length 1 overlap at equal map points.     *)
Merging(a, b) ==
  [xy \in Pos \X Pos |->
     [angle |-> IF xy[1] < a \/ Gap(xy[1], xy[2]) > 0 THEN "none"
                ELSE IF xy[1] < b THEN "large" ELSE "small",
      dist |-> Gap(xy[1], xy[2]) * Gap(xy[1], xy[2])]]

MCMerging == [p \in Pairs |-> Merging(1, 3)]
MCSamePace == [v \in Vehicles |-> {1}]
MCPriority == [v \in Vehicles |-> v - 1]
MCWeight == [k \in {"priority", "speed", "progress", "ttc", "delay"} |->
               CASE k = "priority" -> 0 [] k = "speed" -> 2 [] OTHER -> 5]
=============================================================================
