---------------------------- MODULE PlatoonCommon ----------------------------
(***************************************************************************)
(* What the nodes of a platoon share: the missions, the roles, and the      *)
(* helpers of platoon_common.cpp on the list of vehicle numbers.  A list    *)
(* starts with the vehicle that built the platoon; the source counts its    *)
(* positions from 0, and so does GetNumIndex.                               *)
(***************************************************************************)
EXTENDS Integers, Sequences

CONSTANTS
  Vehicles,   \* the vehicle numbers (uint8, unique)
  Running     \* vehicles whose nodes run; the others are only numbers in lists

ASSUME VehiclesAssumption == Vehicles \subseteq Nat \ {0} /\ Running \subseteq Vehicles

LEADER == "LEADER"
FOLLOWER == "FOLLOWER"

(* PlatoonMission: its type, the list of a BUILD, the vehicle of a JOIN or   *)
(* LEAVE (0 when the field is not set) and how many points a DISTRIBUTE      *)
(* carries.  COLUMN, DIAMOND, TRIANGLE, REVESE and CANCEL_REVESE change no    *)
(* state kept here and are one mission, SHAPE.                              *)
MissionTypes == {"BUILD", "JOIN", "LEAVE", "DISSOLVE", "SHAPE", "MASS",
                 "DISTRIBUTE", "RUNNING"}
Missions == [type : MissionTypes, list : Seq(Vehicles), num : Vehicles \cup {0}, points : Nat]
Mission(t, list, num, points) == [type |-> t, list |-> list, num |-> num, points |-> points]
Order(t) == Mission(t, <<>>, 0, 0)

(* platoonCheckNum *)
CheckNum(list, num) == \E i \in DOMAIN list : list[i] = num

(* platoonGetNumIndex: the last position of num, -1 when it is not there *)
GetNumIndex(list, num) ==
  IF CheckNum(list, num)
  THEN (CHOOSE i \in DOMAIN list :
          list[i] = num /\ \A j \in DOMAIN list : list[j] = num => j <= i) - 1
  ELSE -1

(* platoonEraseNum: the first occurrence goes *)
EraseNum(list, num) ==
  IF CheckNum(list, num)
  THEN LET k == CHOOSE i \in DOMAIN list :
                  list[i] = num /\ \A j \in DOMAIN list : list[j] = num => i <= j
       IN [i \in 1..(Len(list) - 1) |-> IF i < k THEN list[i] ELSE list[i + 1]]
  ELSE list

(* Mutant: a repeated JOIN is not noticed. *)
AddNumAlways(list, num) == Append(list, num)

(* join of every node: a vehicle that is in the list is not added again *)
AddNum(list, num) == IF CheckNum(list, num) THEN list ELSE Append(list, num)

(* callbackOpt and callbackPlatoonMission of every node: BUILD is for a      *)
(* vehicle outside a platoon, anything else for one inside.                 *)
Admitted(built, type) == (type = "BUILD") # built
===============================================================================
