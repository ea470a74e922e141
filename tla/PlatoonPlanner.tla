--------------------------- MODULE PlatoonPlanner ----------------------------
(***************************************************************************)
(* The platoon part of every planning node, planning_node.cpp: a second     *)
(* copy of the list of vehicles, kept from the same missions by other code,  *)
(* and the assertions a planning cycle makes about it.                       *)
(***************************************************************************)
EXTENDS PlatoonCommon

VARIABLES
  plan,      \* plan[v]: the state of v's planning node
  planBox    \* planBox[v]: missions waiting for its callbackPlatoonMission

planVars == <<plan, planBox>>

(* role: the vehicle's own role as its last member message had it. *)
PlanNode == [up : BOOLEAN, built : BOOLEAN, list : Seq(Vehicles), role : {LEADER, FOLLOWER},
             leaveSelf : BOOLEAN]

PlanFresh == [up |-> TRUE, built |-> FALSE, list |-> <<>>, role |-> FOLLOWER, leaveSelf |-> FALSE]
PlanAborted == [PlanFresh EXCEPT !.up = FALSE]

PlanInit ==
  /\ plan = [v \in Running |-> PlanFresh]
  /\ planBox = [v \in Running |-> <<>>]

Plan(v, p) == plan' = [plan EXCEPT ![v] = p]

(* disolve *)
PlanDisolve(p) == [p EXCEPT !.list = <<>>, !.built = FALSE, !.leaveSelf = FALSE]

(* Mutant: the return for vehicles that leave from behind comes too early. *)
PlanLeaveLate(v, p, num) ==
  IF GetNumIndex(p.list, num) <= 0 THEN PlanAborted
  ELSE IF GetNumIndex(p.list, num) > GetNumIndex(p.list, v) THEN p
  ELSE [p EXCEPT !.list = EraseNum(@, num), !.leaveSelf = @ \/ num = v]

(* leave asserts that a vehicle that leaves is in the list, and not at its    *)
(* head.                                                                    *)
PlanLeave(v, p, num) ==
  IF GetNumIndex(p.list, num) > 0
  THEN [p EXCEPT !.list = EraseNum(@, num), !.leaveSelf = @ \/ num = v]
  ELSE PlanAborted

PlanObey(v, p, m) ==
  CASE m.type = "BUILD" -> [p EXCEPT !.list = m.list, !.built = TRUE]
    [] m.type = "JOIN" -> [p EXCEPT !.list = AddNum(@, m.num),
                                    !.leaveSelf = @ /\ (m.num # v \/ CheckNum(p.list, v))]
    [] m.type = "LEAVE" -> PlanLeave(v, p, m.num)
    [] m.type = "DISSOLVE" -> PlanDisolve(p)
    [] OTHER -> p

(* callbackPlatoonMission *)
PlannerMission(v) ==
  /\ plan[v].up /\ planBox[v] # <<>>
  /\ LET p == plan[v]
         m == Head(planBox[v])
     IN Plan(v, IF Admitted(p.built, m.type) THEN PlanObey(v, p, m) ELSE p)
  /\ planBox' = [planBox EXCEPT ![v] = Tail(@)]

(* callbackPlatoonMember, for the vehicle's own message *)
PlannerMember(v, role) ==
  /\ plan[v].up
  /\ Plan(v, [plan[v] EXCEPT !.role = role])
  /\ UNCHANGED planBox

(* velocityRunning of a cycle: a follower that is not leaving plans after    *)
(* the vehicle in front, and asserts that it has one.                        *)
PlannerCycle(v) ==
  /\ plan[v].up /\ plan[v].built /\ plan[v].role = FOLLOWER /\ ~plan[v].leaveSelf
  /\ GetNumIndex(plan[v].list, v) <= 0
  /\ Plan(v, PlanAborted)
  /\ UNCHANGED planBox
===============================================================================
