------------------------------- MODULE Platoon -------------------------------
(***************************************************************************)
(* Platoons: the cooperation and planning nodes of all vehicles, and the    *)
(* two ways missions travel between them.  In a simulation (open_simulate)   *)
(* every node hears /PlatoonMission, the sender's own too; on real vehicles  *)
(* the information hub takes PlatoonMission_self to the radio, which loses   *)
(* datagrams, and publishes what it receives on the receiving vehicle.       *)
(***************************************************************************)
EXTENDS Cooperation, PlatoonPlanner, InfoHub

CONSTANTS
  Pads,          \* vehicles whose pads give commands
  MaxCommands    \* bound: how many commands are given

ASSUME PlatoonAssumption == Pads \subseteq Running /\ MaxCommands \in Nat

VARIABLES
  openSimulate,   \* the parameter open_simulate of the launch files
  commands        \* commands given

vars == <<coopVars, planVars, hubVars, openSimulate, commands>>

Init ==
  /\ CoopInit /\ PlanInit /\ HubInit
  /\ openSimulate \in BOOLEAN
  /\ commands = 0

PadCommand(v) ==
  /\ commands < MaxCommands /\ commands' = commands + 1
  /\ Command(v)
  /\ UNCHANGED <<planVars, hubVars, openSimulate>>

CooperationMission(v) ==
  OnMission(v) /\ UNCHANGED <<planVars, hubVars, openSimulate, commands>>

CooperationTimer(v) ==
  Timer(v) /\ UNCHANGED <<planVars, hubVars, openSimulate, commands>>

(* Only a vehicle with a pad has roles to confuse: the others never lead.      *)
CooperationMember(v) ==
  /\ openSimulate
  /\ MemberMessage(v) \/ MemberEcho(v)
  /\ UNCHANGED <<planVars, hubVars, openSimulate, commands>>

PlanningMission(v) ==
  PlannerMission(v) /\ UNCHANGED <<coopVars, hubVars, openSimulate, commands>>

(* A member message carries the role its node has when it publishes it. *)
PlanningMember(v) ==
  /\ coop[v].up
  /\ PlannerMember(v, coop[v].role)
  /\ UNCHANGED <<coopVars, hubVars, openSimulate, commands>>

PlanningCycle(v) ==
  PlannerCycle(v) /\ UNCHANGED <<coopVars, hubVars, openSimulate, commands>>

(* A mission reaches the queues of the nodes that still run, which are never   *)
(* full: nodes that keep up with their topics never fill them.               *)
Up(nodes, to) == {v \in to : nodes[v].up}
Room(box, to) == \A v \in to : Len(box[v]) < QueueLen
Enqueue(box, to, m) == [v \in Running |-> IF v \in to THEN Append(box[v], m) ELSE box[v]]

Reach(to, m) ==
  /\ Room(inbox, Up(coop, to)) /\ Room(planBox, Up(plan, to))
  /\ inbox' = Enqueue(inbox, Up(coop, to), m)
  /\ planBox' = Enqueue(planBox, Up(plan, to), m)

Sent(v) == sent' = [sent EXCEPT ![v] = Tail(@)]

(* The topic of a simulation. *)
Broadcast(v) ==
  /\ openSimulate /\ sent[v] # <<>>
  /\ Reach(Running, Head(sent[v]))
  /\ Sent(v)
  /\ UNCHANGED <<coop, echo, plan, hubVars, openSimulate, commands>>

(* PlatoonMission_self: the vehicle's own planner and hub hear it. *)
HubMission(v) ==
  /\ ~openSimulate /\ sent[v] # <<>>
  /\ Room(planBox, Up(plan, {v}))
  /\ planBox' = Enqueue(planBox, Up(plan, {v}), Head(sent[v]))
  /\ OnMissionSelf(v, Head(sent[v]))
  /\ Sent(v)
  /\ UNCHANGED <<coop, echo, inbox, plan, openSimulate, commands>>

HubTake(v) == UdpTake(v) /\ UNCHANGED <<coopVars, planVars, openSimulate, commands>>

(* The radio reaches some of the other vehicles, whose hubs publish what they *)
(* receive (platoonMissionOpt).                                              *)
HubSend(v) ==
  /\ UdpSend(v)
  /\ \E heard \in SUBSET (Running \ {v}) : Reach(heard, buffer[v])
  /\ UNCHANGED <<coop, echo, sent, plan, openSimulate, commands>>

Next ==
  \/ \E v \in Pads : PadCommand(v) \/ CooperationMember(v)
  \/ \E v \in Running :
       \/ CooperationMission(v) \/ CooperationTimer(v)
       \/ PlanningMission(v) \/ PlanningMember(v) \/ PlanningCycle(v)
       \/ Broadcast(v) \/ HubMission(v) \/ HubTake(v) \/ HubSend(v)

Spec == Init /\ [][Next]_vars

-------------------------------------------------------------------------------
(* Every node, queue and buffer holds what its code can put there. *)
PlatoonTypeOK ==
  /\ coop \in [Running -> CoopNode] /\ plan \in [Running -> PlanNode]
  /\ sent \in [Running -> Seq(Missions)] /\ echo \in [Running -> {NoRole, LEADER, FOLLOWER}]
  /\ inbox \in [Running -> Seq(Missions)] /\ planBox \in [Running -> Seq(Missions)]
  /\ buffer \in [Running -> Missions]
  /\ flag \in [Running -> BOOLEAN] /\ copying \in [Running -> BOOLEAN]
  /\ openSimulate \in BOOLEAN /\ commands \in 0..MaxCommands

(* Neither the cooperation node nor the planner of a vehicle outside a platoon  *)
(* remembers a list, whatever missions were lost or came twice: buildSelf adds  *)
(* to the list it finds, and callbackTimer reads positions of it unchecked.     *)
DissolvedIsEmpty ==
  \A v \in Running : /\ ~coop[v].built => coop[v].list = <<>>
                     /\ ~plan[v].built => plan[v].list = <<>>

(* No vehicle is twice in a list: its index, and with it its place on the road  *)
(* and the vehicle it follows, is defined by the list alone (GetNumIndex).      *)
Distinct(list) == \A i, j \in DOMAIN list : list[i] = list[j] => i = j
NobodyTwice == \A v \in Running : Distinct(coop[v].list) /\ Distinct(plan[v].list)

(* A vehicle is started only while it is in a platoon.  massFlag and            *)
(* distributeFlag outlive the DISSOLVE that comes while a vehicle waits for its  *)
(* turn; what callbackTimer then does with them must not move it.               *)
OnlyPlatoonStarts ==
  [][\A v \in Running : ~coop[v].moving /\ coop'[v].moving => coop[v].built]_vars

(* When nothing is under way to a vehicle, its cooperation node and its planner *)
(* have the same platoon, whatever the radio lost: each keeps its own copy.     *)
(* With two leaders at once, or commands given faster than their missions come  *)
(* back to the leader, which obeys them a second time, this need not be so.     *)
Drained(v) == sent[v] = <<>> /\ inbox[v] = <<>> /\ planBox[v] = <<>>
CopiesAgree ==
  \A v \in Running :
    Drained(v) /\ coop[v].up /\ plan[v].up
      => coop[v].list = plan[v].list /\ coop[v].built = plan[v].built

(* Where no mission is lost, all vehicles of a platoon have the list of its      *)
(* leader once they have heard its missions (of one leader that waits for them). *)
ListsAgree ==
  openSimulate /\ (\A v \in Running : Drained(v))
    => \A v, w \in Running :
         coop[v].up /\ coop[w].up /\ coop[v].built /\ coop[w].built
           => coop[v].list = coop[w].list

(* What the source asserts: followerReachedMassPoint is asked for a vehicle      *)
(* behind the first, a vehicle that leaves is in the list and not at its head,   *)
(* and a follower that plans its speed has a vehicle in front.                  *)
AssertionsHold == \A v \in Running : coop[v].up /\ plan[v].up
===============================================================================
