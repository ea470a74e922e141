---------------------------- MODULE PlatoonProofs ----------------------------
(***************************************************************************)
(* Proofs about Platoon, for any number of vehicles and pads, queues of any  *)
(* length, and every loss of the radio.                                     *)
(*                                                                         *)
(* The inductive invariant types every node, queue and buffer by what the    *)
(* properties need: a mission carries nobody twice, a node lists nobody      *)
(* twice, and a node outside a platoon lists nobody.                         *)
(*                                                                         *)
(* The second half is about one leader, whose missions are one sequence:     *)
(* every copy of the platoon is somewhere along it (OneSequence).            *)
(***************************************************************************)
EXTENDS Platoon, TLAPS, SequenceTheorems

Members == {l \in Seq(Vehicles) : Distinct(l)}
Ordered == {m \in Missions : Distinct(m.list) /\ (m.type = "JOIN" => m.num \in Vehicles)}
CoopOrdered == {c \in CoopNode : Distinct(c.list) /\ (c.built \/ c.list = <<>>)}
PlanOrdered == {p \in PlanNode : Distinct(p.list) /\ (p.built \/ p.list = <<>>)}

CoopInv ==
  /\ coop \in [Running -> CoopOrdered] /\ sent \in [Running -> Seq(Ordered)]
  /\ inbox \in [Running -> Seq(Ordered)] /\ echo \in [Running -> {NoRole, LEADER, FOLLOWER}]
PlanInv == plan \in [Running -> PlanOrdered] /\ planBox \in [Running -> Seq(Ordered)]
HubInv ==
  /\ buffer \in [Running -> Ordered]
  /\ flag \in [Running -> BOOLEAN] /\ copying \in [Running -> BOOLEAN]
FleetInv == openSimulate \in BOOLEAN /\ commands \in 0..MaxCommands

PlatoonInv == CoopInv /\ PlanInv /\ HubInv /\ FleetInv

-------------------------------------------------------------------------------
(* Lists of vehicles. *)

LEMMA EmptyIsMembers == <<>> \in Members
  BY DEF Members, Distinct

LEMMA AddNumMembers ==
  ASSUME NEW l \in Members, NEW n \in Vehicles
  PROVE  AddNum(l, n) \in Members
<1>1. CASE CheckNum(l, n)
  BY <1>1 DEF AddNum
<1>2. CASE ~CheckNum(l, n)
  <2>1. l \in Seq(Vehicles)
    BY DEF Members
  <2>2. /\ Append(l, n) \in Seq(Vehicles) /\ Len(Append(l, n)) = Len(l) + 1
        /\ \A i \in 1..Len(l) : Append(l, n)[i] = l[i]
        /\ Append(l, n)[Len(l) + 1] = n
    BY <2>1, AppendProperties
  <2>3. Len(l) \in Nat /\ DOMAIN l = 1..Len(l) /\ DOMAIN Append(l, n) = 1..(Len(l) + 1)
    BY <2>1, <2>2, LenProperties
  <2>4. \A i \in 1..Len(l) : l[i] # n
    BY <1>2, <2>3 DEF CheckNum
  <2>5. \A i, j \in 1..Len(l) : l[i] = l[j] => i = j
    BY <2>3 DEF Members, Distinct
  <2>6. Distinct(Append(l, n))
    BY <2>2, <2>3, <2>4, <2>5 DEF Distinct
  <2> QED
    BY <1>2, <2>2, <2>6 DEF AddNum, Members
<1> QED
  BY <1>1, <1>2

LEMMA EraseNumMembers ==
  ASSUME NEW l \in Members, NEW n
  PROVE  EraseNum(l, n) \in Members
<1>1. CASE ~CheckNum(l, n)
  BY <1>1 DEF EraseNum
<1>2. CASE CheckNum(l, n)
  <2> DEFINE k == CHOOSE i \in DOMAIN l : l[i] = n /\ \A j \in DOMAIN l : l[j] = n => i <= j
             r == [i \in 1..(Len(l) - 1) |-> IF i < k THEN l[i] ELSE l[i + 1]]
  <2>1. l \in Seq(Vehicles) /\ Len(l) \in Nat /\ DOMAIN l = 1..Len(l)
    BY LenProperties DEF Members
  <2>2. Len(l) > 0
    BY <1>2, <2>1 DEF CheckNum
  <2>3. \A i, j \in 1..Len(l) : l[i] = l[j] => i = j
    BY <2>1 DEF Members, Distinct
  <2>4. \A i \in 1..Len(l) : l[i] \in Vehicles
    BY <2>1, ElementOfSeq
  <2>5. PICK i \in 1..Len(l) : l[i] = n
    BY <1>2, <2>1 DEF CheckNum
  <2>6. i \in DOMAIN l /\ l[i] = n /\ \A j \in DOMAIN l : l[j] = n => i <= j
    BY <2>1, <2>3, <2>5
  <2>7. k \in 1..Len(l)
    BY <2>1, <2>6
  <2>8. EraseNum(l, n) = r
    BY <1>2 DEF EraseNum
  <2> HIDE DEF k
  <2>9. \A j \in 1..(Len(l) - 1) : r[j] = IF j < k THEN l[j] ELSE l[j + 1]
    OBVIOUS
  <2>10. DOMAIN r = 1..(Len(l) - 1) /\ r \in [1..(Len(l) - 1) -> Vehicles]
    BY <2>1, <2>4
  <2>11. r \in Seq(Vehicles)
    BY <2>1, <2>2, <2>10, SeqDef
  <2> HIDE DEF r
  <2>12. ASSUME NEW x \in 1..(Len(l) - 1), NEW y \in 1..(Len(l) - 1), r[x] = r[y]
         PROVE  x = y
    <3> DEFINE at(z) == IF z < k THEN z ELSE z + 1
    <3>1. at(x) \in 1..Len(l) /\ at(y) \in 1..Len(l)
      BY <2>1, <2>7
    <3>2. l[at(x)] = l[at(y)]
      BY <2>9, <2>12
    <3>3. at(x) = at(y)
      BY <2>3, <3>1, <3>2
    <3> QED
      BY <2>1, <2>7, <3>3
  <2>13. Distinct(r)
    BY <2>10, <2>12 DEF Distinct
  <2> QED
    BY <2>8, <2>11, <2>13 DEF Members
<1> QED
  BY <1>1, <1>2

LEMMA IndexOf ==
  ASSUME NEW n
  PROVE  GetNumIndex(<<>>, n) = -1
  BY DEF GetNumIndex, CheckNum

-------------------------------------------------------------------------------
(* Missions and queues. *)

LEMMA MissionOrdered ==
  ASSUME NEW t \in MissionTypes, NEW l \in Members, NEW n \in Vehicles \cup {0}, NEW k \in Nat,
         t = "JOIN" => n \in Vehicles
  PROVE  Mission(t, l, n, k) \in Ordered /\ (t # "JOIN" => Order(t) \in Ordered)
  BY EmptyIsMembers DEF Mission, Order, Ordered, Missions, Members

LEMMA BlankOrdered == Blank \in Ordered
<1>1. "SHAPE" \in MissionTypes
  BY DEF MissionTypes
<1> QED
  BY <1>1, EmptyIsMembers DEF Blank, Mission, Order, Ordered, Missions, Members

LEMMA OrderedFields ==
  ASSUME NEW m \in Ordered
  PROVE  /\ m.type \in MissionTypes /\ m.list \in Members
         /\ m.num \in Vehicles \cup {0} /\ m.points \in Nat
         /\ m.type = "JOIN" => m.num \in Vehicles
         /\ Datagram(m) \in Ordered
<1>1. m.type \in MissionTypes /\ m.list \in Members /\ m.num \in Vehicles \cup {0} /\ m.points \in Nat
  BY DEF Ordered, Missions, Members
<1>2. /\ Datagram(m) \in Missions /\ Datagram(m).list = m.list
      /\ Datagram(m).type = m.type /\ Datagram(m).num = m.num
  BY DEF Ordered, Missions, Datagram
<1> QED
  BY <1>1, <1>2 DEF Ordered, Members

LEMMA EmptiesOrdered == Members \subseteq Seq(Vehicles) /\ Ordered \subseteq Missions
  BY DEF Members, Ordered

LEMMA QueueOrdered ==
  ASSUME NEW q \in Seq(Ordered), NEW m \in Ordered
  PROVE  /\ Append(q, m) \in Seq(Ordered)
         /\ q # <<>> => Head(q) \in Ordered /\ Tail(q) \in Seq(Ordered)
  BY AppendProperties, HeadTailProperties

LEMMA EnqueueOrdered ==
  ASSUME NEW box \in [Running -> Seq(Ordered)], NEW to, NEW m \in Ordered
  PROVE  Enqueue(box, to, m) \in [Running -> Seq(Ordered)]
<1>1. \A v \in Running : Append(box[v], m) \in Seq(Ordered)
  BY QueueOrdered
<1> QED
  BY <1>1 DEF Enqueue

-------------------------------------------------------------------------------
(* What a node is after an order or a mission. *)

LEMMA CoopFields ==
  ASSUME NEW c \in CoopOrdered
  PROVE  /\ c.up \in BOOLEAN /\ c.built \in BOOLEAN /\ c.list \in Members
         /\ c.role \in {LEADER, FOLLOWER} /\ c.massFlag \in BOOLEAN
         /\ c.distributeFlag \in BOOLEAN /\ c.points \in Nat /\ c.moving \in BOOLEAN
         /\ c.built \/ c.list = <<>>
  BY DEF CoopOrdered, CoopNode, Members

LEMMA CoopMade ==
  ASSUME NEW c \in CoopNode, c.list \in Members, c.built \/ c.list = <<>>
  PROVE  c \in CoopOrdered
  BY DEF CoopOrdered, Members

LEMMA NodesMade ==
  ASSUME NEW c \in CoopOrdered
  PROVE  /\ Fresh \in CoopOrdered /\ Aborted(c) \in CoopOrdered
         /\ Parked(c) \in CoopOrdered /\ Started(c) \in CoopOrdered
         /\ AfterMass(c) \in CoopOrdered /\ AfterSpread(c) \in CoopOrdered
<1>1. Fresh \in CoopNode /\ Fresh.list = <<>>
  BY EmptyIsMembers DEF Fresh, CoopNode, Members
<1>2. Fresh \in CoopOrdered
  BY <1>1, EmptyIsMembers, CoopMade
<1>3. c \in CoopNode
  BY DEF CoopOrdered
<1>4. Aborted(c) \in CoopNode /\ Aborted(c).list = <<>>
  BY <1>1, <1>3 DEF Aborted, CoopNode, Fresh
<1>5. Aborted(c) \in CoopOrdered
  BY <1>4, EmptyIsMembers, CoopMade
<1>6. Parked(c) \in CoopNode /\ Started(c) \in CoopNode
  BY <1>3 DEF Parked, Started, CoopNode
<1>7. /\ Parked(c).list = c.list /\ Parked(c).built = c.built
      /\ Started(c).list = c.list /\ Started(c).built = c.built
  BY <1>3 DEF Parked, Started, CoopNode
<1>8. Parked(c) \in CoopOrdered /\ Started(c) \in CoopOrdered
  BY <1>6, <1>7, CoopFields, CoopMade
<1>9. AfterMass(c) \in CoopNode /\ AfterSpread(c) \in CoopNode
  BY <1>3 DEF AfterMass, AfterSpread, Started, CoopNode
<1>10. /\ AfterMass(c).list = c.list /\ AfterMass(c).built = c.built
       /\ AfterSpread(c).list = c.list /\ AfterSpread(c).built = c.built
  BY <1>3 DEF AfterMass, AfterSpread, Started, CoopNode
<1> QED
  BY <1>2, <1>5, <1>8, <1>9, <1>10, CoopFields, CoopMade

LEMMA CoopMission ==
  ASSUME NEW c \in CoopOrdered, NEW m \in Ordered, Admitted(c.built, m.type)
  PROVE  Obey(c, m) \in CoopOrdered
<1>1. /\ c \in CoopNode /\ c.built \in BOOLEAN /\ c.list \in Members
      /\ m.list \in Members /\ m.points \in Nat /\ m.type \in MissionTypes
  BY CoopFields, OrderedFields DEF CoopOrdered
<1>2. m.type # "BUILD" => c.built = TRUE
  BY <1>1 DEF Admitted
<1>3. /\ LEADER \in {LEADER, FOLLOWER} /\ FOLLOWER \in {LEADER, FOLLOWER}
      /\ Members \subseteq Seq(Vehicles)
  BY EmptiesOrdered
<1>4. CASE m.type = "BUILD"
  <2> DEFINE d == [c EXCEPT !.list = m.list, !.role = FOLLOWER, !.built = TRUE]
  <2>1. d \in CoopNode /\ d.list = m.list /\ d.built = TRUE
    BY <1>1, <1>3 DEF CoopNode
  <2>2. d \in CoopOrdered
    BY <1>1, <2>1, CoopMade
  <2> QED
    BY <1>4, <2>2, NodesMade DEF Obey
<1>5. CASE m.type = "JOIN"
  <2>1. AddNum(c.list, m.num) \in Members
    BY <1>1, <1>5, OrderedFields, AddNumMembers
  <2>2. Join(c, m) \in CoopNode /\ Join(c, m).list = AddNum(c.list, m.num) /\ Join(c, m).built = TRUE
    BY <1>1, <1>2, <1>3, <1>5, <2>1 DEF Join, CoopNode
  <2> QED
    BY <1>5, <2>1, <2>2, CoopMade DEF Obey
<1>6. CASE m.type = "LEAVE"
  <2>1. EraseNum(c.list, m.num) \in Members
    BY <1>1, EraseNumMembers
  <2>2. Leave(c, m) \in CoopNode /\ Leave(c, m).list = EraseNum(c.list, m.num) /\ Leave(c, m).built = TRUE
    BY <1>1, <1>2, <1>3, <1>6, <2>1 DEF Leave, CoopNode
  <2> QED
    BY <1>6, <2>1, <2>2, CoopMade DEF Obey
<1>7. CASE m.type = "DISSOLVE"
  <2>1. Disolve(c) \in CoopNode /\ Disolve(c).list = <<>>
    BY <1>1, <1>3, EmptyIsMembers DEF Disolve, CoopNode
  <2> QED
    BY <1>7, <2>1, EmptyIsMembers, CoopMade DEF Obey
<1>8. CASE m.type = "SHAPE"
  BY <1>8 DEF Obey
<1>9. CASE m.type = "MASS"
  <2>1. (c.massFlag \/ c.role # LEADER) \in BOOLEAN
    OBVIOUS
  <2> DEFINE d == [c EXCEPT !.massFlag = @ \/ c.role # LEADER]
  <2>2. d \in CoopNode /\ d.list = c.list /\ d.built = c.built
    BY <1>1 DEF CoopNode
  <2>3. d \in CoopOrdered
    BY <1>1, <2>2, CoopFields, CoopMade
  <2> QED
    BY <1>9, <2>3 DEF Obey
<1>10. CASE m.type = "DISTRIBUTE"
  <2> DEFINE d == [c EXCEPT !.points = m.points, !.distributeFlag = TRUE, !.moving = FALSE]
  <2>1. d \in CoopNode /\ d.list = c.list /\ d.built = c.built
    BY <1>1 DEF CoopNode
  <2>2. d \in CoopOrdered
    BY <1>1, <2>1, CoopFields, CoopMade
  <2> QED
    BY <1>10, <2>2 DEF Obey
<1>11. CASE m.type = "RUNNING"
  BY <1>11, NodesMade DEF Obey
<1> QED
  BY <1>1, <1>4, <1>5, <1>6, <1>7, <1>8, <1>9, <1>10, <1>11 DEF MissionTypes

LEMMA PlanFields ==
  ASSUME NEW p \in PlanOrdered
  PROVE  /\ p.up \in BOOLEAN /\ p.built \in BOOLEAN /\ p.list \in Members
         /\ p.role \in {LEADER, FOLLOWER} /\ p.leaveSelf \in BOOLEAN
         /\ p.built \/ p.list = <<>>
  BY DEF PlanOrdered, PlanNode, Members

LEMMA PlanMade ==
  ASSUME NEW p \in PlanNode, p.list \in Members, p.built \/ p.list = <<>>
  PROVE  p \in PlanOrdered
  BY DEF PlanOrdered, Members

LEMMA PlanAbortedOrdered == PlanFresh \in PlanOrdered /\ PlanAborted \in PlanOrdered
<1>1. /\ PlanFresh \in PlanNode /\ PlanFresh.list = <<>>
      /\ PlanAborted \in PlanNode /\ PlanAborted.list = <<>>
  BY EmptyIsMembers DEF PlanFresh, PlanAborted, PlanNode, Members
<1> QED
  BY <1>1, EmptyIsMembers, PlanMade

LEMMA PlanMission ==
  ASSUME NEW v, NEW p \in PlanOrdered, NEW m \in Ordered, Admitted(p.built, m.type)
  PROVE  PlanObey(v, p, m) \in PlanOrdered
<1>1. /\ p \in PlanNode /\ p.built \in BOOLEAN /\ p.list \in Members
      /\ m.list \in Members /\ m.type \in MissionTypes /\ Members \subseteq Seq(Vehicles)
  BY PlanFields, OrderedFields, EmptiesOrdered DEF PlanOrdered
<1>2. m.type # "BUILD" => p.built = TRUE
  BY <1>1 DEF Admitted
<1>3. CASE m.type = "BUILD"
  <2> DEFINE d == [p EXCEPT !.list = m.list, !.built = TRUE]
  <2>1. d \in PlanNode /\ d.list = m.list /\ d.built = TRUE
    BY <1>1 DEF PlanNode
  <2>2. d \in PlanOrdered
    BY <1>1, <2>1, PlanMade
  <2> QED
    BY <1>3, <2>2 DEF PlanObey
<1>4. CASE m.type = "JOIN"
  <2> DEFINE b == p.leaveSelf /\ (m.num # v \/ CheckNum(p.list, v))
             d == [p EXCEPT !.list = AddNum(p.list, m.num), !.leaveSelf = b]
  <2>1. AddNum(p.list, m.num) \in Members
    BY <1>1, <1>4, OrderedFields, AddNumMembers
  <2>2. b \in BOOLEAN
    BY PlanFields
  <2> HIDE DEF b
  <2>3. d \in PlanNode /\ d.list = AddNum(p.list, m.num) /\ d.built = TRUE
    BY <1>1, <1>2, <1>4, <2>1, <2>2 DEF PlanNode
  <2>4. d \in PlanOrdered
    BY <2>1, <2>3, PlanMade
  <2> QED
    BY <1>1, <1>4, <2>4 DEF PlanObey, PlanNode, b
<1>5. CASE m.type = "LEAVE"
  <2> DEFINE b == p.leaveSelf \/ m.num = v
             d == [p EXCEPT !.list = EraseNum(p.list, m.num), !.leaveSelf = b]
  <2>1. EraseNum(p.list, m.num) \in Members
    BY <1>1, EraseNumMembers
  <2>2. b \in BOOLEAN
    BY PlanFields
  <2> HIDE DEF b
  <2>3. d \in PlanNode /\ d.list = EraseNum(p.list, m.num) /\ d.built = TRUE
    BY <1>1, <1>2, <1>5, <2>1, <2>2 DEF PlanNode
  <2>4. d \in PlanOrdered
    BY <2>1, <2>3, PlanMade
  <2>5. PlanLeave(v, p, m.num) \in {d, PlanAborted}
    BY <1>1 DEF PlanLeave, PlanNode, b
  <2> QED
    BY <1>5, <2>4, <2>5, PlanAbortedOrdered DEF PlanObey
<1>6. CASE m.type = "DISSOLVE"
  <2>1. PlanDisolve(p) \in PlanNode /\ PlanDisolve(p).list = <<>>
    BY <1>1, EmptyIsMembers DEF PlanDisolve, PlanNode
  <2> QED
    BY <1>6, <2>1, EmptyIsMembers, PlanMade DEF PlanObey
<1>7. CASE m.type \notin {"BUILD", "JOIN", "LEAVE", "DISSOLVE"}
  BY <1>7 DEF PlanObey
<1> QED
  BY <1>3, <1>4, <1>5, <1>6, <1>7

-------------------------------------------------------------------------------
(* The pad's commands. *)

LEMMA PublishKeeps ==
  ASSUME CoopInv, NEW v \in Running, NEW m \in Ordered, Publish(v, m),
         NEW c \in CoopOrdered, Become(v, c)
  PROVE  CoopInv'
<1>1. coop' \in [Running -> CoopOrdered]
  BY DEF CoopInv, Become
<1>2. sent' \in [Running -> Seq(Ordered)]
  <2>1. Append(sent[v], m) \in Seq(Ordered)
    BY QueueOrdered DEF CoopInv
  <2> QED
    BY <2>1 DEF CoopInv, Publish
<1>3. inbox' = inbox /\ echo' = echo
  BY DEF Publish
<1> QED
  BY <1>1, <1>2, <1>3 DEF CoopInv

LEMMA BecomeKeeps ==
  ASSUME CoopInv, NEW v \in Running, NEW c \in CoopOrdered, Become(v, c),
         UNCHANGED <<sent, inbox, echo>>
  PROVE  CoopInv'
  BY DEF CoopInv, Become

LEMMA NoVehicleTypes ==
  /\ "JOIN" \in MissionTypes /\ "LEAVE" \in MissionTypes /\ "BUILD" \in MissionTypes
  /\ "SHAPE" \in MissionTypes /\ "MASS" \in MissionTypes /\ "RUNNING" \in MissionTypes
  /\ "DISSOLVE" \in MissionTypes /\ "DISTRIBUTE" \in MissionTypes
  BY DEF MissionTypes

LEMMA BuildKeeps ==
  ASSUME CoopInv, NEW v \in Running, NEW members \in Lists, BuildSelf(v, members)
  PROVE  CoopInv'
<1> DEFINE c == coop[v]
           list == c.list \o members
           d == [c EXCEPT !.list = list, !.points = Len(list), !.role = LEADER, !.built = TRUE]
<1>1. c \in CoopOrdered /\ c \in CoopNode
  BY DEF CoopInv, CoopOrdered
<1>2. c.list = <<>>
  BY <1>1, CoopFields DEF BuildSelf, Admitted
<1>3. members \in Members
  BY CooperationAssumption DEF Members, Distinct
<1>4. list = members
  BY <1>2, <1>3, ConcatEmptySeq DEF Members
<1>5. list \in Members /\ list \in Seq(Vehicles) /\ Len(list) \in Nat
  BY <1>3, <1>4, LenProperties DEF Members
<1>6. Become(v, Parked(d)) /\ Publish(v, Mission("BUILD", list, 0, 0))
  BY DEF BuildSelf
<1> HIDE DEF list
<1>7. d \in CoopNode /\ d.list = list /\ d.built = TRUE
  BY <1>1, <1>5 DEF CoopNode
<1>8. d \in CoopOrdered
  BY <1>5, <1>7, CoopMade
<1> HIDE DEF d
<1>9. Mission("BUILD", list, 0, 0) \in Ordered
  BY <1>5, NoVehicleTypes, MissionOrdered
<1> QED
  BY <1>6, <1>8, <1>9, NodesMade, PublishKeeps

LEMMA LeadsFacts ==
  ASSUME CoopInv, NEW v \in Running, NEW t, t # "BUILD", Leads(v, t)
  PROVE  coop[v] \in CoopOrdered /\ coop[v] \in CoopNode /\ coop[v].built = TRUE
  BY CoopFields DEF CoopInv, CoopOrdered, Leads, Admitted

LEMMA JoinLeaveKeeps ==
  ASSUME CoopInv, NEW v \in Running, NEW n \in Vehicles, JoinSelf(v, n) \/ LeaveSelf(v, n)
  PROVE  CoopInv'
<1> DEFINE c == coop[v]
<1>1. CASE JoinSelf(v, n)
  <2> DEFINE d == [c EXCEPT !.list = Append(c.list, n)]
  <2>1. c \in CoopOrdered /\ c \in CoopNode /\ c.built = TRUE
    BY <1>1, LeadsFacts DEF JoinSelf
  <2>2. AddNum(c.list, n) = Append(c.list, n)
    BY <1>1 DEF JoinSelf, AddNum
  <2>3. Append(c.list, n) \in Members
    <3>1. c.list \in Members
      BY <2>1, CoopFields
    <3>2. AddNum(c.list, n) \in Members
      BY <3>1, AddNumMembers
    <3> QED
      BY <2>2, <3>2
  <2>4. d \in CoopNode /\ d.list = Append(c.list, n) /\ d.built = TRUE
    BY <2>1, <2>3, EmptiesOrdered DEF CoopNode
  <2>5. d \in CoopOrdered
    BY <2>3, <2>4, CoopMade
  <2>6. Mission("JOIN", <<>>, n, 0) \in Ordered
    BY NoVehicleTypes, EmptyIsMembers, MissionOrdered
  <2>7. Become(v, d) /\ Publish(v, Mission("JOIN", <<>>, n, 0))
    BY <1>1 DEF JoinSelf
  <2> QED
    BY <2>5, <2>6, <2>7, PublishKeeps
<1>2. CASE LeaveSelf(v, n)
  <2> DEFINE d == [c EXCEPT !.list = EraseNum(c.list, n)]
  <2>1. c \in CoopOrdered /\ c \in CoopNode /\ c.built = TRUE
    BY <1>2, LeadsFacts DEF LeaveSelf
  <2>2. EraseNum(c.list, n) \in Members
    BY <2>1, CoopFields, EraseNumMembers
  <2>3. d \in CoopNode /\ d.list = EraseNum(c.list, n) /\ d.built = TRUE
    BY <2>1, <2>2, EmptiesOrdered DEF CoopNode
  <2>4. d \in CoopOrdered
    BY <2>2, <2>3, CoopMade
  <2>5. Mission("LEAVE", <<>>, n, 0) \in Ordered
    BY NoVehicleTypes, EmptyIsMembers, MissionOrdered
  <2>6. Become(v, d) /\ Publish(v, Mission("LEAVE", <<>>, n, 0))
    BY <1>2 DEF LeaveSelf
  <2> QED
    BY <2>4, <2>5, <2>6, PublishKeeps
<1> QED
  BY <1>1, <1>2

LEMMA ShapeKeeps ==
  ASSUME CoopInv, NEW v \in Running, NEW t \in {"SHAPE", "MASS"}, ShapeSelf(v, t)
  PROVE  CoopInv'
<1>1. Order(t) \in Ordered
  BY NoVehicleTypes, EmptyIsMembers, MissionOrdered
<1>2. coop[v] \in CoopOrdered /\ Become(v, coop[v])
  BY DEF ShapeSelf, CoopInv, Become
<1> QED
  BY <1>1, <1>2, PublishKeeps DEF ShapeSelf

LEMMA DisolveKeeps ==
  ASSUME CoopInv, NEW v \in Running, DisolveSelf(v)
  PROVE  CoopInv'
<1> DEFINE c == coop[v]
           d == [c EXCEPT !.list = <<>>, !.built = FALSE]
<1>1. c \in CoopNode
  BY LeadsFacts DEF DisolveSelf
<1>2. d \in CoopNode /\ d.list = <<>>
  BY <1>1, EmptyIsMembers, EmptiesOrdered DEF CoopNode
<1>3. d \in CoopOrdered
  BY <1>2, EmptyIsMembers, CoopMade
<1>4. Order("DISSOLVE") \in Ordered
  BY NoVehicleTypes, EmptyIsMembers, MissionOrdered
<1>5. Become(v, d) /\ Publish(v, Order("DISSOLVE"))
  BY DEF DisolveSelf
<1> QED
  BY <1>3, <1>4, <1>5, PublishKeeps

LEMMA DistributeKeeps ==
  ASSUME CoopInv, NEW v \in Running, DistributeSelf(v)
  PROVE  CoopInv'
<1> DEFINE c == coop[v]
           d == [c EXCEPT !.distributeFlag = TRUE, !.moving = FALSE]
<1>1. c \in CoopNode /\ c \in CoopOrdered /\ c.built = TRUE
  BY LeadsFacts DEF DistributeSelf
<1>2. d \in CoopNode /\ d.list = c.list /\ d.built = c.built
  BY <1>1 DEF CoopNode
<1>3. d \in CoopOrdered
  BY <1>1, <1>2, CoopFields, CoopMade
<1>4. Mission("DISTRIBUTE", <<>>, 0, c.points) \in Ordered
  BY <1>1, CoopFields, NoVehicleTypes, EmptyIsMembers, MissionOrdered
<1>5. Become(v, d) /\ Publish(v, Mission("DISTRIBUTE", <<>>, 0, c.points))
  BY DEF DistributeSelf
<1> QED
  BY <1>3, <1>4, <1>5, PublishKeeps

LEMMA RunningKeeps ==
  ASSUME CoopInv, NEW v \in Running, RunningSelf(v)
  PROVE  CoopInv'
<1>1. coop[v] \in CoopOrdered
  BY DEF CoopInv
<1>2. Order("RUNNING") \in Ordered
  BY NoVehicleTypes, EmptyIsMembers, MissionOrdered
<1> QED
  BY <1>1, <1>2, NodesMade, PublishKeeps DEF RunningSelf

LEMMA CommandKeeps ==
  ASSUME CoopInv, NEW v \in Running, Command(v)
  PROVE  CoopInv'
<1>1. ASSUME NEW members \in Lists, BuildSelf(v, members) PROVE CoopInv'
  BY <1>1, BuildKeeps
<1>2. ASSUME NEW n \in Vehicles, JoinSelf(v, n) \/ LeaveSelf(v, n) PROVE CoopInv'
  BY <1>2, JoinLeaveKeeps
<1>3. ASSUME NEW t \in {"SHAPE", "MASS"}, ShapeSelf(v, t) PROVE CoopInv'
  BY <1>3, ShapeKeeps
<1> QED
  BY <1>1, <1>2, <1>3, DisolveKeeps, DistributeKeeps, RunningKeeps DEF Command

-------------------------------------------------------------------------------
(* Missions that arrive, member messages and the timer. *)

LEMMA OnMissionKeeps ==
  ASSUME CoopInv, NEW v \in Running, OnMission(v)
  PROVE  CoopInv'
<1> DEFINE c == coop[v]
           m == Head(inbox[v])
           d == IF Admitted(c.built, m.type) THEN Obey(c, m) ELSE c
<1>1. c \in CoopOrdered /\ inbox[v] \in Seq(Ordered) /\ inbox[v] # <<>>
  BY DEF CoopInv, OnMission
<1>2. m \in Ordered /\ Tail(inbox[v]) \in Seq(Ordered)
  BY <1>1, QueueOrdered
<1>3. Become(v, d)
  BY DEF OnMission
<1> HIDE DEF c, m
<1>4. d \in CoopOrdered
  BY <1>1, <1>2, CoopMission
<1> HIDE DEF d
<1>5. coop' \in [Running -> CoopOrdered]
  BY <1>3, <1>4 DEF CoopInv, Become
<1>6. inbox' \in [Running -> Seq(Ordered)]
  BY <1>2 DEF CoopInv, OnMission
<1> QED
  BY <1>5, <1>6 DEF CoopInv, OnMission

LEMMA MemberKeeps ==
  ASSUME CoopInv, NEW v \in Running, MemberMessage(v) \/ MemberEcho(v)
  PROVE  CoopInv'
<1> DEFINE c == coop[v]
           d == [c EXCEPT !.role = echo[v]]
<1>1. c \in CoopOrdered /\ c \in CoopNode /\ echo[v] \in {NoRole, LEADER, FOLLOWER}
  BY DEF CoopInv, CoopOrdered
<1>2. CASE MemberMessage(v)
  <2>1. c.role \in {NoRole, LEADER, FOLLOWER}
    BY <1>1, CoopFields
  <2>2. echo' \in [Running -> {NoRole, LEADER, FOLLOWER}]
    BY <1>2, <2>1 DEF MemberMessage, CoopInv
  <2> QED
    BY <1>2, <2>2 DEF MemberMessage, CoopInv
<1>3. CASE MemberEcho(v)
  <2>1. echo[v] \in {LEADER, FOLLOWER}
    BY <1>1, <1>3 DEF MemberEcho
  <2>2. d \in CoopNode /\ d.list = c.list /\ d.built = c.built
    BY <1>1, <2>1 DEF CoopNode
  <2>3. d \in CoopOrdered
    BY <1>1, <2>2, CoopFields, CoopMade
  <2>4. Become(v, d) /\ echo' = [echo EXCEPT ![v] = NoRole] /\ UNCHANGED <<sent, inbox>>
    BY <1>3 DEF MemberEcho
  <2> HIDE DEF d
  <2>5. coop' \in [Running -> CoopOrdered]
    BY <2>3, <2>4 DEF CoopInv, Become
  <2> QED
    BY <2>4, <2>5 DEF CoopInv
<1> QED
  BY <1>2, <1>3

(* What the timer leaves behind, and what it went by: a vehicle is started     *)
(* only from a list that is not empty.                                       *)
LEMMA TimerResult ==
  ASSUME CoopInv, NEW v \in Running, Timer(v)
  PROVE  \E d \in CoopOrdered :
           /\ Become(v, d)
           /\ UNCHANGED <<sent, inbox, echo>> \/ Publish(v, Order("RUNNING"))
           /\ d.moving => coop[v].moving \/ coop[v].built
<1> DEFINE c == coop[v]
           index == GetNumIndex(c.list, v)
           massed == AfterMass(c)
           spread == AfterSpread(massed)
<1>1. c \in CoopOrdered
  BY DEF CoopInv
<1>2. massed \in CoopOrdered /\ spread \in CoopOrdered
  BY <1>1, NodesMade
<1>3. Aborted(c) \in CoopOrdered /\ Aborted(massed) \in CoopOrdered /\ Aborted(spread) \in CoopOrdered
  BY <1>1, <1>2, NodesMade
<1>4. c.list # <<>> => c.built
  BY <1>1, CoopFields
<1>5. index # -1 => c.built
  BY <1>4, IndexOf
<1>6. /\ massed.list = c.list /\ massed.built = c.built /\ massed.points = c.points
      /\ massed.distributeFlag = c.distributeFlag
      /\ massed.moving = (c.massFlag \/ c.moving)
  BY <1>1 DEF AfterMass, Started, CoopOrdered, CoopNode
<1>7. spread.moving = (massed.distributeFlag \/ massed.moving)
  BY <1>2 DEF AfterSpread, CoopOrdered, CoopNode
<1>8. /\ Aborted(c).moving = c.moving /\ Aborted(massed).moving = massed.moving
      /\ Aborted(spread).moving = spread.moving
  BY DEF Aborted, Fresh
<1>9. ASSUME "yes" \in Massed(c, index) PROVE massed.moving => c.moving \/ c.built
  <2>1. CASE c.massFlag
    <3>1. index - 1 > 0
      BY <1>9, <2>1 DEF Massed, FollowerReached
    <3>2. index # -1
      BY <3>1
    <3> QED
      BY <1>5, <3>2
  <2>2. CASE ~c.massFlag
    BY <1>6, <2>2
  <2> QED
    BY <2>1, <2>2
<1>10. ASSUME "yes" \in Massed(c, index), "yes" \in Spread(massed, index)
       PROVE  spread.moving => c.moving \/ c.built
  <2>1. CASE massed.distributeFlag
    <3>1. "yes" \in FronterReached(massed, index - 1)
      BY <1>10, <2>1 DEF Spread
    <3>2. CASE index - 1 = -1
      <4>1. index # -1
        BY <3>2
      <4> QED
        BY <1>5, <4>1
    <3>3. CASE index - 1 # -1
      BY <1>6, <3>1, <3>3 DEF FronterReached
    <3> QED
      BY <3>2, <3>3
  <2>2. CASE ~massed.distributeFlag
    BY <1>7, <1>9, <1>10, <2>2
  <2> QED
    BY <2>1, <2>2
<1>11. \E mass \in Massed(c, index) :
          \/ mass = "abort" /\ Become(v, Aborted(c)) /\ UNCHANGED <<sent, inbox, echo>>
          \/ mass = "yes" /\ \E front \in Spread(massed, index) :
               \/ front = "abort" /\ Become(v, Aborted(massed)) /\ UNCHANGED <<sent, inbox, echo>>
               \/ front = "no" /\ Become(v, massed) /\ UNCHANGED <<sent, inbox, echo>>
               \/ front = "yes" /\ \E last \in AllMassed(spread) :
                    \/ last = "abort" /\ Become(v, Aborted(spread)) /\ UNCHANGED <<sent, inbox, echo>>
                    \/ last = "no" /\ Become(v, spread) /\ UNCHANGED <<sent, inbox, echo>>
                    \/ last = "yes" /\ Become(v, spread) /\ Publish(v, Order("RUNNING"))
  BY DEF Timer
<1> HIDE DEF c, index, massed, spread
<1>12. CASE Become(v, Aborted(c)) /\ UNCHANGED <<sent, inbox, echo>>
  BY <1>3, <1>8, <1>12 DEF c
<1>13. CASE /\ "yes" \in Massed(c, index)
            /\ Become(v, Aborted(massed)) \/ Become(v, massed)
            /\ UNCHANGED <<sent, inbox, echo>>
  BY <1>2, <1>3, <1>8, <1>9, <1>13 DEF c
<1>14. CASE /\ "yes" \in Massed(c, index) /\ "yes" \in Spread(massed, index)
            /\ Become(v, Aborted(spread)) \/ Become(v, spread)
            /\ UNCHANGED <<sent, inbox, echo>> \/ Publish(v, Order("RUNNING"))
  BY <1>2, <1>3, <1>8, <1>10, <1>14 DEF c
<1> QED
  BY <1>11, <1>12, <1>13, <1>14

LEMMA TimerKeeps ==
  ASSUME CoopInv, NEW v \in Running, Timer(v)
  PROVE  CoopInv'
<1>1. PICK d \in CoopOrdered :
        Become(v, d) /\ (UNCHANGED <<sent, inbox, echo>> \/ Publish(v, Order("RUNNING")))
  BY TimerResult
<1>2. Order("RUNNING") \in Ordered
  BY NoVehicleTypes, EmptyIsMembers, MissionOrdered
<1> QED
  BY <1>1, <1>2, BecomeKeeps, PublishKeeps

-------------------------------------------------------------------------------
(* The planning nodes. *)

LEMMA PlanKeeps ==
  ASSUME PlanInv, NEW v \in Running, NEW p \in PlanOrdered, Plan(v, p)
  PROVE  plan' \in [Running -> PlanOrdered]
  BY DEF PlanInv, Plan

LEMMA PlannerMissionKeeps ==
  ASSUME PlanInv, NEW v \in Running, PlannerMission(v)
  PROVE  PlanInv'
<1> DEFINE p == plan[v]
           m == Head(planBox[v])
           d == IF Admitted(p.built, m.type) THEN PlanObey(v, p, m) ELSE p
<1>1. p \in PlanOrdered /\ planBox[v] \in Seq(Ordered) /\ planBox[v] # <<>>
  BY DEF PlanInv, PlannerMission
<1>2. m \in Ordered /\ Tail(planBox[v]) \in Seq(Ordered)
  BY <1>1, QueueOrdered
<1>3. Plan(v, d)
  BY DEF PlannerMission
<1> HIDE DEF p, m
<1>4. d \in PlanOrdered
  BY <1>1, <1>2, PlanMission
<1> HIDE DEF d
<1>5. plan' \in [Running -> PlanOrdered]
  BY <1>3, <1>4, PlanKeeps
<1>6. planBox' \in [Running -> Seq(Ordered)]
  BY <1>2 DEF PlanInv, PlannerMission
<1> QED
  BY <1>5, <1>6 DEF PlanInv

LEMMA PlannerMemberKeeps ==
  ASSUME PlanInv, NEW v \in Running, NEW role \in {LEADER, FOLLOWER}, PlannerMember(v, role)
  PROVE  PlanInv'
<1> DEFINE d == [plan[v] EXCEPT !.role = role]
<1>1. plan[v] \in PlanOrdered /\ plan[v] \in PlanNode
  BY DEF PlanInv, PlanOrdered
<1>2. d \in PlanNode /\ d.list = plan[v].list /\ d.built = plan[v].built
  BY <1>1 DEF PlanNode
<1>3. d \in PlanOrdered
  BY <1>1, <1>2, PlanFields, PlanMade
<1>4. Plan(v, d) /\ planBox' = planBox
  BY DEF PlannerMember
<1> QED
  BY <1>3, <1>4, PlanKeeps DEF PlanInv

LEMMA PlannerCycleKeeps ==
  ASSUME PlanInv, NEW v \in Running, PlannerCycle(v)
  PROVE  PlanInv'
  BY PlanAbortedOrdered, PlanKeeps DEF PlannerCycle, PlanInv

-------------------------------------------------------------------------------
(* The transport of missions. *)

LEMMA BroadcastKeeps ==
  ASSUME PlatoonInv, NEW v \in Running, Broadcast(v)
  PROVE  PlatoonInv'
<1>1. sent[v] \in Seq(Ordered) /\ sent[v] # <<>>
  BY DEF PlatoonInv, CoopInv, Broadcast
<1>2. Head(sent[v]) \in Ordered /\ Tail(sent[v]) \in Seq(Ordered)
  BY <1>1, QueueOrdered
<1>3. inbox' \in [Running -> Seq(Ordered)] /\ planBox' \in [Running -> Seq(Ordered)]
  BY <1>2, EnqueueOrdered DEF PlatoonInv, CoopInv, PlanInv, Broadcast, Reach
<1>4. sent' \in [Running -> Seq(Ordered)]
  BY <1>2 DEF PlatoonInv, CoopInv, Broadcast, Sent
<1>5. /\ coop' = coop /\ echo' = echo /\ plan' = plan /\ buffer' = buffer /\ flag' = flag
      /\ copying' = copying /\ openSimulate' = openSimulate /\ commands' = commands
  BY DEF Broadcast, hubVars
<1> QED
  BY <1>3, <1>4, <1>5 DEF PlatoonInv, CoopInv, PlanInv, HubInv, FleetInv

LEMMA HubMissionKeeps ==
  ASSUME PlatoonInv, NEW v \in Running, HubMission(v)
  PROVE  PlatoonInv'
<1>1. sent[v] \in Seq(Ordered) /\ sent[v] # <<>>
  BY DEF PlatoonInv, CoopInv, HubMission
<1>2. Head(sent[v]) \in Ordered /\ Tail(sent[v]) \in Seq(Ordered)
  BY <1>1, QueueOrdered
<1>3. planBox' \in [Running -> Seq(Ordered)]
  BY <1>2, EnqueueOrdered DEF PlatoonInv, PlanInv, HubMission
<1>4. sent' \in [Running -> Seq(Ordered)]
  BY <1>2 DEF PlatoonInv, CoopInv, HubMission, Sent
<1>5. Datagram(Head(sent[v])) \in Ordered
  BY <1>2, OrderedFields
<1>6. buffer' \in [Running -> Ordered]
  BY <1>5 DEF PlatoonInv, HubInv, HubMission, OnMissionSelf
<1>7. flag' \in [Running -> BOOLEAN]
  BY DEF PlatoonInv, HubInv, HubMission, OnMissionSelf
<1>8. /\ coop' = coop /\ echo' = echo /\ inbox' = inbox /\ plan' = plan /\ copying' = copying
      /\ openSimulate' = openSimulate /\ commands' = commands
  BY DEF HubMission, OnMissionSelf
<1> QED
  BY <1>3, <1>4, <1>6, <1>7, <1>8 DEF PlatoonInv, CoopInv, PlanInv, HubInv, FleetInv

LEMMA HubTakeKeeps ==
  ASSUME PlatoonInv, NEW v \in Running, HubTake(v)
  PROVE  PlatoonInv'
<1>1. flag' \in [Running -> BOOLEAN] /\ copying' \in [Running -> BOOLEAN]
  BY DEF PlatoonInv, HubInv, HubTake, UdpTake
<1>2. /\ coop' = coop /\ sent' = sent /\ inbox' = inbox /\ echo' = echo /\ plan' = plan
      /\ planBox' = planBox /\ buffer' = buffer
      /\ openSimulate' = openSimulate /\ commands' = commands
  BY DEF HubTake, UdpTake, coopVars, planVars
<1> QED
  BY <1>1, <1>2 DEF PlatoonInv, CoopInv, PlanInv, HubInv, FleetInv

LEMMA HubSendKeeps ==
  ASSUME PlatoonInv, NEW v \in Running, HubSend(v)
  PROVE  PlatoonInv'
<1>1. PICK heard \in SUBSET (Running \ {v}) : Reach(heard, buffer[v])
  BY DEF HubSend
<1>2. buffer[v] \in Ordered
  BY DEF PlatoonInv, HubInv
<1>3. inbox' \in [Running -> Seq(Ordered)] /\ planBox' \in [Running -> Seq(Ordered)]
  BY <1>1, <1>2, EnqueueOrdered DEF PlatoonInv, CoopInv, PlanInv, Reach
<1>4. copying' \in [Running -> BOOLEAN]
  BY DEF PlatoonInv, HubInv, HubSend, UdpSend
<1>5. buffer' \in [Running -> Ordered]
  BY <1>2, BlankOrdered DEF PlatoonInv, HubInv, HubSend, UdpSend
<1>6. /\ coop' = coop /\ sent' = sent /\ echo' = echo /\ plan' = plan /\ flag' = flag
      /\ openSimulate' = openSimulate /\ commands' = commands
  BY DEF HubSend, UdpSend
<1> QED
  BY <1>3, <1>4, <1>5, <1>6 DEF PlatoonInv, CoopInv, PlanInv, HubInv, FleetInv

-------------------------------------------------------------------------------
(* The invariant. *)

LEMMA InitHolds == Init => PlatoonInv
<1> SUFFICES ASSUME Init PROVE PlatoonInv
  OBVIOUS
<1>1. Fresh \in CoopOrdered /\ PlanFresh \in PlanOrdered /\ Blank \in Ordered /\ <<>> \in Seq(Ordered)
  <2>1. Fresh \in CoopNode /\ Fresh.list = <<>>
    BY EmptyIsMembers DEF Fresh, CoopNode, Members
  <2> QED
    BY <2>1, EmptyIsMembers, CoopMade, PlanAbortedOrdered, BlankOrdered, EmptySeq
<1>2. CoopInv
  BY <1>1 DEF Init, CoopInit, CoopInv
<1>3. PlanInv
  BY <1>1 DEF Init, PlanInit, PlanInv
<1>4. HubInv
  BY <1>1 DEF Init, HubInit, HubInv
<1>5. FleetInv
  BY PlatoonAssumption DEF Init, FleetInv
<1> QED
  BY <1>2, <1>3, <1>4, <1>5 DEF PlatoonInv

LEMMA CooperationKeeps ==
  ASSUME PlatoonInv, NEW v \in Running,
         CooperationMission(v) \/ CooperationTimer(v) \/ CooperationMember(v)
  PROVE  PlatoonInv'
<1>1. CoopInv'
  BY OnMissionKeeps, TimerKeeps, MemberKeeps
  DEF PlatoonInv, CooperationMission, CooperationTimer, CooperationMember
<1>2. /\ plan' = plan /\ planBox' = planBox /\ buffer' = buffer /\ flag' = flag
      /\ copying' = copying /\ openSimulate' = openSimulate /\ commands' = commands
  BY DEF CooperationMission, CooperationTimer, CooperationMember, planVars, hubVars
<1> QED
  BY <1>1, <1>2 DEF PlatoonInv, PlanInv, HubInv, FleetInv

LEMMA PadCommandKeeps ==
  ASSUME PlatoonInv, NEW v \in Pads, PadCommand(v)
  PROVE  PlatoonInv'
<1>1. CoopInv'
  BY PlatoonAssumption, CommandKeeps DEF PlatoonInv, PadCommand
<1>2. commands' \in 0..MaxCommands
  BY PlatoonAssumption DEF PadCommand, PlatoonInv, FleetInv
<1>3. /\ plan' = plan /\ planBox' = planBox /\ buffer' = buffer /\ flag' = flag
      /\ copying' = copying /\ openSimulate' = openSimulate
  BY DEF PadCommand, planVars, hubVars
<1> QED
  BY <1>1, <1>2, <1>3 DEF PlatoonInv, PlanInv, HubInv, FleetInv

LEMMA PlanningKeeps ==
  ASSUME PlatoonInv, NEW v \in Running,
         PlanningMission(v) \/ PlanningMember(v) \/ PlanningCycle(v)
  PROVE  PlatoonInv'
<1>1. coop[v].role \in {LEADER, FOLLOWER}
  BY CoopFields DEF PlatoonInv, CoopInv
<1>2. PlanInv'
  BY <1>1, PlannerMissionKeeps, PlannerMemberKeeps, PlannerCycleKeeps
  DEF PlatoonInv, PlanningMission, PlanningMember, PlanningCycle
<1>3. /\ coop' = coop /\ sent' = sent /\ inbox' = inbox /\ echo' = echo /\ buffer' = buffer
      /\ flag' = flag /\ copying' = copying
      /\ openSimulate' = openSimulate /\ commands' = commands
  BY DEF PlanningMission, PlanningMember, PlanningCycle, coopVars, hubVars
<1> QED
  BY <1>2, <1>3 DEF PlatoonInv, CoopInv, HubInv, FleetInv

LEMMA StepKeeps ==
  ASSUME PlatoonInv, [Next]_vars
  PROVE  PlatoonInv'
<1>1. CASE Next
  <2>1. ASSUME NEW v \in Pads, PadCommand(v) \/ CooperationMember(v) PROVE PlatoonInv'
    BY <2>1, PlatoonAssumption, PadCommandKeeps, CooperationKeeps
  <2>2. ASSUME NEW v \in Running, CooperationMission(v) \/ CooperationTimer(v) PROVE PlatoonInv'
    BY <2>2, CooperationKeeps
  <2>3. ASSUME NEW v \in Running, PlanningMission(v) \/ PlanningMember(v) \/ PlanningCycle(v)
        PROVE  PlatoonInv'
    BY <2>3, PlanningKeeps
  <2>4. ASSUME NEW v \in Running, Broadcast(v) \/ HubMission(v) \/ HubTake(v) \/ HubSend(v)
        PROVE  PlatoonInv'
    BY <2>4, BroadcastKeeps, HubMissionKeeps, HubTakeKeeps, HubSendKeeps
  <2> QED
    BY <1>1, <2>1, <2>2, <2>3, <2>4 DEF Next
<1>2. CASE UNCHANGED vars
  BY <1>2 DEF vars, coopVars, planVars, hubVars, PlatoonInv, CoopInv, PlanInv, HubInv, FleetInv
<1> QED
  BY <1>1, <1>2

LEMMA Invariance == Spec => []PlatoonInv
  BY InitHolds, StepKeeps, PTL DEF Spec

-------------------------------------------------------------------------------
(* Every node, queue and buffer holds what its code can put there, for lists   *)
(* and queues of any length (the variables of cooperation.cpp,                *)
(* planning_node.cpp and info_hub.cpp).                                      *)
THEOREM PlatoonTypes == Spec => []PlatoonTypeOK
<1>1. ASSUME PlatoonInv PROVE PlatoonTypeOK
  <2>1. Seq(Ordered) \subseteq Seq(Missions)
    BY SeqDef, EmptiesOrdered
  <2>2. CoopOrdered \subseteq CoopNode /\ PlanOrdered \subseteq PlanNode /\ Ordered \subseteq Missions
    BY DEF CoopOrdered, PlanOrdered, Ordered
  <2>3. coop \in [Running -> CoopNode] /\ plan \in [Running -> PlanNode]
    BY <1>1, <2>2 DEF PlatoonInv, CoopInv, PlanInv
  <2>4. /\ sent \in [Running -> Seq(Missions)] /\ inbox \in [Running -> Seq(Missions)]
        /\ planBox \in [Running -> Seq(Missions)]
    BY <1>1, <2>1 DEF PlatoonInv, CoopInv, PlanInv
  <2>5. buffer \in [Running -> Missions]
    BY <1>1, <2>2 DEF PlatoonInv, HubInv
  <2> QED
    BY <1>1, <2>3, <2>4, <2>5 DEF PlatoonTypeOK, PlatoonInv, CoopInv, HubInv, FleetInv
<1> QED
  BY <1>1, Invariance, PTL

(* A vehicle outside a platoon remembers no list, neither in its cooperation    *)
(* node nor in its planner, whatever the radio loses and whoever commands.      *)
THEOREM DissolvedForgets == Spec => []DissolvedIsEmpty
<1>1. ASSUME PlatoonInv PROVE DissolvedIsEmpty
  <2>1. ASSUME NEW v \in Running
        PROVE  coop[v] \in CoopOrdered /\ plan[v] \in PlanOrdered
    BY <1>1 DEF PlatoonInv, CoopInv, PlanInv
  <2> QED
    BY <2>1, CoopFields, PlanFields DEF DissolvedIsEmpty
<1> QED
  BY <1>1, Invariance, PTL

(* Nobody is twice in a list, with any number of leaders and queues of any     *)
(* length: platoonGetNumIndex has one answer.                                *)
THEOREM NobodyIsTwice == Spec => []NobodyTwice
<1>1. ASSUME PlatoonInv PROVE NobodyTwice
  <2>1. ASSUME NEW v \in Running
        PROVE  coop[v] \in CoopOrdered /\ plan[v] \in PlanOrdered
    BY <1>1 DEF PlatoonInv, CoopInv, PlanInv
  <2> QED
    BY <2>1 DEF NobodyTwice, CoopOrdered, PlanOrdered
<1> QED
  BY <1>1, Invariance, PTL

(* callbackTimer and the mission handlers start a vehicle only while it is in   *)
(* a platoon, however old the flags are they act upon.                        *)
LEMMA CommandStarts ==
  ASSUME CoopInv, NEW v \in Running, Command(v), NEW w \in Running,
         ~coop[w].moving, coop'[w].moving
  PROVE  coop[w].built
<1>1. coop[v] \in CoopNode
  BY DEF CoopInv, CoopOrdered
<1>2. CASE RunningSelf(v)
  <2>1. coop[v].built = TRUE /\ (w # v => coop'[w] = coop[w])
    BY <1>2, LeadsFacts DEF RunningSelf, Become, CoopInv
  <2> QED
    BY <2>1
<1>3. ASSUME NEW c, Become(v, c), c.moving \in {FALSE, coop[v].moving} PROVE FALSE
  <2>1. coop'[w] = IF w = v THEN c ELSE coop[w]
    BY <1>3 DEF Become, CoopInv
  <2> QED
    BY <1>3, <2>1
<1>4. ASSUME NEW members \in Lists, BuildSelf(v, members) PROVE FALSE
  <2> DEFINE d == [coop[v] EXCEPT !.list = coop[v].list \o members,
                                  !.points = Len(coop[v].list \o members),
                                  !.role = LEADER, !.built = TRUE]
  <2>1. Parked(d).moving = FALSE /\ Become(v, Parked(d))
    BY <1>1, <1>4 DEF Parked, CoopNode, BuildSelf
  <2> QED
    BY <1>3, <2>1
<1>5. ASSUME NEW n \in Vehicles, JoinSelf(v, n) PROVE FALSE
  <2> DEFINE d == [coop[v] EXCEPT !.list = Append(coop[v].list, n)]
  <2>1. d.moving = coop[v].moving /\ Become(v, d)
    BY <1>1, <1>5 DEF JoinSelf, CoopNode
  <2> QED
    BY <1>3, <2>1
<1>6. ASSUME NEW n \in Vehicles, LeaveSelf(v, n) PROVE FALSE
  <2> DEFINE d == [coop[v] EXCEPT !.list = EraseNum(coop[v].list, n)]
  <2>1. d.moving = coop[v].moving /\ Become(v, d)
    BY <1>1, <1>6 DEF LeaveSelf, CoopNode
  <2> QED
    BY <1>3, <2>1
<1>7. ASSUME NEW t, ShapeSelf(v, t) PROVE FALSE
  BY <1>7 DEF ShapeSelf
<1>8. CASE DisolveSelf(v)
  <2> DEFINE d == [coop[v] EXCEPT !.list = <<>>, !.built = FALSE]
  <2>1. d.moving = coop[v].moving /\ Become(v, d)
    BY <1>1, <1>8 DEF DisolveSelf, CoopNode
  <2> QED
    BY <1>3, <2>1
<1>9. CASE DistributeSelf(v)
  <2> DEFINE d == [coop[v] EXCEPT !.distributeFlag = TRUE, !.moving = FALSE]
  <2>1. d.moving = FALSE /\ Become(v, d)
    BY <1>1, <1>9 DEF DistributeSelf, CoopNode
  <2> QED
    BY <1>3, <2>1
<1> QED
  BY <1>2, <1>4, <1>5, <1>6, <1>7, <1>8, <1>9 DEF Command

LEMMA MissionStarts ==
  ASSUME NEW c \in CoopOrdered, NEW m \in Ordered, Admitted(c.built, m.type),
         ~c.moving, Obey(c, m).moving
  PROVE  c.built
<1>1. c \in CoopNode /\ m.type \in MissionTypes
  BY OrderedFields DEF CoopOrdered
<1>2. CASE m.type = "BUILD"
  BY <1>1, <1>2 DEF Obey, Parked, CoopNode
<1>3. CASE m.type # "BUILD"
  BY <1>3, CoopFields DEF Admitted
<1> QED
  BY <1>2, <1>3

THEOREM StartsOnlyInPlatoon == Spec => OnlyPlatoonStarts
<1>1. ASSUME PlatoonInv, [Next]_vars, NEW w \in Running, ~coop[w].moving, coop'[w].moving
      PROVE  coop[w].built
  <2>1. CoopInv /\ coop[w] \in CoopOrdered /\ coop \in [Running -> CoopOrdered]
    BY <1>1 DEF PlatoonInv, CoopInv
  <2>2. coop' # coop
    BY <1>1
  <2>3. ASSUME NEW v \in Pads, PadCommand(v) PROVE coop[w].built
    BY <1>1, <2>1, <2>3, PlatoonAssumption, CommandStarts DEF PadCommand
  <2>4. ASSUME NEW v \in Pads, CooperationMember(v) PROVE FALSE
    <3>1. v \in Running /\ coop[v] \in CoopNode
      BY <2>1, PlatoonAssumption DEF CoopOrdered
    <3>2. CASE MemberMessage(v)
      BY <2>2, <3>2 DEF MemberMessage
    <3>3. CASE MemberEcho(v)
      <4> DEFINE d == [coop[v] EXCEPT !.role = echo[v]]
      <4>1. d.moving = coop[v].moving /\ Become(v, d)
        BY <3>1, <3>3 DEF MemberEcho, CoopNode
      <4>2. coop'[w] = IF w = v THEN d ELSE coop[w]
        BY <2>1, <4>1 DEF Become
      <4> QED
        BY <1>1, <4>1, <4>2
    <3> QED
      BY <2>4, <3>2, <3>3 DEF CooperationMember
  <2>5. ASSUME NEW v \in Running, CooperationMission(v) PROVE coop[w].built
    <3> DEFINE c == coop[v]
               m == Head(inbox[v])
               d == IF Admitted(c.built, m.type) THEN Obey(c, m) ELSE c
    <3>1. Become(v, d) /\ inbox[v] # <<>>
      BY <2>5 DEF CooperationMission, OnMission
    <3>2. coop'[w] = IF w = v THEN d ELSE coop[w]
      BY <2>1, <3>1 DEF Become
    <3>3. w = v /\ Admitted(c.built, m.type) /\ Obey(c, m).moving
      BY <1>1, <3>2
    <3>4. m \in Ordered
      BY <1>1, <3>1, QueueOrdered DEF PlatoonInv, CoopInv
    <3> QED
      BY <1>1, <2>1, <3>3, <3>4, MissionStarts
  <2>6. ASSUME NEW v \in Running, CooperationTimer(v) PROVE coop[w].built
    <3>1. PICK d \in CoopOrdered : Become(v, d) /\ (d.moving => coop[v].moving \/ coop[v].built)
      BY <2>1, <2>6, TimerResult DEF CooperationTimer
    <3>2. coop'[w] = IF w = v THEN d ELSE coop[w]
      BY <2>1, <3>1 DEF Become
    <3> QED
      BY <1>1, <3>1, <3>2
  <2>7. ASSUME NEW v \in Running,
               \/ PlanningMission(v) \/ PlanningMember(v) \/ PlanningCycle(v)
               \/ Broadcast(v) \/ HubMission(v) \/ HubTake(v) \/ HubSend(v)
        PROVE  FALSE
    BY <2>2, <2>7
    DEF PlanningMission, PlanningMember, PlanningCycle, Broadcast, HubMission, HubTake, HubSend,
        coopVars
  <2>8. ~UNCHANGED vars
    BY <2>2 DEF vars, coopVars
  <2> QED
    BY <1>1, <2>3, <2>4, <2>5, <2>6, <2>7, <2>8 DEF Next
<1>2. ASSUME PlatoonInv, [Next]_vars
      PROVE  [\A v \in Running : ~coop[v].moving /\ coop'[v].moving => coop[v].built]_vars
  BY <1>1, <1>2
<1> QED
  BY <1>2, Invariance, PTL DEF Spec, OnlyPlatoonStarts

-------------------------------------------------------------------------------
(* What a node knows of its platoon, and what a mission makes of it.  The       *)
(* cooperation node and the planner change it by different code, but alike.    *)
Knowledge == [built : BOOLEAN, list : Members]
Known(c) == [built |-> c.built, list |-> c.list]

Effect(k, m) ==
  IF ~Admitted(k.built, m.type) THEN k
  ELSE CASE m.type = "BUILD" -> [built |-> TRUE, list |-> m.list]
         [] m.type = "JOIN" -> [built |-> k.built, list |-> AddNum(k.list, m.num)]
         [] m.type = "LEAVE" -> [built |-> k.built, list |-> EraseNum(k.list, m.num)]
         [] m.type = "DISSOLVE" -> [built |-> FALSE, list |-> <<>>]
         [] OTHER -> k

(* A node that knows k knows l once it has obeyed the missions of a queue. *)
Brings(k, queue, l) ==
  \E f \in [0..Len(queue) -> Knowledge] :
    /\ f[0] = k /\ f[Len(queue)] = l
    /\ \A i \in 1..Len(queue) : f[i] = Effect(f[i - 1], queue[i])

LEMMA KnownFields ==
  /\ \A c \in CoopOrdered : Known(c) \in Knowledge
  /\ \A p \in PlanOrdered : Known(p) \in Knowledge
  BY CoopFields, PlanFields DEF Known, Knowledge

LEMMA EffectKnowledge ==
  ASSUME NEW k \in Knowledge, NEW m \in Ordered
  PROVE  Effect(k, m) \in Knowledge
<1>1. /\ k.built \in BOOLEAN /\ k.list \in Members /\ m.list \in Members
      /\ m.type = "JOIN" => m.num \in Vehicles
  BY OrderedFields DEF Knowledge
<1>2. CASE ~Admitted(k.built, m.type)
  BY <1>2 DEF Effect
<1>3. CASE Admitted(k.built, m.type) /\ m.type = "BUILD"
  <2>1. Effect(k, m) = [built |-> TRUE, list |-> m.list]
    BY <1>3 DEF Effect
  <2> QED
    BY <1>1, <2>1 DEF Knowledge
<1>4. CASE Admitted(k.built, m.type) /\ m.type = "JOIN"
  <2>1. Effect(k, m) = [built |-> k.built, list |-> AddNum(k.list, m.num)]
    BY <1>4 DEF Effect
  <2>2. AddNum(k.list, m.num) \in Members
    BY <1>1, <1>4, AddNumMembers
  <2> QED
    BY <1>1, <2>1, <2>2 DEF Knowledge
<1>5. CASE Admitted(k.built, m.type) /\ m.type = "LEAVE"
  <2>1. Effect(k, m) = [built |-> k.built, list |-> EraseNum(k.list, m.num)]
    BY <1>5 DEF Effect
  <2>2. EraseNum(k.list, m.num) \in Members
    BY <1>1, EraseNumMembers
  <2> QED
    BY <1>1, <2>1, <2>2 DEF Knowledge
<1>6. CASE Admitted(k.built, m.type) /\ m.type = "DISSOLVE"
  <2>1. Effect(k, m) = [built |-> FALSE, list |-> <<>>]
    BY <1>6 DEF Effect
  <2> QED
    BY <2>1, EmptyIsMembers DEF Knowledge
<1>7. CASE m.type \notin {"BUILD", "JOIN", "LEAVE", "DISSOLVE"}
  BY <1>7 DEF Effect
<1> QED
  BY <1>2, <1>3, <1>4, <1>5, <1>6, <1>7

LEMMA BringsNothing ==
  ASSUME NEW k \in Knowledge
  PROVE  /\ Brings(k, <<>>, k)
         /\ \A l : Brings(k, <<>>, l) => l = k
<1>1. Len(<<>>) = 0
  OBVIOUS
<1>2. Brings(k, <<>>, k)
  <2> DEFINE f == [i \in 0..0 |-> k]
  <2>1. f \in [0..Len(<<>>) -> Knowledge] /\ f[0] = k /\ f[Len(<<>>)] = k
    BY <1>1
  <2>2. \A i \in 1..Len(<<>>) : f[i] = Effect(f[i - 1], (<<>>)[i])
    BY <1>1
  <2> HIDE DEF f
  <2> QED
    BY <2>1, <2>2 DEF Brings
<1>3. \A l : Brings(k, <<>>, l) => l = k
  BY <1>1 DEF Brings
<1> QED
  BY <1>2, <1>3

LEMMA BringsMore ==
  ASSUME NEW k, NEW l \in Knowledge, NEW q \in Seq(Ordered), NEW m \in Ordered,
         Brings(k, q, l)
  PROVE  Brings(k, Append(q, m), Effect(l, m))
<1>1. PICK f \in [0..Len(q) -> Knowledge] :
        /\ f[0] = k /\ f[Len(q)] = l
        /\ \A i \in 1..Len(q) : f[i] = Effect(f[i - 1], q[i])
  BY DEF Brings
<1> DEFINE n == Len(q)
           r == Append(q, m)
           g == [i \in 0..(n + 1) |-> IF i = n + 1 THEN Effect(l, m) ELSE f[i]]
<1>2. n \in Nat
  BY LenProperties
<1>3. Len(r) = n + 1 /\ r[n + 1] = m /\ \A i \in 1..n : r[i] = q[i]
  BY AppendProperties
<1>4. Effect(l, m) \in Knowledge
  BY EffectKnowledge
<1> HIDE DEF n, r
<1>5. \A i \in 0..n : f[i] \in Knowledge
  BY <1>1 DEF n
<1>6. \A i \in 0..(n + 1) : g[i] = IF i = n + 1 THEN Effect(l, m) ELSE f[i]
  OBVIOUS
<1>7. g \in [0..(n + 1) -> Knowledge]
  BY <1>2, <1>4, <1>5
<1> HIDE DEF g
<1>8. g[0] = k /\ g[n + 1] = Effect(l, m) /\ g[n] = l
  BY <1>1, <1>2, <1>6 DEF n
<1>9. ASSUME NEW i \in 1..(n + 1) PROVE g[i] = Effect(g[i - 1], r[i])
  <2>1. CASE i = n + 1
    BY <1>2, <1>3, <1>8, <2>1
  <2>2. CASE i # n + 1
    <3>1. i \in 1..n /\ i \in 0..(n + 1) /\ i - 1 \in 0..(n + 1) /\ i - 1 # n + 1
      BY <1>2, <2>2
    <3>2. g[i] = f[i] /\ g[i - 1] = f[i - 1]
      BY <1>6, <2>2, <3>1
    <3>3. f[i] = Effect(f[i - 1], q[i]) /\ r[i] = q[i]
      BY <1>1, <1>3, <3>1 DEF n
    <3> QED
      BY <3>2, <3>3
  <2> QED
    BY <2>1, <2>2
<1>10. Brings(k, r, Effect(l, m))
  BY <1>3, <1>7, <1>8, <1>9 DEF Brings
<1> QED
  BY <1>10 DEF r

LEMMA BringsRest ==
  ASSUME NEW k \in Knowledge, NEW l, NEW q \in Seq(Ordered), q # <<>>, Brings(k, q, l)
  PROVE  Brings(Effect(k, Head(q)), Tail(q), l)
<1>1. PICK f \in [0..Len(q) -> Knowledge] :
        /\ f[0] = k /\ f[Len(q)] = l
        /\ \A i \in 1..Len(q) : f[i] = Effect(f[i - 1], q[i])
  BY DEF Brings
<1> DEFINE n == Len(q) - 1
           r == Tail(q)
           g == [i \in 0..n |-> f[i + 1]]
<1>2. n \in Nat /\ Len(q) = n + 1
  BY LenProperties, EmptySeq
<1>3. Len(r) = n /\ Head(q) = q[1] /\ \A i \in 1..n : r[i] = q[i + 1]
  BY HeadTailProperties
<1> HIDE DEF n, r
<1>4. g \in [0..n -> Knowledge] /\ \A i \in 0..n : g[i] = f[i + 1]
  BY <1>1, <1>2
<1> HIDE DEF g
<1>5. g[0] = Effect(k, Head(q)) /\ g[n] = l
  <2>1. f[1] = Effect(f[0], q[1])
    BY <1>1, <1>2
  <2> QED
    BY <1>1, <1>2, <1>3, <1>4, <2>1
<1>6. ASSUME NEW i \in 1..n PROVE g[i] = Effect(g[i - 1], r[i])
  <2>1. i \in 0..n /\ i - 1 \in 0..n /\ i + 1 \in 1..Len(q) /\ (i - 1) + 1 = i /\ (i + 1) - 1 = i
    BY <1>2
  <2>2. g[i] = f[i + 1] /\ g[i - 1] = f[i]
    BY <1>4, <2>1
  <2>3. f[i + 1] = Effect(f[i], q[i + 1]) /\ r[i] = q[i + 1]
    BY <1>1, <1>3, <2>1
  <2> QED
    BY <2>2, <2>3
<1>7. Brings(Effect(k, Head(q)), r, l)
  BY <1>3, <1>4, <1>5, <1>6 DEF Brings
<1> QED
  BY <1>7 DEF r

-------------------------------------------------------------------------------
(* Every node makes of a mission what Effect says, or stops. *)

LEMMA CoopKnows ==
  ASSUME NEW c \in CoopOrdered, NEW m \in Ordered
  PROVE  LET d == IF Admitted(c.built, m.type) THEN Obey(c, m) ELSE c
         IN Known(d) = Effect(Known(c), m) /\ d.up = c.up /\ (c.role = FOLLOWER => d.role = FOLLOWER)
<1> DEFINE d == IF Admitted(c.built, m.type) THEN Obey(c, m) ELSE c
<1>1. c \in CoopNode /\ m.type \in MissionTypes /\ Known(c).built = c.built /\ Known(c).list = c.list
  BY OrderedFields DEF CoopOrdered, Known
<1>2. CASE ~Admitted(c.built, m.type)
  BY <1>1, <1>2 DEF Effect
<1>3. CASE Admitted(c.built, m.type) /\ m.type = "BUILD"
  <2>1. d = Parked([c EXCEPT !.list = m.list, !.role = FOLLOWER, !.built = TRUE])
    BY <1>3 DEF Obey
  <2>2. d.list = m.list /\ d.built = TRUE /\ d.up = c.up /\ d.role = FOLLOWER
    BY <1>1, <2>1 DEF Parked, CoopNode
  <2> QED
    BY <1>1, <1>3, <2>2 DEF Effect, Known
<1>4. CASE Admitted(c.built, m.type) /\ m.type = "JOIN"
  <2>1. d = [c EXCEPT !.list = AddNum(c.list, m.num)]
    BY <1>1, <1>4 DEF Obey, Join, CoopNode
  <2>2. d.list = AddNum(c.list, m.num) /\ d.built = c.built /\ d.up = c.up /\ d.role = c.role
    BY <1>1, <2>1 DEF CoopNode
  <2> QED
    BY <1>1, <1>4, <2>2 DEF Effect, Known
<1>5. CASE Admitted(c.built, m.type) /\ m.type = "LEAVE"
  <2>1. d = [c EXCEPT !.list = EraseNum(c.list, m.num)]
    BY <1>1, <1>5 DEF Obey, Leave, CoopNode
  <2>2. d.list = EraseNum(c.list, m.num) /\ d.built = c.built /\ d.up = c.up /\ d.role = c.role
    BY <1>1, <2>1 DEF CoopNode
  <2> QED
    BY <1>1, <1>5, <2>2 DEF Effect, Known
<1>6. CASE Admitted(c.built, m.type) /\ m.type = "DISSOLVE"
  <2>1. d.list = <<>> /\ d.built = FALSE /\ d.up = c.up /\ d.role = c.role
    BY <1>1, <1>6 DEF Obey, Disolve, CoopNode
  <2> QED
    BY <1>1, <1>6, <2>1 DEF Effect, Known
<1>7. CASE Admitted(c.built, m.type) /\ m.type \in {"SHAPE", "MASS", "DISTRIBUTE", "RUNNING"}
  <2>1. Effect(Known(c), m) = Known(c)
    BY <1>1, <1>7 DEF Effect
  <2>2. d.list = c.list /\ d.built = c.built /\ d.up = c.up /\ d.role = c.role
    <3>1. CASE m.type = "SHAPE"
      BY <3>1 DEF Obey
    <3>2. CASE m.type = "MASS"
      BY <1>1, <1>7, <3>2 DEF Obey, CoopNode
    <3>3. CASE m.type = "DISTRIBUTE"
      BY <1>1, <1>7, <3>3 DEF Obey, CoopNode
    <3>4. CASE m.type = "RUNNING"
      BY <1>1, <1>7, <3>4 DEF Obey, Started, CoopNode
    <3> QED
      BY <1>7, <3>1, <3>2, <3>3, <3>4
  <2> QED
    BY <2>1, <2>2 DEF Known
<1> QED
  BY <1>1, <1>2, <1>3, <1>4, <1>5, <1>6, <1>7 DEF MissionTypes

LEMMA PlanKnows ==
  ASSUME NEW v, NEW p \in PlanOrdered, NEW m \in Ordered
  PROVE  LET d == IF Admitted(p.built, m.type) THEN PlanObey(v, p, m) ELSE p
         IN d.up => Known(d) = Effect(Known(p), m) /\ p.up
<1> DEFINE d == IF Admitted(p.built, m.type) THEN PlanObey(v, p, m) ELSE p
<1>1. p \in PlanNode /\ m.type \in MissionTypes /\ Known(p).built = p.built /\ Known(p).list = p.list
  BY OrderedFields DEF PlanOrdered, Known
<1>2. CASE ~Admitted(p.built, m.type)
  BY <1>1, <1>2 DEF Effect
<1>3. CASE Admitted(p.built, m.type) /\ m.type = "BUILD"
  <2>1. d.list = m.list /\ d.built = TRUE /\ d.up = p.up
    BY <1>1, <1>3 DEF PlanObey, PlanNode
  <2> QED
    BY <1>1, <1>3, <2>1 DEF Effect, Known
<1>4. CASE Admitted(p.built, m.type) /\ m.type = "JOIN"
  <2>1. d = [p EXCEPT !.list = AddNum(p.list, m.num),
                      !.leaveSelf = p.leaveSelf /\ (m.num # v \/ CheckNum(p.list, v))]
    BY <1>1, <1>4 DEF PlanObey, PlanNode
  <2>2. d.list = AddNum(p.list, m.num) /\ d.built = p.built /\ d.up = p.up
    BY <1>1, <2>1 DEF PlanNode
  <2> QED
    BY <1>1, <1>4, <2>2 DEF Effect, Known
<1>5. CASE Admitted(p.built, m.type) /\ m.type = "LEAVE"
  <2>1. d = PlanLeave(v, p, m.num)
    BY <1>5 DEF PlanObey
  <2>2. CASE GetNumIndex(p.list, m.num) > 0
    <3>1. d = [p EXCEPT !.list = EraseNum(p.list, m.num), !.leaveSelf = p.leaveSelf \/ m.num = v]
      BY <1>1, <2>1, <2>2 DEF PlanLeave, PlanNode
    <3>2. d.list = EraseNum(p.list, m.num) /\ d.built = p.built /\ d.up = p.up
      BY <1>1, <3>1 DEF PlanNode
    <3> QED
      BY <1>1, <1>5, <3>2 DEF Effect, Known
  <2>3. CASE ~(GetNumIndex(p.list, m.num) > 0)
    <3>1. d = PlanAborted
      BY <2>1, <2>3 DEF PlanLeave
    <3> QED
      BY <3>1 DEF PlanAborted, PlanFresh
  <2> QED
    BY <2>2, <2>3
<1>6. CASE Admitted(p.built, m.type) /\ m.type = "DISSOLVE"
  <2>1. d.list = <<>> /\ d.built = FALSE /\ d.up = p.up
    BY <1>1, <1>6 DEF PlanObey, PlanDisolve, PlanNode
  <2> QED
    BY <1>1, <1>6, <2>1 DEF Effect, Known
<1>7. CASE Admitted(p.built, m.type) /\ m.type \in {"SHAPE", "MASS", "DISTRIBUTE", "RUNNING"}
  <2>1. Effect(Known(p), m) = Known(p)
    BY <1>1, <1>7 DEF Effect
  <2>2. d = p
    BY <1>7 DEF PlanObey
  <2> QED
    BY <2>1, <2>2
<1> QED
  BY <1>1, <1>2, <1>3, <1>4, <1>5, <1>6, <1>7 DEF MissionTypes

(* A vehicle that was taken out is not there to be taken out again. *)
LEMMA ErasedIsGone ==
  ASSUME NEW l \in Members, NEW n
  PROVE  ~CheckNum(EraseNum(l, n), n)
<1>1. CASE ~CheckNum(l, n)
  BY <1>1 DEF EraseNum
<1>2. CASE CheckNum(l, n)
  <2> DEFINE k == CHOOSE i \in DOMAIN l : l[i] = n /\ \A j \in DOMAIN l : l[j] = n => i <= j
             r == [i \in 1..(Len(l) - 1) |-> IF i < k THEN l[i] ELSE l[i + 1]]
  <2>1. l \in Seq(Vehicles) /\ Len(l) \in Nat /\ DOMAIN l = 1..Len(l)
    BY LenProperties DEF Members
  <2>2. \A i, j \in 1..Len(l) : l[i] = l[j] => i = j
    BY <2>1 DEF Members, Distinct
  <2>3. PICK i \in 1..Len(l) : l[i] = n
    BY <1>2, <2>1 DEF CheckNum
  <2>4. i \in DOMAIN l /\ l[i] = n /\ \A j \in DOMAIN l : l[j] = n => i <= j
    BY <2>1, <2>2, <2>3
  <2>5. k \in 1..Len(l) /\ l[k] = n
    BY <2>1, <2>4
  <2>6. EraseNum(l, n) = r
    BY <1>2 DEF EraseNum
  <2> HIDE DEF k
  <2>7. ASSUME NEW j \in 1..(Len(l) - 1) PROVE r[j] # n
    <3>1. r[j] = IF j < k THEN l[j] ELSE l[j + 1]
      OBVIOUS
    <3>2. j \in 1..Len(l) /\ j + 1 \in 1..Len(l)
      BY <2>1
    <3>3. (j < k => l[j] # l[k]) /\ (~(j < k) => l[j + 1] # l[k])
      BY <2>2, <2>5, <3>2
    <3> QED
      BY <2>5, <3>1, <3>3
  <2>8. DOMAIN r = 1..(Len(l) - 1)
    OBVIOUS
  <2> QED
    BY <2>6, <2>7, <2>8 DEF CheckNum
<1> QED
  BY <1>1, <1>2

(* Whoever obeys a mission a second time finds nothing left to do.  It is why   *)
(* the leader, which hears its own missions in a simulation, keeps its list.   *)
LEMMA EffectOnce ==
  ASSUME NEW k \in Knowledge, NEW m \in Ordered
  PROVE  Effect(Effect(k, m), m) = Effect(k, m)
<1>1. /\ k.built \in BOOLEAN /\ k.list \in Members /\ m.list \in Members
      /\ m.type = "JOIN" => m.num \in Vehicles
  BY OrderedFields DEF Knowledge
<1>2. CASE ~Admitted(k.built, m.type)
  BY <1>2 DEF Effect
<1>3. CASE Admitted(k.built, m.type) /\ m.type = "BUILD"
  <2>1. Effect(k, m).built = TRUE
    BY <1>3 DEF Effect
  <2> QED
    BY <1>3, <2>1 DEF Effect, Admitted
<1>4. CASE Admitted(k.built, m.type) /\ m.type = "JOIN"
  <2> DEFINE l == AddNum(k.list, m.num)
  <2>1. Effect(k, m) = [built |-> k.built, list |-> l]
    BY <1>4 DEF Effect
  <2>2. CheckNum(l, m.num)
    <3>1. CASE CheckNum(k.list, m.num)
      BY <3>1 DEF AddNum
    <3>2. CASE ~CheckNum(k.list, m.num)
      <4>1. k.list \in Seq(Vehicles) /\ l = Append(k.list, m.num)
        BY <1>1, <3>2 DEF Members, AddNum
      <4>2. Len(l) = Len(k.list) + 1 /\ l[Len(k.list) + 1] = m.num /\ l \in Seq(Vehicles)
        BY <1>1, <1>4, <4>1, AppendProperties
      <4>3. Len(k.list) + 1 \in DOMAIN l
        BY <4>1, <4>2, LenProperties
      <4> QED
        BY <4>2, <4>3 DEF CheckNum
    <3> QED
      BY <3>1, <3>2
  <2> HIDE DEF l
  <2>3. AddNum(l, m.num) = l
    BY <2>2 DEF AddNum
  <2> QED
    BY <1>4, <2>1, <2>3 DEF Effect
<1>5. CASE Admitted(k.built, m.type) /\ m.type = "LEAVE"
  <2> DEFINE l == EraseNum(k.list, m.num)
  <2>1. Effect(k, m) = [built |-> k.built, list |-> l]
    BY <1>5 DEF Effect
  <2>2. ~CheckNum(l, m.num)
    BY <1>1, ErasedIsGone
  <2> HIDE DEF l
  <2>3. EraseNum(l, m.num) = l
    BY <2>2 DEF EraseNum
  <2> QED
    BY <1>5, <2>1, <2>3 DEF Effect
<1>6. CASE Admitted(k.built, m.type) /\ m.type = "DISSOLVE"
  <2>1. Effect(k, m).built = FALSE
    BY <1>6 DEF Effect
  <2> QED
    BY <1>6, <2>1 DEF Effect, Admitted
<1>7. CASE m.type \notin {"BUILD", "JOIN", "LEAVE", "DISSOLVE"}
  BY <1>7 DEF Effect
<1> QED
  BY <1>2, <1>3, <1>4, <1>5, <1>6, <1>7

-------------------------------------------------------------------------------
(* What commands and the timer make of what a node knows. *)

LEMMA CommandKnows ==
  ASSUME CoopInv, NEW v \in Running, Command(v)
  PROVE  \E c \in CoopOrdered, m \in Ordered :
           /\ Become(v, c) /\ Publish(v, m) /\ coop[v].up /\ c.up
           /\ Known(c) = Effect(Known(coop[v]), m)
<1> DEFINE c == coop[v]
           P(d, m) == /\ Become(v, d) /\ Publish(v, m) /\ coop[v].up /\ d.up
                      /\ Known(d) = Effect(Known(coop[v]), m)
<1>1. c \in CoopOrdered /\ c \in CoopNode /\ Known(c).built = c.built /\ Known(c).list = c.list
  BY DEF CoopInv, CoopOrdered, Known
<1>2. ASSUME NEW members \in Lists, BuildSelf(v, members)
      PROVE  \E d \in CoopOrdered, m \in Ordered : P(d, m)
  <2> DEFINE list == c.list \o members
             e == [c EXCEPT !.list = list, !.points = Len(list), !.role = LEADER, !.built = TRUE]
             m == Mission("BUILD", list, 0, 0)
  <2>1. c.list = <<>> /\ c.up /\ Admitted(c.built, "BUILD")
    BY <1>1, <1>2, CoopFields DEF BuildSelf, Admitted
  <2>2. members \in Members
    BY CooperationAssumption DEF Members, Distinct
  <2>3. list = members
    BY <2>1, <2>2, ConcatEmptySeq DEF Members
  <2>4. list \in Members /\ list \in Seq(Vehicles) /\ Len(list) \in Nat
    BY <2>2, <2>3, LenProperties DEF Members
  <2>5. Become(v, Parked(e)) /\ Publish(v, m)
    BY <1>2 DEF BuildSelf
  <2> HIDE DEF list
  <2>6. e \in CoopNode /\ e.list = list /\ e.built = TRUE
    BY <1>1, <2>4 DEF CoopNode
  <2>7. e \in CoopOrdered /\ Parked(e) \in CoopOrdered
    BY <2>4, <2>6, CoopMade, NodesMade
  <2>8. Parked(e).list = list /\ Parked(e).built = TRUE /\ Parked(e).up = c.up
    BY <1>1 DEF Parked, CoopNode
  <2>9. m \in Ordered /\ m.type = "BUILD" /\ m.list = list
    BY <2>4, NoVehicleTypes, MissionOrdered DEF Mission
  <2>10. Effect(Known(c), m) = [built |-> TRUE, list |-> list]
    BY <1>1, <2>1, <2>9 DEF Effect
  <2>11. Known(Parked(e)) = Effect(Known(c), m)
    BY <2>8, <2>10 DEF Known
  <2>12. P(Parked(e), m)
    BY <2>1, <2>5, <2>8, <2>11
  <2> QED
    BY <2>7, <2>9, <2>12
<1>3. ASSUME NEW n \in Vehicles, JoinSelf(v, n)
      PROVE  \E d \in CoopOrdered, m \in Ordered : P(d, m)
  <2> DEFINE e == [c EXCEPT !.list = AddNum(c.list, n)]
             m == Mission("JOIN", <<>>, n, 0)
  <2>1. c.up /\ Admitted(c.built, "JOIN") /\ c.built = TRUE
    BY <1>1, <1>3, CoopFields DEF JoinSelf, Leads, Admitted
  <2>2. AddNum(c.list, n) = Append(c.list, n)
    BY <1>3 DEF JoinSelf, AddNum
  <2>3. Become(v, e) /\ Publish(v, m)
    BY <1>3, <2>2 DEF JoinSelf
  <2>4. AddNum(c.list, n) \in Members /\ AddNum(c.list, n) \in Seq(Vehicles)
    BY <1>1, CoopFields, AddNumMembers, EmptiesOrdered
  <2>5. e \in CoopNode /\ e.list = AddNum(c.list, n) /\ e.built = TRUE /\ e.up = c.up
    BY <1>1, <2>1, <2>4 DEF CoopNode
  <2>6. e \in CoopOrdered
    BY <2>4, <2>5, CoopMade
  <2>7. m \in Ordered /\ m.type = "JOIN" /\ m.num = n
    BY NoVehicleTypes, EmptyIsMembers, MissionOrdered DEF Mission
  <2>8. Effect(Known(c), m) = [built |-> c.built, list |-> AddNum(c.list, n)]
    BY <1>1, <2>1, <2>7 DEF Effect
  <2>9. Known(e) = Effect(Known(c), m)
    BY <2>1, <2>5, <2>8 DEF Known
  <2> HIDE DEF e, m
  <2>10. P(e, m)
    BY <2>1, <2>3, <2>5, <2>9
  <2> QED
    BY <2>6, <2>7, <2>10
<1>4. ASSUME NEW n \in Vehicles, LeaveSelf(v, n)
      PROVE  \E d \in CoopOrdered, m \in Ordered : P(d, m)
  <2> DEFINE e == [c EXCEPT !.list = EraseNum(c.list, n)]
             m == Mission("LEAVE", <<>>, n, 0)
  <2>1. c.up /\ Admitted(c.built, "LEAVE") /\ c.built = TRUE
    BY <1>1, <1>4, CoopFields DEF LeaveSelf, Leads, Admitted
  <2>2. Become(v, e) /\ Publish(v, m)
    BY <1>4 DEF LeaveSelf
  <2>3. EraseNum(c.list, n) \in Members /\ EraseNum(c.list, n) \in Seq(Vehicles)
    BY <1>1, CoopFields, EraseNumMembers, EmptiesOrdered
  <2>4. e \in CoopNode /\ e.list = EraseNum(c.list, n) /\ e.built = TRUE /\ e.up = c.up
    BY <1>1, <2>1, <2>3 DEF CoopNode
  <2>5. e \in CoopOrdered
    BY <2>3, <2>4, CoopMade
  <2>6. m \in Ordered /\ m.type = "LEAVE" /\ m.num = n
    BY NoVehicleTypes, EmptyIsMembers, MissionOrdered DEF Mission
  <2>7. Effect(Known(c), m) = [built |-> c.built, list |-> EraseNum(c.list, n)]
    BY <1>1, <2>1, <2>6 DEF Effect
  <2>8. Known(e) = Effect(Known(c), m)
    BY <2>1, <2>4, <2>7 DEF Known
  <2> HIDE DEF e, m
  <2>9. P(e, m)
    BY <2>1, <2>2, <2>4, <2>8
  <2> QED
    BY <2>5, <2>6, <2>9
<1>5. CASE DisolveSelf(v)
  <2> DEFINE e == [c EXCEPT !.list = <<>>, !.built = FALSE]
             m == Order("DISSOLVE")
  <2>1. c.up /\ Admitted(c.built, "DISSOLVE")
    BY <1>5 DEF DisolveSelf, Leads
  <2>2. Become(v, e) /\ Publish(v, m)
    BY <1>5 DEF DisolveSelf
  <2>3. e \in CoopNode /\ e.list = <<>> /\ e.built = FALSE /\ e.up = c.up
    BY <1>1, EmptyIsMembers, EmptiesOrdered DEF CoopNode
  <2>4. e \in CoopOrdered
    BY <2>3, EmptyIsMembers, CoopMade
  <2>5. m \in Ordered /\ m.type = "DISSOLVE"
    BY NoVehicleTypes, EmptyIsMembers, MissionOrdered DEF Mission, Order
  <2>6. Effect(Known(c), m) = [built |-> FALSE, list |-> <<>>]
    BY <1>1, <2>1, <2>5 DEF Effect
  <2>7. Known(e) = Effect(Known(c), m)
    BY <2>3, <2>6 DEF Known
  <2> HIDE DEF e, m
  <2>8. P(e, m)
    BY <2>1, <2>2, <2>3, <2>7
  <2> QED
    BY <2>4, <2>5, <2>8
<1>6. ASSUME NEW d \in CoopOrdered, NEW m \in Ordered, Become(v, d), Publish(v, m), c.up,
             d.up = c.up, d.list = c.list, d.built = c.built,
             m.type \in {"SHAPE", "MASS", "DISTRIBUTE", "RUNNING"}
      PROVE  \E e \in CoopOrdered, o \in Ordered : P(e, o)
  <2>1. Effect(Known(c), m) = Known(c)
    BY <1>6 DEF Effect
  <2>2. Known(d) = Known(c)
    BY <1>6 DEF Known
  <2>3. P(d, m)
    BY <1>6, <2>1, <2>2
  <2> QED
    BY <2>3
<1>7. ASSUME NEW t \in {"SHAPE", "MASS"}, ShapeSelf(v, t)
      PROVE  \E d \in CoopOrdered, m \in Ordered : P(d, m)
  <2>1. Order(t) \in Ordered /\ Order(t).type = t
    BY NoVehicleTypes, EmptyIsMembers, MissionOrdered DEF Order, Mission
  <2>2. Become(v, c) /\ Publish(v, Order(t)) /\ c.up
    BY <1>7 DEF ShapeSelf, Leads, CoopInv, Become
  <2> QED
    BY <1>1, <1>6, <2>1, <2>2
<1>8. CASE DistributeSelf(v)
  <2> DEFINE e == [c EXCEPT !.distributeFlag = TRUE, !.moving = FALSE]
             m == Mission("DISTRIBUTE", <<>>, 0, c.points)
  <2>1. e \in CoopNode /\ e.list = c.list /\ e.built = c.built /\ e.up = c.up
    BY <1>1 DEF CoopNode
  <2>2. e \in CoopOrdered
    BY <1>1, <2>1, CoopFields, CoopMade
  <2>3. m \in Ordered /\ m.type = "DISTRIBUTE"
    BY <1>1, CoopFields, NoVehicleTypes, EmptyIsMembers, MissionOrdered DEF Mission
  <2>4. Become(v, e) /\ Publish(v, m) /\ c.up
    BY <1>8 DEF DistributeSelf, Leads
  <2> HIDE DEF e, m
  <2> QED
    BY <1>6, <2>1, <2>2, <2>3, <2>4
<1>9. CASE RunningSelf(v)
  <2>1. Order("RUNNING") \in Ordered /\ Order("RUNNING").type = "RUNNING"
    BY NoVehicleTypes, EmptyIsMembers, MissionOrdered DEF Order, Mission
  <2>2. /\ Started(c) \in CoopOrdered /\ Started(c).up = c.up
        /\ Started(c).list = c.list /\ Started(c).built = c.built
    BY <1>1, NodesMade DEF Started, CoopNode
  <2>3. Become(v, Started(c)) /\ Publish(v, Order("RUNNING")) /\ c.up
    BY <1>9 DEF RunningSelf, Leads
  <2> QED
    BY <1>6, <2>1, <2>2, <2>3
<1>10. \E d \in CoopOrdered, m \in Ordered : P(d, m)
  BY <1>2, <1>3, <1>4, <1>5, <1>7, <1>8, <1>9 DEF Command
<1> QED
  BY <1>10

LEMMA TimerKnows ==
  ASSUME CoopInv, NEW v \in Running, Timer(v)
  PROVE  \E d \in CoopOrdered :
           /\ Become(v, d) /\ coop[v].up
           /\ d.up => Known(d) = Known(coop[v])
           /\ coop[v].role = FOLLOWER => d.role = FOLLOWER
           /\ \/ UNCHANGED <<sent, inbox, echo>>
              \/ coop[v].role = LEADER /\ Publish(v, Order("RUNNING"))
<1> DEFINE c == coop[v]
           index == GetNumIndex(c.list, v)
           massed == AfterMass(c)
           spread == AfterSpread(massed)
           D == {Aborted(c), massed, Aborted(massed), spread, Aborted(spread)}
<1>1. c \in CoopOrdered /\ c \in CoopNode
  BY DEF CoopInv, CoopOrdered
<1>2. massed \in CoopOrdered /\ massed \in CoopNode
  BY <1>1, NodesMade DEF CoopOrdered
<1>3. spread \in CoopOrdered
  BY <1>2, NodesMade
<1>4. massed.list = c.list /\ massed.built = c.built /\ massed.role = c.role
  BY <1>1 DEF AfterMass, Started, CoopNode
<1>5. spread.list = massed.list /\ spread.built = massed.built /\ spread.role = massed.role
  BY <1>2 DEF AfterSpread, CoopNode
<1>6. ASSUME NEW d PROVE Aborted(d).up = FALSE /\ Aborted(d).role = FOLLOWER
  BY DEF Aborted, Fresh
<1>7. \A d \in D : d \in CoopOrdered
  BY <1>1, <1>2, <1>3, NodesMade
<1>8. \A d \in D : (d.up => Known(d) = Known(c)) /\ (c.role = FOLLOWER => d.role = FOLLOWER)
  BY <1>4, <1>5, <1>6 DEF Known
<1>9. c.up /\ \E mass \in Massed(c, index) :
          \/ mass = "abort" /\ Become(v, Aborted(c)) /\ UNCHANGED <<sent, inbox, echo>>
          \/ mass = "yes" /\ \E front \in Spread(massed, index) :
               \/ front = "abort" /\ Become(v, Aborted(massed)) /\ UNCHANGED <<sent, inbox, echo>>
               \/ front = "no" /\ Become(v, massed) /\ UNCHANGED <<sent, inbox, echo>>
               \/ front = "yes" /\ \E last \in AllMassed(spread) :
                    \/ last = "abort" /\ Become(v, Aborted(spread)) /\ UNCHANGED <<sent, inbox, echo>>
                    \/ last = "no" /\ Become(v, spread) /\ UNCHANGED <<sent, inbox, echo>>
                    \/ last = "yes" /\ Become(v, spread) /\ Publish(v, Order("RUNNING"))
  BY DEF Timer
<1>10. "yes" \in AllMassed(spread) => c.role = LEADER
  BY <1>4, <1>5 DEF AllMassed
<1> HIDE DEF c, index, massed, spread
<1>11. \E d \in D : /\ Become(v, d)
                    /\ \/ UNCHANGED <<sent, inbox, echo>>
                       \/ c.role = LEADER /\ Publish(v, Order("RUNNING"))
  BY <1>9, <1>10
<1> HIDE DEF D
<1> QED
  BY <1>7, <1>8, <1>9, <1>11 DEF c

LEMMA RunningChangesNothing ==
  /\ Order("RUNNING") \in Ordered
  /\ \A k : Effect(k, Order("RUNNING")) = k
<1>1. Order("RUNNING") \in Ordered /\ Order("RUNNING").type = "RUNNING"
  BY NoVehicleTypes, EmptyIsMembers, MissionOrdered DEF Order, Mission
<1> QED
  BY <1>1 DEF Effect

-------------------------------------------------------------------------------
(* With one leader there is one sequence of missions, and every node is         *)
(* somewhere along it: a node that knows less has the rest before it.           *)

CoopBehind(v, k) == coop[v].up => Brings(Known(coop[v]), inbox[v], k)
PlanBehind(v, k) == plan[v].up => Brings(Known(plan[v]), planBox[v], k)
Ahead(p, k) == coop[p].up => Brings(k, sent[p], Known(coop[p]))

Done(k, queue) == \A i \in DOMAIN queue : Effect(k, queue[i]) = k
OwnDone(p) ==
  coop[p].up => Done(Known(coop[p]), inbox[p]) /\ Done(Known(coop[p]), sent[p])

(* A simulation: everybody hears every mission, the leader last.  k is what has *)
(* been broadcast; what the leader hears it has done before.                    *)
TopicInv(p) ==
  openSimulate =>
    /\ OwnDone(p)
    /\ \E k \in Knowledge :
         /\ Ahead(p, k)
         /\ \A v \in Running \ {p} : CoopBehind(v, k)
         /\ \A v \in Running : PlanBehind(v, k)

(* Real vehicles: both nodes of a follower hear the same missions, those the    *)
(* radio has not lost, and the leader's planner hears all of them.              *)
RadioInv(p) ==
  ~openSimulate =>
    /\ inbox[p] = <<>>
    /\ \E k \in Knowledge : Ahead(p, k) /\ PlanBehind(p, k)
    /\ \A v \in Running \ {p} : \E k \in Knowledge : CoopBehind(v, k) /\ PlanBehind(v, k)

(* Nobody but the vehicle with the pad leads or sends. *)
OthersFollow(p) ==
  /\ \A v \in Running \ {p} : coop[v].role = FOLLOWER /\ sent[v] = <<>>
  /\ \A v \in Running : v # p \/ openSimulate => ~flag[v] /\ ~copying[v]

OneSequence(p) == OthersFollow(p) /\ TopicInv(p) /\ RadioInv(p)

LEMMA CoopBehindStays ==
  ASSUME NEW v, NEW k, CoopBehind(v, k), inbox'[v] = inbox[v],
         coop'[v].up => coop[v].up /\ Known(coop'[v]) = Known(coop[v])
  PROVE  CoopBehind(v, k)'
  BY DEF CoopBehind

LEMMA PlanBehindStays ==
  ASSUME NEW v, NEW k, PlanBehind(v, k), planBox'[v] = planBox[v],
         plan'[v].up => plan[v].up /\ Known(plan'[v]) = Known(plan[v])
  PROVE  PlanBehind(v, k)'
  BY DEF PlanBehind

LEMMA AheadStays ==
  ASSUME NEW p, NEW k, Ahead(p, k), sent'[p] = sent[p],
         coop'[p].up => coop[p].up /\ Known(coop'[p]) = Known(coop[p])
  PROVE  Ahead(p, k)'
  BY DEF Ahead

LEMMA DoneMore ==
  ASSUME NEW k \in Knowledge, NEW q \in Seq(Ordered), NEW m \in Ordered,
         Done(k, q), Effect(k, m) = k
  PROVE  Done(k, Append(q, m))
<1>1. /\ Len(Append(q, m)) = Len(q) + 1 /\ Append(q, m)[Len(q) + 1] = m
      /\ \A i \in 1..Len(q) : Append(q, m)[i] = q[i] /\ Append(q, m) \in Seq(Ordered)
      /\ Append(q, m) \in Seq(Ordered)
  BY AppendProperties
<1>2. DOMAIN q = 1..Len(q) /\ DOMAIN Append(q, m) = 1..(Len(q) + 1) /\ Len(q) \in Nat
  BY <1>1, LenProperties
<1>3. ASSUME NEW i \in 1..(Len(q) + 1) PROVE Effect(k, Append(q, m)[i]) = k
  <2>1. CASE i = Len(q) + 1
    BY <1>1, <2>1
  <2>2. CASE i # Len(q) + 1
    <3>1. i \in 1..Len(q)
      BY <1>2, <2>2
    <3> QED
      BY <1>1, <1>2, <3>1 DEF Done
  <2> QED
    BY <2>1, <2>2
<1> QED
  BY <1>2, <1>3 DEF Done

LEMMA DoneRest ==
  ASSUME NEW k \in Knowledge, NEW q \in Seq(Ordered), q # <<>>, Done(k, q)
  PROVE  Effect(k, Head(q)) = k /\ Done(k, Tail(q))
<1>1. /\ Len(q) \in Nat \ {0} /\ Head(q) = q[1] /\ DOMAIN q = 1..Len(q)
      /\ Len(Tail(q)) = Len(q) - 1 /\ DOMAIN Tail(q) = 1..(Len(q) - 1)
      /\ \A i \in 1..(Len(q) - 1) : Tail(q)[i] = q[i + 1]
  <2>1. Len(q) \in Nat \ {0} /\ DOMAIN q = 1..Len(q)
    BY LenProperties, EmptySeq
  <2>2. Tail(q) \in Seq(Ordered) /\ Len(Tail(q)) = Len(q) - 1 /\ Head(q) = q[1]
        /\ \A i \in 1..(Len(q) - 1) : Tail(q)[i] = q[i + 1]
    BY HeadTailProperties
  <2> QED
    BY <2>1, <2>2, LenProperties
<1>2. 1 \in DOMAIN q
  BY <1>1
<1>3. ASSUME NEW i \in 1..(Len(q) - 1) PROVE Effect(k, Tail(q)[i]) = k
  <2>1. i + 1 \in DOMAIN q
    BY <1>1
  <2> QED
    BY <1>1, <2>1 DEF Done
<1> QED
  BY <1>1, <1>2, <1>3 DEF Done

LEMMA NothingDone == \A k : Done(k, <<>>)
  BY DEF Done

(* What a node knows moves along the sequence when it obeys the next mission,   *)
(* and nothing else about a queue changes when a mission joins it.              *)
LEMMA CoopBehindHears ==
  ASSUME CoopInv, NEW v \in Running, NEW k \in Knowledge, NEW m \in Ordered, CoopBehind(v, k),
         coop' = coop, inbox'[v] = Append(inbox[v], m) \/ ~coop[v].up
  PROVE  CoopBehind(v, Effect(k, m))'
<1> SUFFICES ASSUME coop[v].up
             PROVE  Brings(Known(coop[v]), Append(inbox[v], m), Effect(k, m))
  BY DEF CoopBehind
<1>1. inbox[v] \in Seq(Ordered) /\ Brings(Known(coop[v]), inbox[v], k)
  BY DEF CoopInv, CoopBehind
<1> QED
  BY <1>1, BringsMore

LEMMA PlanBehindHears ==
  ASSUME PlanInv, NEW v \in Running, NEW k \in Knowledge, NEW m \in Ordered, PlanBehind(v, k),
         plan' = plan, planBox'[v] = Append(planBox[v], m) \/ ~plan[v].up
  PROVE  PlanBehind(v, Effect(k, m))'
<1> SUFFICES ASSUME plan[v].up
             PROVE  Brings(Known(plan[v]), Append(planBox[v], m), Effect(k, m))
  BY DEF PlanBehind
<1>1. planBox[v] \in Seq(Ordered) /\ Brings(Known(plan[v]), planBox[v], k)
  BY DEF PlanInv, PlanBehind
<1> QED
  BY <1>1, BringsMore

LEMMA AheadSends ==
  ASSUME CoopInv, NEW p \in Running, NEW k \in Knowledge, NEW m, Ahead(p, k),
         coop' = coop, sent[p] # <<>>, m = Head(sent[p]), sent'[p] = Tail(sent[p])
  PROVE  Ahead(p, Effect(k, m))'
<1> SUFFICES ASSUME coop[p].up
             PROVE  Brings(Effect(k, m), Tail(sent[p]), Known(coop[p]))
  BY DEF Ahead
<1>1. sent[p] \in Seq(Ordered) /\ Brings(k, sent[p], Known(coop[p]))
  BY DEF CoopInv, Ahead
<1> QED
  BY <1>1, BringsRest

LEMMA AheadCommands ==
  ASSUME CoopInv, NEW p \in Running, NEW k, NEW m \in Ordered, Ahead(p, k),
         sent'[p] = Append(sent[p], m),
         coop'[p].up => coop[p].up /\ Known(coop'[p]) = Effect(Known(coop[p]), m)
  PROVE  Ahead(p, k)'
<1> SUFFICES ASSUME coop'[p].up
             PROVE  Brings(k, Append(sent[p], m), Known(coop'[p]))
  BY DEF Ahead
<1>1. sent[p] \in Seq(Ordered) /\ Brings(k, sent[p], Known(coop[p])) /\ Known(coop[p]) \in Knowledge
  BY KnownFields DEF CoopInv, Ahead
<1> QED
  BY <1>1, BringsMore

(* A node obeys the mission at the head of its queue. *)
LEMMA CoopBehindObeys ==
  ASSUME CoopInv, NEW v \in Running, NEW k, CoopBehind(v, k), OnMission(v)
  PROVE  CoopBehind(v, k)'
<1> DEFINE c == coop[v]
           m == Head(inbox[v])
           d == IF Admitted(c.built, m.type) THEN Obey(c, m) ELSE c
<1>1. c \in CoopOrdered /\ inbox[v] \in Seq(Ordered) /\ inbox[v] # <<>> /\ c.up
  BY DEF CoopInv, OnMission
<1>2. m \in Ordered
  BY <1>1, QueueOrdered
<1>3. Known(c) \in Knowledge
  BY <1>1, KnownFields
<1>4. Brings(Effect(Known(c), m), Tail(inbox[v]), k)
  BY <1>1, <1>3, BringsRest DEF CoopBehind
<1>5. Known(d) = Effect(Known(c), m)
  BY <1>1, <1>2, CoopKnows
<1>6. coop'[v] = d /\ inbox'[v] = Tail(inbox[v])
  BY DEF OnMission, Become, CoopInv
<1> HIDE DEF c, d, m
<1> QED
  BY <1>4, <1>5, <1>6 DEF CoopBehind

LEMMA PlanBehindObeys ==
  ASSUME PlanInv, NEW v \in Running, NEW k, PlanBehind(v, k), PlannerMission(v)
  PROVE  PlanBehind(v, k)'
<1> DEFINE p == plan[v]
           m == Head(planBox[v])
           d == IF Admitted(p.built, m.type) THEN PlanObey(v, p, m) ELSE p
<1>1. p \in PlanOrdered /\ planBox[v] \in Seq(Ordered) /\ planBox[v] # <<>> /\ p.up
  BY DEF PlanInv, PlannerMission
<1>2. m \in Ordered
  BY <1>1, QueueOrdered
<1>3. Known(p) \in Knowledge
  BY <1>1, KnownFields
<1>4. Brings(Effect(Known(p), m), Tail(planBox[v]), k)
  BY <1>1, <1>3, BringsRest DEF PlanBehind
<1>5. d.up => Known(d) = Effect(Known(p), m)
  BY <1>1, <1>2, PlanKnows
<1>6. plan'[v] = d /\ planBox'[v] = Tail(planBox[v])
  BY DEF PlannerMission, Plan, PlanInv
<1> HIDE DEF p, d, m
<1> QED
  BY <1>4, <1>5, <1>6 DEF PlanBehind

-------------------------------------------------------------------------------
(* The steps, with one pad and a leader that waits for its echoes. *)

Patient ==
  \A v \in Pads : PadCommand(v) => ~openSimulate \/ (sent[v] = <<>> /\ inbox[v] = <<>>)

LEMMA PadCommandOneSequence ==
  ASSUME PlatoonInv, NEW p \in Running, Pads = {p}, OneSequence(p), PadCommand(p), Patient
  PROVE  OneSequence(p)'
<1>1. PICK c \in CoopOrdered, m \in Ordered :
        /\ Become(p, c) /\ Publish(p, m) /\ coop[p].up /\ c.up
        /\ Known(c) = Effect(Known(coop[p]), m)
  BY CommandKnows DEF PadCommand, PlatoonInv
<1>2. /\ coop \in [Running -> CoopOrdered] /\ sent \in [Running -> Seq(Ordered)] /\ CoopInv
      /\ coop[p] \in CoopOrdered
  BY DEF PlatoonInv, CoopInv
<1>3. /\ coop'[p] = c /\ sent'[p] = Append(sent[p], m) /\ inbox' = inbox
      /\ \A v \in Running \ {p} : coop'[v] = coop[v] /\ sent'[v] = sent[v]
  BY <1>1, <1>2 DEF Become, Publish
<1>4. /\ plan' = plan /\ planBox' = planBox /\ flag' = flag /\ copying' = copying
      /\ openSimulate' = openSimulate
  BY DEF PadCommand, planVars, hubVars
<1>5. ASSUME NEW k, Ahead(p, k) PROVE Ahead(p, k)'
  BY <1>1, <1>2, <1>3, <1>5, AheadCommands
<1>6. ASSUME NEW k, NEW v \in Running \ {p}, CoopBehind(v, k) PROVE CoopBehind(v, k)'
  BY <1>3, <1>6, CoopBehindStays
<1>7. ASSUME NEW k, NEW v \in Running, PlanBehind(v, k) PROVE PlanBehind(v, k)'
  BY <1>4, <1>7, PlanBehindStays
<1>8. OthersFollow(p)'
  BY <1>3, <1>4 DEF OthersFollow, OneSequence
<1>9. ASSUME openSimulate PROVE OwnDone(p)'
  <2>1. sent[p] = <<>> /\ inbox[p] = <<>>
    BY <1>9 DEF Patient
  <2>2. Effect(Known(c), m) = Known(c) /\ Known(c) \in Knowledge
    <3>1. Known(coop[p]) \in Knowledge /\ Known(c) \in Knowledge
      BY <1>2, KnownFields
    <3> QED
      BY <1>1, <3>1, EffectOnce
  <2>3. <<>> \in Seq(Ordered)
    OBVIOUS
  <2>4. Done(Known(c), Append(<<>>, m)) /\ Done(Known(c), <<>>)
    BY <2>2, <2>3, NothingDone, DoneMore
  <2> QED
    BY <1>3, <2>1, <2>4 DEF OwnDone
<1>10. TopicInv(p)'
  BY <1>4, <1>5, <1>6, <1>7, <1>9 DEF TopicInv, OneSequence
<1>11. RadioInv(p)'
  BY <1>3, <1>4, <1>5, <1>6, <1>7 DEF RadioInv, OneSequence
<1> QED
  BY <1>8, <1>10, <1>11 DEF OneSequence

LEMMA CooperationMissionOneSequence ==
  ASSUME PlatoonInv, NEW p \in Running, OneSequence(p), NEW v \in Running, CooperationMission(v)
  PROVE  OneSequence(p)'
<1> DEFINE c == coop[v]
           m == Head(inbox[v])
           d == IF Admitted(c.built, m.type) THEN Obey(c, m) ELSE c
<1>1. /\ CoopInv /\ coop \in [Running -> CoopOrdered] /\ inbox \in [Running -> Seq(Ordered)]
      /\ OnMission(v)
  BY DEF PlatoonInv, CoopInv, CooperationMission
<1>2. c \in CoopOrdered /\ inbox[v] \in Seq(Ordered) /\ inbox[v] # <<>> /\ c.up
  BY <1>1 DEF OnMission
<1>3. /\ coop'[v] = d /\ inbox'[v] = Tail(inbox[v]) /\ sent' = sent
      /\ \A w \in Running \ {v} : coop'[w] = coop[w] /\ inbox'[w] = inbox[w]
  BY <1>1 DEF OnMission, Become
<1>4. /\ plan' = plan /\ planBox' = planBox /\ flag' = flag /\ copying' = copying
      /\ openSimulate' = openSimulate
  BY DEF CooperationMission, planVars, hubVars
<1>5. m \in Ordered
  BY <1>2, QueueOrdered
<1>6. Known(d) = Effect(Known(c), m) /\ d.up = c.up /\ (c.role = FOLLOWER => d.role = FOLLOWER)
  BY <1>2, <1>5, CoopKnows
<1> HIDE DEF d
<1>7. ASSUME NEW k, NEW w \in Running, CoopBehind(w, k) PROVE CoopBehind(w, k)'
  <2>1. CASE w = v
    BY <1>1, <1>7, <2>1, CoopBehindObeys
  <2>2. CASE w # v
    BY <1>3, <1>7, <2>2, CoopBehindStays
  <2> QED
    BY <2>1, <2>2
<1>8. ASSUME NEW k, NEW w \in Running, PlanBehind(w, k) PROVE PlanBehind(w, k)'
  BY <1>4, <1>8, PlanBehindStays
<1>9. OthersFollow(p)'
  BY <1>3, <1>4, <1>6 DEF OthersFollow, OneSequence
<1>10. CASE openSimulate
  <2>1. OwnDone(p)
    BY <1>10 DEF OneSequence, TopicInv
  <2>2. coop'[p].up => coop[p].up /\ Known(coop'[p]) = Known(coop[p])
    <3>1. CASE p = v
      <4>1. Known(c) \in Knowledge
        BY <1>2, KnownFields
      <4>2. Effect(Known(c), m) = Known(c)
        BY <1>2, <2>1, <3>1, <4>1, DoneRest DEF OwnDone
      <4> QED
        BY <1>2, <1>3, <1>6, <3>1, <4>2
    <3>2. CASE p # v
      BY <1>3, <3>2
    <3> QED
      BY <3>1, <3>2
  <2>3. coop'[p].up => Done(Known(coop[p]), inbox'[p])
    <3>1. CASE p = v
      <4>1. Known(c) \in Knowledge
        BY <1>2, KnownFields
      <4> QED
        BY <1>2, <1>3, <2>1, <3>1, <4>1, DoneRest DEF OwnDone
    <3>2. CASE p # v
      BY <1>3, <2>1, <2>2, <3>2 DEF OwnDone
    <3> QED
      BY <3>1, <3>2
  <2>4. OwnDone(p)'
    BY <1>3, <2>1, <2>2, <2>3 DEF OwnDone
  <2>5. ASSUME NEW k, Ahead(p, k) PROVE Ahead(p, k)'
    BY <1>3, <2>2, <2>5, AheadStays
  <2>6. TopicInv(p)'
    BY <1>4, <1>7, <1>8, <1>10, <2>4, <2>5 DEF OneSequence, TopicInv
  <2>7. RadioInv(p)'
    BY <1>4, <1>10 DEF RadioInv
  <2> QED
    BY <1>9, <2>6, <2>7 DEF OneSequence
<1>11. CASE ~openSimulate
  <2>1. inbox[p] = <<>> /\ p # v
    BY <1>2, <1>11 DEF OneSequence, RadioInv
  <2>2. coop'[p] = coop[p] /\ inbox'[p] = <<>>
    BY <1>3, <2>1
  <2>3. ASSUME NEW k, Ahead(p, k) PROVE Ahead(p, k)'
    BY <1>3, <2>2, <2>3, AheadStays
  <2>4. RadioInv(p)'
    BY <1>4, <1>7, <1>8, <1>11, <2>2, <2>3 DEF OneSequence, RadioInv
  <2>5. TopicInv(p)'
    BY <1>4, <1>11 DEF TopicInv
  <2> QED
    BY <1>9, <2>4, <2>5 DEF OneSequence
<1> QED
  BY <1>10, <1>11

LEMMA CooperationTimerOneSequence ==
  ASSUME PlatoonInv, NEW p \in Running, OneSequence(p), NEW v \in Running, CooperationTimer(v)
  PROVE  OneSequence(p)'
<1>1. /\ CoopInv /\ coop \in [Running -> CoopOrdered] /\ Timer(v)
      /\ sent \in [Running -> Seq(Ordered)] /\ inbox \in [Running -> Seq(Ordered)]
  BY DEF PlatoonInv, CoopInv, CooperationTimer
<1>2. PICK d \in CoopOrdered :
           /\ Become(v, d) /\ coop[v].up
           /\ d.up => Known(d) = Known(coop[v])
           /\ coop[v].role = FOLLOWER => d.role = FOLLOWER
           /\ \/ UNCHANGED <<sent, inbox, echo>>
              \/ coop[v].role = LEADER /\ Publish(v, Order("RUNNING"))
  BY <1>1, TimerKnows
<1>3. coop'[v] = d /\ \A w \in Running \ {v} : coop'[w] = coop[w]
  BY <1>1, <1>2 DEF Become
<1>4. inbox' = inbox
  BY <1>2 DEF Publish
<1>5. /\ plan' = plan /\ planBox' = planBox /\ flag' = flag /\ copying' = copying
      /\ openSimulate' = openSimulate
  BY DEF CooperationTimer, planVars, hubVars
<1>6. ASSUME NEW w \in Running
      PROVE  coop'[w].up => coop[w].up /\ Known(coop'[w]) = Known(coop[w])
  BY <1>2, <1>3
<1>7. \A w \in Running \ {p} : sent'[w] = <<>> /\ coop'[w].role = FOLLOWER
  <2>1. ASSUME NEW w \in Running \ {p} PROVE sent[w] = <<>> /\ coop[w].role = FOLLOWER
    BY DEF OneSequence, OthersFollow
  <2>2. LEADER # FOLLOWER
    BY DEF LEADER, FOLLOWER
  <2>3. ASSUME NEW w \in Running \ {p} PROVE sent'[w] = sent[w]
    BY <1>1, <1>2, <2>1, <2>2, <2>3 DEF Publish
  <2> QED
    BY <1>2, <1>3, <2>1, <2>3
<1>8. OthersFollow(p)'
  BY <1>5, <1>7 DEF OneSequence, OthersFollow
<1>9. sent'[p] = sent[p] \/ sent'[p] = Append(sent[p], Order("RUNNING"))
  BY <1>1, <1>2 DEF Publish
<1>10. ASSUME NEW k, Ahead(p, k) PROVE Ahead(p, k)'
  <2>1. CASE sent'[p] = sent[p]
    BY <1>6, <1>10, <2>1, AheadStays
  <2>2. CASE sent'[p] = Append(sent[p], Order("RUNNING"))
    BY <1>1, <1>6, <1>10, <2>2, RunningChangesNothing, AheadCommands
  <2> QED
    BY <1>9, <2>1, <2>2
<1>11. ASSUME OwnDone(p) PROVE OwnDone(p)'
  <2> SUFFICES ASSUME coop'[p].up
               PROVE  Done(Known(coop[p]), inbox[p]) /\ Done(Known(coop[p]), sent'[p])
    BY <1>4, <1>6 DEF OwnDone
  <2>1. Done(Known(coop[p]), inbox[p]) /\ Done(Known(coop[p]), sent[p])
    BY <1>6, <1>11 DEF OwnDone
  <2>2. Known(coop[p]) \in Knowledge
    BY <1>1, KnownFields
  <2>3. Done(Known(coop[p]), Append(sent[p], Order("RUNNING")))
    BY <1>1, <2>1, <2>2, RunningChangesNothing, DoneMore
  <2> QED
    BY <1>9, <2>1, <2>3
<1>12. ASSUME NEW k, NEW w \in Running, CoopBehind(w, k) PROVE CoopBehind(w, k)'
  BY <1>4, <1>6, <1>12, CoopBehindStays
<1>13. ASSUME NEW k, NEW w \in Running, PlanBehind(w, k) PROVE PlanBehind(w, k)'
  BY <1>5, <1>13, PlanBehindStays
<1>14. TopicInv(p)'
  BY <1>5, <1>10, <1>11, <1>12, <1>13 DEF OneSequence, TopicInv
<1>15. RadioInv(p)'
  BY <1>4, <1>5, <1>10, <1>12, <1>13 DEF OneSequence, RadioInv
<1> QED
  BY <1>8, <1>14, <1>15 DEF OneSequence

LEMMA CooperationMemberOneSequence ==
  ASSUME PlatoonInv, NEW p \in Running, OneSequence(p), CooperationMember(p)
  PROVE  OneSequence(p)'
<1>1. /\ plan' = plan /\ planBox' = planBox /\ flag' = flag /\ copying' = copying
      /\ openSimulate' = openSimulate
  BY DEF CooperationMember, planVars, hubVars
<1>2. sent' = sent /\ inbox' = inbox
  BY DEF CooperationMember, MemberMessage, MemberEcho
<1>3. coop \in [Running -> CoopOrdered]
  BY DEF PlatoonInv, CoopInv
<1>4. \A w \in Running : /\ coop'[w].up => coop[w].up /\ Known(coop'[w]) = Known(coop[w])
                         /\ w # p => coop'[w] = coop[w]
  <2>1. CASE MemberMessage(p)
    BY <2>1 DEF MemberMessage
  <2>2. CASE MemberEcho(p)
    <3> DEFINE d == [coop[p] EXCEPT !.role = echo[p]]
    <3>1. coop[p] \in CoopNode
      BY <1>3 DEF CoopOrdered
    <3>2. d.up = coop[p].up /\ d.built = coop[p].built /\ d.list = coop[p].list
      BY <3>1 DEF CoopNode
    <3>3. Become(p, d)
      BY <2>2 DEF MemberEcho
    <3> HIDE DEF d
    <3>4. coop'[p] = d /\ \A w \in Running : w # p => coop'[w] = coop[w]
      BY <1>3, <3>3 DEF Become
    <3>5. Known(d) = Known(coop[p])
      BY <3>2 DEF Known
    <3> QED
      BY <3>2, <3>4, <3>5
  <2> QED
    BY <2>1, <2>2 DEF CooperationMember
<1>5. OthersFollow(p)'
  BY <1>1, <1>2, <1>4 DEF OneSequence, OthersFollow
<1>6. ASSUME NEW k, Ahead(p, k) PROVE Ahead(p, k)'
  BY <1>2, <1>4, <1>6, AheadStays
<1>7. ASSUME OwnDone(p) PROVE OwnDone(p)'
  BY <1>2, <1>4, <1>7 DEF OwnDone
<1>8. ASSUME NEW k, NEW w \in Running, CoopBehind(w, k) PROVE CoopBehind(w, k)'
  BY <1>2, <1>4, <1>8, CoopBehindStays
<1>9. ASSUME NEW k, NEW w \in Running, PlanBehind(w, k) PROVE PlanBehind(w, k)'
  BY <1>1, <1>9, PlanBehindStays
<1>10. TopicInv(p)'
  BY <1>1, <1>6, <1>7, <1>8, <1>9 DEF OneSequence, TopicInv
<1>11. RadioInv(p)'
  BY <1>1, <1>2, <1>6, <1>8, <1>9 DEF OneSequence, RadioInv
<1> QED
  BY <1>5, <1>10, <1>11 DEF OneSequence

LEMMA PlanningOneSequence ==
  ASSUME PlatoonInv, NEW p \in Running, OneSequence(p), NEW v \in Running,
         PlanningMission(v) \/ PlanningMember(v) \/ PlanningCycle(v)
  PROVE  OneSequence(p)'
<1>1. /\ coop' = coop /\ sent' = sent /\ inbox' = inbox /\ flag' = flag /\ copying' = copying
      /\ openSimulate' = openSimulate
  BY DEF PlanningMission, PlanningMember, PlanningCycle, coopVars, hubVars
<1>2. PlanInv /\ plan \in [Running -> PlanOrdered]
  BY DEF PlatoonInv, PlanInv
<1>3. ASSUME NEW k, NEW w \in Running, PlanBehind(w, k) PROVE PlanBehind(w, k)'
  <2>1. CASE PlanningMission(v)
    <3>1. CASE w = v
      BY <1>2, <1>3, <2>1, <3>1, PlanBehindObeys DEF PlanningMission
    <3>2. CASE w # v
      <4>1. plan'[w] = plan[w] /\ planBox'[w] = planBox[w]
        BY <1>2, <2>1, <3>2 DEF PlanningMission, PlannerMission, Plan, PlanInv
      <4> QED
        BY <1>3, <4>1, PlanBehindStays
    <3> QED
      BY <3>1, <3>2
  <2>2. CASE PlanningMember(v)
    <3> DEFINE d == [plan[v] EXCEPT !.role = coop[v].role]
    <3>1. plan[v] \in PlanNode
      BY <1>2 DEF PlanOrdered
    <3>2. d.up = plan[v].up /\ d.built = plan[v].built /\ d.list = plan[v].list
      BY <3>1 DEF PlanNode
    <3>3. Plan(v, d) /\ planBox' = planBox
      BY <2>2 DEF PlanningMember, PlannerMember
    <3> HIDE DEF d
    <3>4. plan'[w] = IF w = v THEN d ELSE plan[w]
      BY <1>2, <3>3 DEF Plan
    <3>5. Known(d) = Known(plan[v])
      BY <3>2 DEF Known
    <3> QED
      BY <1>3, <3>2, <3>3, <3>4, <3>5, PlanBehindStays
  <2>3. CASE PlanningCycle(v)
    <3>1. Plan(v, PlanAborted) /\ planBox' = planBox
      BY <2>3 DEF PlanningCycle, PlannerCycle
    <3>2. plan'[w] = IF w = v THEN PlanAborted ELSE plan[w]
      BY <1>2, <3>1 DEF Plan
    <3>3. PlanAborted.up = FALSE
      BY DEF PlanAborted, PlanFresh
    <3> QED
      BY <1>3, <3>1, <3>2, <3>3, PlanBehindStays
  <2> QED
    BY <2>1, <2>2, <2>3
<1>4. ASSUME NEW k, NEW w \in Running, CoopBehind(w, k) PROVE CoopBehind(w, k)'
  BY <1>1, <1>4, CoopBehindStays
<1>5. ASSUME NEW k, Ahead(p, k) PROVE Ahead(p, k)'
  BY <1>1, <1>5, AheadStays
<1>6. OthersFollow(p)'
  BY <1>1 DEF OneSequence, OthersFollow
<1>7. OwnDone(p) => OwnDone(p)'
  BY <1>1 DEF OwnDone
<1>8. TopicInv(p)'
  BY <1>1, <1>3, <1>4, <1>5, <1>7 DEF OneSequence, TopicInv
<1>9. RadioInv(p)'
  BY <1>1, <1>3, <1>4, <1>5 DEF OneSequence, RadioInv
<1> QED
  BY <1>6, <1>8, <1>9 DEF OneSequence

LEMMA EnqueueAdds ==
  ASSUME NEW box, NEW to, NEW m, NEW v \in Running
  PROVE  Enqueue(box, to, m)[v] = IF v \in to THEN Append(box[v], m) ELSE box[v]
  BY DEF Enqueue

LEMMA EnqueueReaches ==
  ASSUME NEW box, NEW nodes, NEW to, NEW m, NEW v \in Running, v \in to
  PROVE  Enqueue(box, Up(nodes, to), m)[v] = Append(box[v], m) \/ ~nodes[v].up
<1> SUFFICES ASSUME nodes[v].up PROVE Enqueue(box, Up(nodes, to), m)[v] = Append(box[v], m)
  BY Zenon
<1>1. v \in Up(nodes, to)
  BY DEF Up
<1> QED
  BY <1>1 DEF Enqueue

LEMMA BroadcastOneSequence ==
  ASSUME PlatoonInv, NEW p \in Running, OneSequence(p), NEW v \in Running, Broadcast(v)
  PROVE  OneSequence(p)'
<1>1. /\ coop' = coop /\ plan' = plan /\ flag' = flag /\ copying' = copying
      /\ openSimulate /\ openSimulate' = openSimulate
  BY DEF Broadcast, hubVars
<1>2. v = p /\ sent[p] # <<>>
  BY DEF OneSequence, OthersFollow, Broadcast
<1>3. /\ CoopInv /\ PlanInv /\ sent[p] \in Seq(Ordered) /\ inbox[p] \in Seq(Ordered)
      /\ sent \in [Running -> Seq(Ordered)] /\ coop[p] \in CoopOrdered
  BY DEF PlatoonInv, CoopInv
<1>4. PICK m \in Ordered : m = Head(sent[p])
  BY <1>2, <1>3, QueueOrdered
<1>5. /\ inbox' = Enqueue(inbox, Up(coop, Running), m)
      /\ planBox' = Enqueue(planBox, Up(plan, Running), m)
  BY <1>2, <1>4 DEF Broadcast, Reach
<1>6. sent'[p] = Tail(sent[p]) /\ \A w \in Running \ {p} : sent'[w] = sent[w]
  BY <1>2, <1>3 DEF Broadcast, Sent
<1>7. ASSUME NEW w \in Running PROVE inbox'[w] = Append(inbox[w], m) \/ ~coop[w].up
  BY <1>5, EnqueueReaches
<1>8. ASSUME NEW w \in Running PROVE planBox'[w] = Append(planBox[w], m) \/ ~plan[w].up
  BY <1>5, EnqueueReaches
<1>9. OthersFollow(p)'
  BY <1>1, <1>6 DEF OneSequence, OthersFollow
<1>10. OwnDone(p)'
  <2> SUFFICES ASSUME coop[p].up
               PROVE  Done(Known(coop[p]), inbox'[p]) /\ Done(Known(coop[p]), sent'[p])
    BY <1>1 DEF OwnDone
  <2>1. Done(Known(coop[p]), inbox[p]) /\ Done(Known(coop[p]), sent[p])
    BY <1>1 DEF OneSequence, TopicInv, OwnDone
  <2>2. Known(coop[p]) \in Knowledge
    BY <1>3, KnownFields
  <2>3. Effect(Known(coop[p]), m) = Known(coop[p]) /\ Done(Known(coop[p]), Tail(sent[p]))
    BY <1>2, <1>3, <1>4, <2>1, <2>2, DoneRest
  <2>4. Done(Known(coop[p]), Append(inbox[p], m))
    BY <1>3, <2>1, <2>2, <2>3, DoneMore
  <2> QED
    BY <1>6, <1>7, <2>3, <2>4
<1>11. PICK k \in Knowledge :
         /\ Ahead(p, k)
         /\ \A w \in Running \ {p} : CoopBehind(w, k)
         /\ \A w \in Running : PlanBehind(w, k)
  BY <1>1 DEF OneSequence, TopicInv
<1>12. Effect(k, m) \in Knowledge
  BY EffectKnowledge
<1>13. Ahead(p, Effect(k, m))'
  BY <1>1, <1>2, <1>3, <1>4, <1>6, <1>11, AheadSends
<1>14. ASSUME NEW w \in Running \ {p} PROVE CoopBehind(w, Effect(k, m))'
  BY <1>1, <1>3, <1>7, <1>11, CoopBehindHears
<1>15. ASSUME NEW w \in Running PROVE PlanBehind(w, Effect(k, m))'
  BY <1>1, <1>3, <1>8, <1>11, PlanBehindHears
<1>16. TopicInv(p)'
  BY <1>10, <1>12, <1>13, <1>14, <1>15 DEF TopicInv
<1>17. RadioInv(p)'
  BY <1>1 DEF RadioInv
<1> QED
  BY <1>9, <1>16, <1>17 DEF OneSequence

LEMMA HubMissionOneSequence ==
  ASSUME PlatoonInv, NEW p \in Running, OneSequence(p), NEW v \in Running, HubMission(v)
  PROVE  OneSequence(p)'
<1>1. /\ coop' = coop /\ plan' = plan /\ inbox' = inbox /\ copying' = copying
      /\ ~openSimulate /\ openSimulate' = openSimulate
  BY DEF HubMission, OnMissionSelf
<1>2. v = p /\ sent[p] # <<>>
  BY DEF OneSequence, OthersFollow, HubMission
<1>3. /\ CoopInv /\ PlanInv /\ sent[p] \in Seq(Ordered) /\ sent \in [Running -> Seq(Ordered)]
      /\ flag \in [Running -> BOOLEAN]
  BY DEF PlatoonInv, CoopInv, HubInv
<1>4. PICK m \in Ordered : m = Head(sent[p])
  BY <1>2, <1>3, QueueOrdered
<1>5. planBox' = Enqueue(planBox, Up(plan, {p}), m)
  BY <1>2, <1>4 DEF HubMission
<1>6. sent'[p] = Tail(sent[p]) /\ \A w \in Running \ {p} : sent'[w] = sent[w]
  BY <1>2, <1>3 DEF HubMission, Sent
<1>7. \A w \in Running \ {p} : flag'[w] = flag[w]
  BY <1>2, <1>3 DEF HubMission, OnMissionSelf
<1>8. planBox'[p] = Append(planBox[p], m) \/ ~plan[p].up
  BY <1>5, EnqueueReaches
<1>9. \A w \in Running \ {p} : planBox'[w] = planBox[w]
  BY <1>5, EnqueueAdds DEF Up
<1>10. OthersFollow(p)'
  BY <1>1, <1>6, <1>7 DEF OneSequence, OthersFollow
<1>11. PICK k \in Knowledge : Ahead(p, k) /\ PlanBehind(p, k)
  BY <1>1 DEF OneSequence, RadioInv
<1>12. Effect(k, m) \in Knowledge
  BY EffectKnowledge
<1>13. Ahead(p, Effect(k, m))'
  BY <1>1, <1>2, <1>3, <1>4, <1>6, <1>11, AheadSends
<1>14. PlanBehind(p, Effect(k, m))'
  BY <1>1, <1>3, <1>8, <1>11, PlanBehindHears
<1>15. ASSUME NEW w \in Running \ {p}, NEW l, CoopBehind(w, l), PlanBehind(w, l)
       PROVE  CoopBehind(w, l)' /\ PlanBehind(w, l)'
  BY <1>1, <1>9, <1>15, CoopBehindStays, PlanBehindStays
<1>16. RadioInv(p)'
  BY <1>1, <1>12, <1>13, <1>14, <1>15 DEF OneSequence, RadioInv
<1>17. TopicInv(p)'
  BY <1>1 DEF TopicInv
<1> QED
  BY <1>10, <1>16, <1>17 DEF OneSequence

LEMMA HubTakeOneSequence ==
  ASSUME PlatoonInv, NEW p \in Running, OneSequence(p), NEW v \in Running, HubTake(v)
  PROVE  OneSequence(p)'
<1>1. /\ coop' = coop /\ plan' = plan /\ inbox' = inbox /\ sent' = sent /\ planBox' = planBox
      /\ openSimulate' = openSimulate
  BY DEF HubTake, UdpTake, coopVars, planVars
<1>2. v = p /\ ~openSimulate
  BY DEF OneSequence, OthersFollow, HubTake, UdpTake
<1>3. \A w \in Running \ {p} : flag'[w] = flag[w] /\ copying'[w] = copying[w]
  BY <1>2 DEF HubTake, UdpTake, PlatoonInv, HubInv
<1>4. OthersFollow(p)'
  BY <1>1, <1>2, <1>3 DEF OneSequence, OthersFollow
<1>5. ASSUME NEW k, NEW w PROVE /\ CoopBehind(w, k) => CoopBehind(w, k)'
                                /\ PlanBehind(w, k) => PlanBehind(w, k)'
                                /\ Ahead(w, k) => Ahead(w, k)'
  BY <1>1 DEF CoopBehind, PlanBehind, Ahead
<1>6. TopicInv(p)'
  BY <1>1, <1>2 DEF TopicInv
<1>7. RadioInv(p)'
  BY <1>1, <1>2, <1>5 DEF OneSequence, RadioInv
<1> QED
  BY <1>4, <1>6, <1>7 DEF OneSequence

LEMMA HubSendOneSequence ==
  ASSUME PlatoonInv, NEW p \in Running, OneSequence(p), NEW v \in Running, HubSend(v)
  PROVE  OneSequence(p)'
<1>1. /\ coop' = coop /\ plan' = plan /\ sent' = sent /\ flag' = flag
      /\ openSimulate' = openSimulate
  BY DEF HubSend, UdpSend
<1>2. v = p /\ ~openSimulate
  BY DEF OneSequence, OthersFollow, HubSend, UdpSend
<1>3. CoopInv /\ PlanInv
  BY DEF PlatoonInv
<1>4. PICK heard \in SUBSET (Running \ {p}) : Reach(heard, buffer[p])
  BY <1>2 DEF HubSend
<1>5. PICK m \in Ordered : m = buffer[p]
  BY DEF PlatoonInv, HubInv
<1>6. ASSUME NEW w \in Running \ heard PROVE inbox'[w] = inbox[w] /\ planBox'[w] = planBox[w]
  BY <1>4, EnqueueAdds DEF Reach, Up
<1>7. ASSUME NEW w \in heard
      PROVE  /\ inbox'[w] = Append(inbox[w], m) \/ ~coop[w].up
             /\ planBox'[w] = Append(planBox[w], m) \/ ~plan[w].up
  BY <1>4, <1>5, EnqueueReaches DEF Reach
<1>8. \A w \in Running \ {p} : copying'[w] = copying[w]
  BY <1>2 DEF HubSend, UdpSend, PlatoonInv, HubInv
<1>9. OthersFollow(p)'
  BY <1>1, <1>2, <1>8 DEF OneSequence, OthersFollow
<1>10. inbox'[p] = <<>> /\ planBox'[p] = planBox[p]
  BY <1>2, <1>6 DEF OneSequence, RadioInv
<1>11. \E k \in Knowledge : Ahead(p, k)' /\ PlanBehind(p, k)'
  <2>1. PICK k \in Knowledge : Ahead(p, k) /\ PlanBehind(p, k)
    BY <1>2 DEF OneSequence, RadioInv
  <2> QED
    BY <1>1, <1>10, <2>1, AheadStays, PlanBehindStays
<1>12. ASSUME NEW w \in Running \ {p}
       PROVE  \E k \in Knowledge : CoopBehind(w, k)' /\ PlanBehind(w, k)'
  <2>1. PICK k \in Knowledge : CoopBehind(w, k) /\ PlanBehind(w, k)
    BY <1>2 DEF OneSequence, RadioInv
  <2>2. CASE w \in heard
    <3>1. Effect(k, m) \in Knowledge
      BY EffectKnowledge
    <3>2. CoopBehind(w, Effect(k, m))' /\ PlanBehind(w, Effect(k, m))'
      BY <1>1, <1>3, <1>7, <2>1, <2>2, CoopBehindHears, PlanBehindHears
    <3> QED
      BY <3>1, <3>2
  <2>3. CASE w \notin heard
    BY <1>1, <1>6, <2>1, <2>3, CoopBehindStays, PlanBehindStays
  <2> QED
    BY <2>2, <2>3
<1>13. RadioInv(p)'
  BY <1>10, <1>11, <1>12 DEF RadioInv
<1>14. TopicInv(p)'
  BY <1>1, <1>2 DEF TopicInv
<1> QED
  BY <1>9, <1>13, <1>14 DEF OneSequence

LEMMA InitOneSequence ==
  ASSUME Init, NEW p \in Running
  PROVE  OneSequence(p)
<1> DEFINE k == [built |-> FALSE, list |-> <<>>]
<1>1. /\ k \in Knowledge
      /\ \A v \in Running : /\ inbox[v] = <<>> /\ sent[v] = <<>> /\ planBox[v] = <<>>
                            /\ ~flag[v] /\ ~copying[v] /\ coop[v].role = FOLLOWER
                            /\ Known(coop[v]) = k /\ Known(plan[v]) = k
  BY EmptyIsMembers
  DEF Init, CoopInit, PlanInit, HubInit, Fresh, PlanFresh, Known, Knowledge
<1> HIDE DEF k
<1>2. \A v \in Running : CoopBehind(v, k) /\ PlanBehind(v, k) /\ Ahead(v, k)
  BY <1>1, BringsNothing DEF CoopBehind, PlanBehind, Ahead
<1>3. OwnDone(p)
  BY <1>1, NothingDone DEF OwnDone
<1> QED
  BY <1>1, <1>2, <1>3 DEF OneSequence, OthersFollow, TopicInv, RadioInv

LEMMA StepOneSequence ==
  ASSUME PlatoonInv, NEW p \in Running, Pads = {p}, OneSequence(p), [Next]_vars, [Patient]_vars
  PROVE  OneSequence(p)'
<1>1. CASE UNCHANGED vars
  <2>1. /\ coop' = coop /\ plan' = plan /\ inbox' = inbox /\ sent' = sent /\ planBox' = planBox
        /\ openSimulate' = openSimulate /\ flag' = flag /\ copying' = copying
    BY <1>1 DEF vars, coopVars, planVars, hubVars
  <2> QED
    BY <2>1 DEF OneSequence, OthersFollow, TopicInv, RadioInv, OwnDone, CoopBehind, PlanBehind, Ahead
<1>2. CASE Next /\ Patient
  <2>1. ASSUME NEW v \in Pads, PadCommand(v) \/ CooperationMember(v) PROVE OneSequence(p)'
    BY <1>2, <2>1, PadCommandOneSequence, CooperationMemberOneSequence
  <2>2. ASSUME NEW v \in Running, CooperationMission(v) \/ CooperationTimer(v)
        PROVE  OneSequence(p)'
    BY <2>2, CooperationMissionOneSequence, CooperationTimerOneSequence
  <2>3. ASSUME NEW v \in Running, PlanningMission(v) \/ PlanningMember(v) \/ PlanningCycle(v)
        PROVE  OneSequence(p)'
    BY <2>3, PlanningOneSequence
  <2>4. ASSUME NEW v \in Running, Broadcast(v) \/ HubMission(v) \/ HubTake(v) \/ HubSend(v)
        PROVE  OneSequence(p)'
    BY <2>4, BroadcastOneSequence, HubMissionOneSequence, HubTakeOneSequence, HubSendOneSequence
  <2> QED
    BY <1>2, <2>1, <2>2, <2>3, <2>4 DEF Next
<1> QED
  BY <1>1, <1>2

(* One pad gives the commands. *)
OnePad == \E p \in Running : Pads = {p}

(* In a simulation, and on real vehicles whatever the radio loses, a vehicle's  *)
(* cooperation node and its planner have the same platoon when nothing is       *)
(* under way to them: for one leader, which in a simulation gives a command     *)
(* only when its own missions have come back to it.                             *)
THEOREM CopiesOfOneLeaderAgree ==
  ASSUME OnePad
  PROVE  Spec /\ [][Patient]_vars => []CopiesAgree
<1>1. PICK p \in Running : Pads = {p}
  BY DEF OnePad
<1>2. Init => PlatoonInv /\ OneSequence(p)
  BY InitHolds, InitOneSequence
<1>3. PlatoonInv /\ OneSequence(p) /\ [Next]_vars /\ [Patient]_vars
        => (PlatoonInv /\ OneSequence(p))'
  BY <1>1, StepKeeps, StepOneSequence
<1>4. PlatoonInv /\ OneSequence(p) => CopiesAgree
  <2> SUFFICES ASSUME PlatoonInv, OneSequence(p), NEW v \in Running, Drained(v),
                      coop[v].up, plan[v].up
               PROVE  Known(coop[v]) = Known(plan[v])
    BY DEF CopiesAgree, Known
  <2>1. Known(coop[v]) \in Knowledge /\ Known(plan[v]) \in Knowledge
    BY KnownFields DEF PlatoonInv, CoopInv, PlanInv
  <2>2. sent[v] = <<>> /\ inbox[v] = <<>> /\ planBox[v] = <<>>
    BY DEF Drained
  <2>3. PICK k \in Knowledge : PlanBehind(v, k) /\ (IF v = p THEN Ahead(v, k) ELSE CoopBehind(v, k))
    BY DEF OneSequence, TopicInv, RadioInv
  <2>4. Known(plan[v]) = k
    BY <2>1, <2>2, <2>3, BringsNothing DEF PlanBehind
  <2>5. Known(coop[v]) = k
    BY <2>1, <2>2, <2>3, BringsNothing DEF CoopBehind, Ahead
  <2> QED
    BY <2>4, <2>5
<1> QED
  BY <1>2, <1>3, <1>4, PTL DEF Spec

(* Where no mission is lost, all vehicles of a platoon have the list of its     *)
(* leader once they have heard its missions, in the same order of vehicles.     *)
THEOREM ListsOfOneLeaderAgree ==
  ASSUME OnePad
  PROVE  Spec /\ [][Patient]_vars => []ListsAgree
<1>1. PICK p \in Running : Pads = {p}
  BY DEF OnePad
<1>2. Init => PlatoonInv /\ OneSequence(p)
  BY InitHolds, InitOneSequence
<1>3. PlatoonInv /\ OneSequence(p) /\ [Next]_vars /\ [Patient]_vars
        => (PlatoonInv /\ OneSequence(p))'
  BY <1>1, StepKeeps, StepOneSequence
<1>4. PlatoonInv /\ OneSequence(p) => ListsAgree
  <2> SUFFICES ASSUME PlatoonInv, OneSequence(p), openSimulate, \A v \in Running : Drained(v)
               PROVE  \E k : \A v \in Running : coop[v].up => Known(coop[v]) = k
    BY DEF ListsAgree, Known
  <2>1. PICK k \in Knowledge : Ahead(p, k) /\ \A v \in Running \ {p} : CoopBehind(v, k)
    BY DEF OneSequence, TopicInv
  <2>2. ASSUME NEW v \in Running, coop[v].up PROVE Known(coop[v]) = k
    <3>1. Known(coop[v]) \in Knowledge
      BY KnownFields DEF PlatoonInv, CoopInv
    <3>2. sent[v] = <<>> /\ inbox[v] = <<>>
      BY DEF Drained
    <3> QED
      BY <2>1, <2>2, <3>1, <3>2, BringsNothing DEF CoopBehind, Ahead
  <2> QED
    BY <2>2
<1> QED
  BY <1>2, <1>3, <1>4, PTL DEF Spec
===============================================================================
