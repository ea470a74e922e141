----------------------------- MODULE Cooperation -----------------------------
(***************************************************************************)
(* The cooperation node of every vehicle, cooperation.cpp: the pad's        *)
(* commands make a vehicle the leader of a platoon and let it publish       *)
(* missions, the missions of a leader are obeyed by the others, and a       *)
(* timer lets vehicles start one after the other once they have massed or    *)
(* distributed.  Where vehicles stand is left open: whether the vehicle a    *)
(* timer waits for has arrived is a choice.                                  *)
(***************************************************************************)
EXTENDS PlatoonCommon

CONSTANTS
  QueueLen,   \* missions a queue holds: 10 in the source
  Lists       \* lists a BUILD may find, from the distances of the members heard

ASSUME CooperationAssumption ==
  /\ QueueLen \in Nat \ {0}
  /\ Lists \subseteq Seq(Vehicles)
  /\ \A l \in Lists : \A i, j \in DOMAIN l : l[i] = l[j] => i = j

VARIABLES
  coop,   \* coop[v]: the state of v's node
  sent,   \* sent[v]: missions v has published and no transport has taken
  inbox,  \* inbox[v]: missions waiting for v's callbackPlatoonMission
  echo    \* echo[v]: the role in v's own member message on its way back to v

coopVars == <<coop, sent, inbox, echo>>

NoRole == "none"

(* up: no assertion of the node has failed.  moving: what the node last told  *)
(* its vehicle (MotionStartCmd).  points: the size of distributeGoals.       *)
CoopNode == [up : BOOLEAN, built : BOOLEAN, list : Seq(Vehicles), role : {LEADER, FOLLOWER},
             massFlag : BOOLEAN, distributeFlag : BOOLEAN, points : Nat,
             moving : BOOLEAN]

Fresh == [up |-> TRUE, built |-> FALSE, list |-> <<>>, role |-> FOLLOWER, massFlag |-> FALSE,
          distributeFlag |-> FALSE, points |-> 0, moving |-> FALSE]

(* A failed assertion ends the node; what it told its vehicle last remains.   *)
Aborted(c) == [Fresh EXCEPT !.up = FALSE, !.moving = c.moving]

(* massFlag and distributeFlag are not initialised.  The first tick of the    *)
(* timer, before any command, ends a node that finds one of them set: such a   *)
(* vehicle is not among Running.                                             *)
CoopInit ==
  /\ coop = [v \in Running |-> Fresh]
  /\ sent = [v \in Running |-> <<>>]
  /\ inbox = [v \in Running |-> <<>>]
  /\ echo = [v \in Running |-> NoRole]

Publish(v, m) ==
  /\ Len(sent[v]) < QueueLen
  /\ sent' = [sent EXCEPT ![v] = Append(@, m)]
  /\ UNCHANGED <<inbox, echo>>

Become(v, c) == coop' = [coop EXCEPT ![v] = c]

(* toStopMove and toStartMove; the driving mode ordered beside them (toManual, *)
(* toAuto) is not kept.                                                      *)
Parked(c) == [c EXCEPT !.moving = FALSE]
Started(c) == [c EXCEPT !.moving = TRUE]

-------------------------------------------------------------------------------
(* The pad's commands: callbackOpt and the ...Self handlers.                 *)

(* buildSelf: the members, nearest first, are added to whatever the list has. *)
BuildSelf(v, members) ==
  LET c == coop[v]
      list == c.list \o members
  IN /\ c.up /\ Admitted(c.built, "BUILD")
     /\ Head(members) = v
     /\ Become(v, Parked([c EXCEPT !.list = list, !.points = Len(list),
                                   !.role = LEADER, !.built = TRUE]))
     /\ Publish(v, Mission("BUILD", list, 0, 0))

Leads(v, type) == coop[v].up /\ Admitted(coop[v].built, type) /\ coop[v].role = LEADER

JoinSelf(v, num) ==
  /\ Leads(v, "JOIN") /\ ~CheckNum(coop[v].list, num)
  /\ Become(v, [coop[v] EXCEPT !.list = Append(@, num)])
  /\ Publish(v, Mission("JOIN", <<>>, num, 0))

LeaveSelf(v, num) ==
  /\ Leads(v, "LEAVE") /\ CheckNum(coop[v].list, num)
  /\ Become(v, [coop[v] EXCEPT !.list = EraseNum(@, num)])
  /\ Publish(v, Mission("LEAVE", <<>>, num, 0))

(* disolveSelf: the vehicle stays a leader *)
DisolveSelf(v) ==
  /\ Leads(v, "DISSOLVE")
  /\ Become(v, [coop[v] EXCEPT !.list = <<>>, !.built = FALSE])
  /\ Publish(v, Order("DISSOLVE"))

(* columnSelf, diamondSelf, triangleSelf, reverseSelf, cancel_reverseSelf    *)
(* and massSelf only publish.                                               *)
ShapeSelf(v, type) ==
  /\ Leads(v, type)
  /\ Publish(v, Order(type))
  /\ UNCHANGED coop

DistributeSelf(v) ==
  /\ Leads(v, "DISTRIBUTE")
  /\ Become(v, [coop[v] EXCEPT !.distributeFlag = TRUE, !.moving = FALSE])
  /\ Publish(v, Mission("DISTRIBUTE", <<>>, 0, coop[v].points))

RunningSelf(v) ==
  /\ Leads(v, "RUNNING")
  /\ Become(v, Started(coop[v]))
  /\ Publish(v, Order("RUNNING"))

Command(v) ==
  \/ \E members \in Lists : BuildSelf(v, members)
  \/ \E num \in Vehicles : JoinSelf(v, num) \/ LeaveSelf(v, num)
  \/ \E type \in {"SHAPE", "MASS"} : ShapeSelf(v, type)
  \/ DisolveSelf(v) \/ DistributeSelf(v) \/ RunningSelf(v)

-------------------------------------------------------------------------------
(* Missions of a leader: callbackPlatoonMission and its handlers.  Nobody     *)
(* asks who sent a mission, nor whether the vehicle is in the list.          *)

(* Mutant: the flag is cleared and the list forgotten. *)
DisolveFlagOnly(c) == [c EXCEPT !.built = FALSE]

(* disolve *)
Disolve(c) == [c EXCEPT !.list = <<>>, !.built = FALSE]

(* join and leave *)
Join(c, m) == [c EXCEPT !.list = AddNum(@, m.num)]

(* Mutant: a vehicle takes the first of the list out, not the one that leaves. *)
LeaveFirst(c, m) == [c EXCEPT !.list = IF @ = <<>> THEN @ ELSE Tail(@)]

Leave(c, m) == [c EXCEPT !.list = EraseNum(@, m.num)]

Obey(c, m) ==
  CASE m.type = "BUILD" -> Parked([c EXCEPT !.list = m.list, !.role = FOLLOWER, !.built = TRUE])
    [] m.type = "JOIN" -> Join(c, m)
    [] m.type = "LEAVE" -> Leave(c, m)
    [] m.type = "DISSOLVE" -> Disolve(c)
    [] m.type = "SHAPE" -> c
    [] m.type = "MASS" -> [c EXCEPT !.massFlag = @ \/ c.role # LEADER]
    [] m.type = "DISTRIBUTE" -> [c EXCEPT !.points = m.points, !.distributeFlag = TRUE,
                                          !.moving = FALSE]
    [] m.type = "RUNNING" -> Started(c)

OnMission(v) ==
  /\ coop[v].up /\ inbox[v] # <<>>
  /\ LET c == coop[v]
         m == Head(inbox[v])
     IN Become(v, IF Admitted(c.built, m.type) THEN Obey(c, m) ELSE c)
  /\ inbox' = [inbox EXCEPT ![v] = Tail(@)]
  /\ UNCHANGED <<sent, echo>>

(* callbackCurrentPose publishes the vehicle's own member message.  In a       *)
(* simulation the node subscribes to the topic it publishes on.               *)
MemberMessage(v) ==
  /\ coop[v].up /\ echo[v] = NoRole
  /\ echo' = [echo EXCEPT ![v] = coop[v].role]
  /\ UNCHANGED <<coop, sent, inbox>>

(* callbackPlatoonMember with the vehicle's own message: it overwrites what    *)
(* the node has become since it was published, the role too.                 *)
MemberEcho(v) ==
  /\ coop[v].up /\ echo[v] # NoRole
  /\ Become(v, [coop[v] EXCEPT !.role = echo[v]])
  /\ echo' = [echo EXCEPT ![v] = NoRole]
  /\ UNCHANGED <<sent, inbox>>

-------------------------------------------------------------------------------
(* callbackTimer, every 0.1 s.  An answer is "abort" where an assertion fails *)
(* or a null pointer is followed, and anything where memory next to a vector  *)
(* is read.                                                                  *)

(* followerReachedMassPoint *)
FollowerReached(index) == IF index > 0 THEN {"yes", "no"} ELSE {"abort"}

(* Mutant: nobody is waited for in front of a vehicle that is in no list. *)
FronterReachedLax(c, index) ==
  IF index < 0 THEN {"yes"}
  ELSE IF index \in 0..(c.points - 1) THEN {"yes", "no"} ELSE {"yes", "no", "abort"}

(* fronterReachedMassPoint: -1 is the vehicle in front of the first one.      *)
(* distributeGoals is indexed without a check.                               *)
FronterReached(c, index) ==
  IF index = -1 THEN {"yes"}
  ELSE IF ~c.built \/ c.points = 0 THEN {"abort"}
  ELSE IF index \in 0..(c.points - 1) THEN {"yes", "no"}
  ELSE {"yes", "no", "abort"}

Massed(c, index) == IF c.massFlag THEN FollowerReached(index - 1) ELSE {"yes"}
Spread(c, index) == IF c.distributeFlag THEN FronterReached(c, index - 1) ELSE {"yes"}

(* The last condition assigns MASS to the type instead of comparing it, so    *)
(* that a leader asks this whatever the platoon is doing.                    *)
AllMassed(c) == IF c.role = LEADER THEN FollowerReached(Len(c.list) - 1) ELSE {"no"}

AfterMass(c) == IF c.massFlag THEN Started([c EXCEPT !.massFlag = FALSE]) ELSE c
AfterSpread(c) == IF c.distributeFlag THEN [c EXCEPT !.distributeFlag = FALSE, !.moving = TRUE]
                  ELSE c

Timer(v) ==
  LET c == coop[v]
      index == GetNumIndex(c.list, v)
      massed == AfterMass(c)
      spread == AfterSpread(massed)
  IN /\ c.up
     /\ \E mass \in Massed(c, index) :
          \/ /\ mass = "abort"
             /\ Become(v, Aborted(c)) /\ UNCHANGED <<sent, inbox, echo>>
          \/ /\ mass = "yes"
             /\ \E front \in Spread(massed, index) :
                  \/ /\ front = "abort"
                     /\ Become(v, Aborted(massed)) /\ UNCHANGED <<sent, inbox, echo>>
                  \/ /\ front = "no"
                     /\ Become(v, massed) /\ UNCHANGED <<sent, inbox, echo>>
                  \/ /\ front = "yes"
                     /\ \E last \in AllMassed(spread) :
                          \/ /\ last = "abort"
                             /\ Become(v, Aborted(spread)) /\ UNCHANGED <<sent, inbox, echo>>
                          \/ /\ last = "no"
                             /\ Become(v, spread) /\ UNCHANGED <<sent, inbox, echo>>
                          \/ /\ last = "yes"
                             /\ Become(v, spread) /\ Publish(v, Order("RUNNING"))
===============================================================================
