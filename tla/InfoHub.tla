------------------------------- MODULE InfoHub -------------------------------
(***************************************************************************)
(* The sending half of info_hub.cpp on every vehicle, for missions.  A ROS  *)
(* callback writes the mission into a buffer of one and raises a flag; the   *)
(* UDP thread lowers the flag first and copies the buffer afterwards, at     *)
(* most once per receive timeout.  A second mission replaces one that waits, *)
(* and one that arrives between the two steps of the thread is sent twice.   *)
(* The copy itself is taken as atomic.                                       *)
(***************************************************************************)
EXTENDS PlatoonCommon

VARIABLES
  buffer,    \* buffer[v]: platoonMission_
  flag,      \* new_PlatoonMission_flag
  copying    \* the thread has lowered the flag and not yet copied the buffer

hubVars == <<buffer, flag, copying>>

Blank == Order("SHAPE")

HubInit ==
  /\ buffer = [v \in Running |-> Blank]
  /\ flag = [v \in Running |-> FALSE]
  /\ copying = [v \in Running |-> FALSE]

(* MsgMission2UdpMission and UdpMission2MsgMission: the distribute points    *)
(* are not part of the datagram.                                            *)
Datagram(m) == [m EXCEPT !.points = 0]

(* platoonmissionCallback *)
OnMissionSelf(v, m) ==
  /\ buffer' = [buffer EXCEPT ![v] = Datagram(m)]
  /\ flag' = [flag EXCEPT ![v] = TRUE]
  /\ UNCHANGED copying

(* udpThreadFunc: if (new_PlatoonMission_flag) { new_PlatoonMission_flag = false *)
UdpTake(v) ==
  /\ flag[v] /\ ~copying[v]
  /\ flag' = [flag EXCEPT ![v] = FALSE]
  /\ copying' = [copying EXCEPT ![v] = TRUE]
  /\ UNCHANGED buffer

(* mission = platoonMission_; send.  What is sent is buffer[v], which nobody   *)
(* reads again unless the flag is up again.                                  *)
UdpSend(v) ==
  /\ copying[v]
  /\ copying' = [copying EXCEPT ![v] = FALSE]
  /\ buffer' = [buffer EXCEPT ![v] = IF flag[v] THEN @ ELSE Blank]
  /\ UNCHANGED flag
===============================================================================
