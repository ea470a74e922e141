----------------------------- MODULE RouteProofs -----------------------------
(***************************************************************************)
(* Proofs about the route node and its tasks, for any tasks, assignments and  *)
(* road blocks, and any number of them.                                      *)
(*                                                                         *)
(* Between two callbacks no order is remembered, the index is within the      *)
(* results, and every leg's end is still to be found in lastMultiPoints,      *)
(* behind the place where the handler of a replan will look for what is left. *)
(***************************************************************************)
EXTENDS TaskRoute, TLAPS, SequenceTheorems

(* The end of the j-th leg is behind the j-th point of last, whatever replans   *)
(* added in front.                                                           *)
Planned(results, last) ==
  \A j \in 1..Len(results) : \E m \in 1..Len(last) : m > j /\ last[m] = results[j].to

Sound(n) == n \in RouteNode /\ n.pubIndex < Len(n.results) /\ Planned(n.results, n.last)
Waiting(n) == Sound(n) /\ n.confirmed = FALSE
Shown(n) == n.pubIndex >= 0 => published = CurrentLeg(n)

RouteInv == Waiting(node) /\ published \in LegSet \cup {NoLeg} /\ Shown(node)
TaskInv ==
  /\ multiBox \in Seq(Tasks) \cup {None} /\ solution \in Seq(Tasks)
  /\ started \in BOOLEAN /\ initBox \in BOOLEAN /\ replanBox \in BOOLEAN /\ nextBox \in BOOLEAN
  /\ at \in Points \cup {ROAD}

-------------------------------------------------------------------------------
(* Legs and lists of points. *)

LEMMA PointFacts ==
  /\ Tasks \subseteq Points /\ ORIGIN \in Points /\ VEHICLE \in Points
  /\ BACK \in Points /\ STRAY \in Points
  /\ \A from, to \in Points : Leg(from, to) \in LegSet /\ Leg(from, to).to = to
  BY DEF Points, Leg, LegSet

LEMMA LegsFacts ==
  ASSUME NEW points \in Seq(Points), Len(points) >= 1
  PROVE  /\ Legs(points) \in Seq(LegSet) /\ Len(Legs(points)) = Len(points) - 1
         /\ \A i \in 1..(Len(points) - 1) : Legs(points)[i].to = points[i + 1]
<1>1. Len(points) \in Nat /\ \A i \in 1..Len(points) : points[i] \in Points
  BY LenProperties, ElementOfSeq
<1>2. \A i \in 1..(Len(points) - 1) :
        /\ points[i] \in Points /\ points[i + 1] \in Points
        /\ Leg(points[i], points[i + 1]) \in LegSet
        /\ Leg(points[i], points[i + 1]).to = points[i + 1]
  BY <1>1, PointFacts
<1>3. Legs(points) \in [1..(Len(points) - 1) -> LegSet]
  BY <1>2 DEF Legs
<1>4. Len(points) - 1 \in Nat
  BY <1>1
<1>5. Legs(points) \in Seq(LegSet)
  BY <1>3, <1>4, SeqDef
<1>6. Len(Legs(points)) = Len(points) - 1
  BY <1>3, <1>4, <1>5, LenProperties
<1>7. \A i \in 1..(Len(points) - 1) : Legs(points)[i] = Leg(points[i], points[i + 1])
  BY DEF Legs
<1> QED
  BY <1>2, <1>5, <1>6, <1>7

LEMMA PairPrefix ==
  ASSUME NEW S, NEW x \in S, NEW y \in S, NEW q \in Seq(S)
  PROVE  <<x>> \o (<<y>> \o q) = <<x, y>> \o q
<1>1. <<x>> \in Seq(S) /\ <<y>> \in Seq(S) /\ <<x, y>> \in Seq(S)
  OBVIOUS
<1>2. Len(<<x>>) = 1 /\ Len(<<y>>) = 1 /\ Len(<<x, y>>) = 2
      /\ <<x>>[1] = x /\ <<y>>[1] = y /\ <<x, y>>[1] = x /\ <<x, y>>[2] = y
  OBVIOUS
<1> DEFINE p == <<x>>
           r == <<y>>
           pair == <<x, y>>
<1> HIDE DEF p, r, pair
<1>3. /\ p \o r \in Seq(S) /\ Len(p \o r) = 2
      /\ \A i \in 1..2 : (p \o r)[i] = IF i <= 1 THEN p[i] ELSE r[i - 1]
  BY <1>1, <1>2, ConcatProperties DEF p, r
<1>4. \A i \in 1..2 : (p \o r)[i] = pair[i]
  <2>1. (p \o r)[1] = x /\ (p \o r)[2] = y
    BY <1>2, <1>3 DEF p, r
  <2>2. \A i \in 1..2 : i = 1 \/ i = 2
    OBVIOUS
  <2> QED
    BY <1>2, <2>1, <2>2 DEF pair
<1>5. p \o r = pair
  BY <1>1, <1>2, <1>3, <1>4, SeqEqual DEF pair
<1>6. p \o (r \o q) = (p \o r) \o q
  BY <1>1, ConcatAssociative DEF p, r
<1> QED
  BY <1>5, <1>6 DEF p, r, pair

LEMMA VehicleFirst ==
  ASSUME NEW second \in Points, NEW q \in Seq(Points)
  PROVE  <<VEHICLE>> \o (<<second>> \o q) = <<VEHICLE, second>> \o q
<1>1. VEHICLE \in Points
  BY PointFacts
<1> HIDE DEF VEHICLE, Points
<1> QED
  BY <1>1, PairPrefix

LEMMA PrefixFacts ==
  ASSUME NEW S, NEW x \in S, NEW q \in Seq(S)
  PROVE  /\ <<x>> \o q \in Seq(S) /\ Len(<<x>> \o q) = Len(q) + 1
         /\ (<<x>> \o q)[1] = x
         /\ \A i \in 1..Len(q) : (<<x>> \o q)[i + 1] = q[i]
<1>1. <<x>> \in Seq(S) /\ Len(<<x>>) = 1 /\ <<x>>[1] = x
  OBVIOUS
<1>2. Len(q) \in Nat
  BY LenProperties
<1>3. /\ <<x>> \o q \in Seq(S) /\ Len(<<x>> \o q) = 1 + Len(q)
      /\ \A i \in 1..(1 + Len(q)) :
           (<<x>> \o q)[i] = IF i <= 1 THEN <<x>>[i] ELSE q[i - 1]
  BY <1>1, ConcatProperties
<1> QED
  BY <1>1, <1>2, <1>3

(* What an assignment or a goal plans for is what is remembered. *)
LEMMA LegsPlanned ==
  ASSUME NEW points \in Seq(Points), Len(points) >= 1
  PROVE  Planned(Legs(points), points)
<1>1. Len(points) \in Nat
  BY LenProperties
<1> QED
  BY <1>1, LegsFacts DEF Planned

LEMMA WayBackPlanned ==
  ASSUME NEW targets \in Seq(Points)
  PROVE  LET results == <<Leg(VEHICLE, BACK)>> \o Legs(<<BACK>> \o targets)
             last == <<VEHICLE, BACK>> \o targets
         IN results \in Seq(LegSet) /\ last \in Seq(Points) /\ Planned(results, last)
<1> DEFINE beyond == <<BACK>> \o targets
           legs == Legs(beyond)
           results == <<Leg(VEHICLE, BACK)>> \o legs
           last == <<VEHICLE>> \o beyond
<1>1. Len(targets) \in Nat
  BY LenProperties
<1>2. beyond \in Seq(Points) /\ Len(beyond) = Len(targets) + 1 /\ beyond[1] = BACK
  BY PointFacts, PrefixFacts
<1> HIDE DEF beyond
<1>3. /\ legs \in Seq(LegSet) /\ Len(legs) = Len(targets)
      /\ \A i \in 1..Len(targets) : legs[i].to = beyond[i + 1]
  <2>1. Len(beyond) >= 1 /\ Len(beyond) - 1 = Len(targets)
    BY <1>1, <1>2
  <2> QED
    BY <1>2, <2>1, LegsFacts
<1>4. /\ last \in Seq(Points) /\ Len(last) = Len(targets) + 2 /\ last[1] = VEHICLE
      /\ \A i \in 1..(Len(targets) + 1) : last[i + 1] = beyond[i]
  BY <1>1, <1>2, PointFacts, PrefixFacts
<1>5. Leg(VEHICLE, BACK) \in LegSet /\ Leg(VEHICLE, BACK).to = BACK
  BY PointFacts
<1> HIDE DEF legs, last
<1>6. /\ results \in Seq(LegSet) /\ Len(results) = Len(targets) + 1
      /\ results[1] = Leg(VEHICLE, BACK)
      /\ \A i \in 1..Len(targets) : results[i + 1] = legs[i]
  BY <1>3, <1>5, PrefixFacts
<1> HIDE DEF results
<1>7. ASSUME NEW j \in 1..Len(results) PROVE last[j + 1] = results[j].to
  <2>1. CASE j = 1
    BY <1>1, <1>2, <1>4, <1>5, <1>6, <2>1
  <2>2. CASE j # 1
    <3>1. (j - 1) \in 1..Len(targets)
      BY <1>1, <1>6, <2>2
    <3>2. results[j] = legs[j - 1] /\ legs[j - 1].to = beyond[j]
      BY <1>1, <1>3, <1>6, <3>1
    <3> QED
      BY <1>1, <1>4, <1>6, <3>2
  <2> QED
    BY <2>1, <2>2
<1>8. Planned(results, last)
  <2>1. \A j \in 1..Len(results) : j + 1 \in 1..Len(last) /\ j + 1 > j
    BY <1>1, <1>4, <1>6
  <2> QED
    BY <1>7, <2>1 DEF Planned
<1>9. last = <<VEHICLE, BACK>> \o targets
  BY PointFacts, VehicleFirst DEF last, beyond
<1> QED
  BY <1>4, <1>6, <1>8, <1>9 DEF results, legs, beyond

LEMMA OnTheWayBackPlanned ==
  ASSUME NEW targets \in Seq(Points), Len(targets) >= 1, NEW second \in Points
  PROVE  LET results == <<Leg(VEHICLE, targets[1])>> \o Legs(targets)
             last == <<VEHICLE, second>> \o targets
         IN results \in Seq(LegSet) /\ last \in Seq(Points) /\ Planned(results, last)
<1> DEFINE legs == Legs(targets)
           first == Leg(VEHICLE, targets[1])
           results == <<first>> \o legs
           beyond == <<second>> \o targets
           last == <<VEHICLE>> \o beyond
<1>1. Len(targets) \in Nat /\ targets[1] \in Points
  BY LenProperties, ElementOfSeq
<1>2. /\ beyond \in Seq(Points) /\ Len(beyond) = Len(targets) + 1
      /\ \A i \in 1..Len(targets) : beyond[i + 1] = targets[i]
  BY PrefixFacts
<1> HIDE DEF beyond
<1>3. /\ legs \in Seq(LegSet) /\ Len(legs) = Len(targets) - 1
      /\ \A i \in 1..(Len(targets) - 1) : legs[i].to = targets[i + 1]
  BY LegsFacts
<1>4. /\ last \in Seq(Points) /\ Len(last) = Len(targets) + 2
      /\ \A i \in 1..(Len(targets) + 1) : last[i + 1] = beyond[i]
  BY <1>1, <1>2, PointFacts, PrefixFacts
<1>5. first \in LegSet /\ first.to = targets[1]
  BY <1>1, PointFacts
<1> HIDE DEF legs, last, first
<1>6. /\ results \in Seq(LegSet) /\ Len(results) = Len(targets)
      /\ results[1] = first
      /\ \A i \in 1..(Len(targets) - 1) : results[i + 1] = legs[i]
  <2>1. /\ results \in Seq(LegSet) /\ Len(results) = Len(legs) + 1
        /\ results[1] = first
        /\ \A i \in 1..Len(legs) : results[i + 1] = legs[i]
    BY <1>3, <1>5, PrefixFacts
  <2> QED
    BY <1>1, <1>3, <2>1
<1> HIDE DEF results
<1>7. ASSUME NEW j \in 1..Len(results) PROVE results[j].to = targets[j]
  <2>1. CASE j = 1
    BY <1>5, <1>6, <2>1
  <2>2. CASE j # 1
    <3>1. (j - 1) \in 1..(Len(targets) - 1)
      BY <1>1, <1>6, <2>2
    <3>2. results[j] = legs[j - 1] /\ legs[j - 1].to = targets[j]
      BY <1>1, <1>3, <1>6, <3>1
    <3> QED
      BY <3>2
  <2> QED
    BY <2>1, <2>2
<1>8. ASSUME NEW j \in 1..Len(targets) PROVE last[j + 2] = targets[j]
  <2>1. beyond[j + 1] = targets[j] /\ j + 1 \in 1..(Len(targets) + 1)
    BY <1>1, <1>2
  <2>2. last[(j + 1) + 1] = beyond[j + 1]
    BY <1>4, <2>1
  <2> QED
    BY <1>1, <2>1, <2>2
<1>9. Planned(results, last)
  <2>1. \A j \in 1..Len(results) : j + 2 \in 1..Len(last) /\ j + 2 > j
    BY <1>1, <1>4, <1>6
  <2> QED
    BY <1>6, <1>7, <1>8, <2>1 DEF Planned
<1>10. last = <<VEHICLE, second>> \o targets
  BY VehicleFirst DEF last, beyond
<1> QED
  BY <1>4, <1>6, <1>9, <1>10 DEF results, legs, first

-------------------------------------------------------------------------------
(* The state of the node. *)

LEMMA SoundFields ==
  ASSUME NEW n, Sound(n)
  PROVE  /\ n.up \in BOOLEAN /\ n.results \in Seq(LegSet) /\ n.pubIndex \in {-1} \cup Nat
         /\ n.confirmed \in BOOLEAN /\ n.last \in Seq(Points) /\ n.points \in Seq(Points)
         /\ n.pose \in Points \cup {ROAD}
         /\ n.pubIndex < Len(n.results) /\ Len(n.results) \in Nat
         /\ Planned(n.results, n.last)
<1>1. n.results \in Seq(LegSet)
  BY DEF Sound, RouteNode
<1>2. Len(n.results) \in Nat
  BY <1>1, LenProperties
<1> QED
  BY <1>1, <1>2 DEF Sound, RouteNode

LEMMA NothingPlanned == \A last : <<>> \in Seq(LegSet) /\ Planned(<<>>, last)
  BY EmptySeq DEF Planned

LEMMA ClearedSound ==
  ASSUME NEW n, Sound(n)
  PROVE  Waiting(Cleared(n)) /\ Cleared(n).pubIndex = -1
<1>1. n \in RouteNode
  BY DEF Sound
<1>2. Cleared(n) \in RouteNode
  BY <1>1, NothingPlanned DEF Cleared, RouteNode
<1>3. Cleared(n).results = <<>> /\ Cleared(n).pubIndex = -1 /\ Cleared(n).confirmed = FALSE
  BY <1>1 DEF Cleared, RouteNode
<1>4. Len(<<>>) = 0
  BY EmptySeq
<1>5. Planned(Cleared(n).results, Cleared(n).last)
  BY <1>3, NothingPlanned
<1> QED
  BY <1>2, <1>3, <1>4, <1>5 DEF Waiting, Sound

LEMMA CurrentFacts ==
  ASSUME NEW n, Sound(n), Active(n)
  PROVE  CurrentLeg(n) \in LegSet
<1>1. n.pubIndex + 1 \in 1..Len(n.results)
  BY SoundFields DEF Active
<1> QED
  BY <1>1, SoundFields, ElementOfSeq DEF CurrentLeg

(* A leg that is made current is published with it. *)
LEMMA PublishShows ==
  ASSUME NEW n, Waiting(n), node' = n, Publish(n), published \in LegSet \cup {NoLeg}
  PROVE  RouteInv'
<1>1. CASE Active(n)
  <2>1. published' = CurrentLeg(n) /\ CurrentLeg(n) \in LegSet
    BY <1>1, CurrentFacts DEF Publish, Waiting
  <2> QED
    BY <2>1 DEF RouteInv, Waiting, Sound, Shown, CurrentLeg
<1>2. CASE ~Active(n)
  <2>1. published' = published /\ ~(n.pubIndex >= 0)
    BY <1>2, SoundFields DEF Publish, Waiting, Active
  <2> QED
    BY <2>1 DEF RouteInv, Waiting, Sound, Shown
<1> QED
  BY <1>1, <1>2

LEMMA AdvancedSound ==
  ASSUME NEW n, Sound(n)
  PROVE  Waiting(Advanced(n))
<1> DEFINE m == [n EXCEPT !.confirmed = FALSE, !.pubIndex = @ + 1]
<1>1. n \in RouteNode /\ n.pubIndex + 1 \in Nat
  BY SoundFields DEF Sound
<1>2. /\ m \in RouteNode /\ m.pubIndex = n.pubIndex + 1 /\ m.confirmed = FALSE
      /\ m.results = n.results /\ m.last = n.last
  BY <1>1 DEF RouteNode
<1> HIDE DEF m
<1>3. CASE m.pubIndex >= Len(m.results)
  <2>1. Cleared(m) \in RouteNode
    BY <1>2, NothingPlanned DEF Cleared, RouteNode
  <2>2. Cleared(m).results = <<>> /\ Cleared(m).pubIndex = -1 /\ Cleared(m).confirmed = FALSE
    BY <1>2 DEF Cleared, RouteNode
  <2>3. Waiting(Cleared(m))
    BY <2>1, <2>2, NothingPlanned, EmptySeq DEF Waiting, Sound
  <2>4. Advanced(n) = Cleared(m)
    BY <1>3 DEF Advanced, m
  <2> QED
    BY <2>3, <2>4
<1>4. CASE ~(m.pubIndex >= Len(m.results))
  <2>1. m.pubIndex < Len(m.results)
    BY <1>1, <1>2, <1>4, SoundFields
  <2>2. Waiting(m)
    BY <1>2, <2>1, SoundFields DEF Waiting, Sound
  <2>3. Advanced(n) = m
    BY <1>4 DEF Advanced, m
  <2> QED
    BY <2>2, <2>3
<1> QED
  BY <1>3, <1>4

(* The route goes on only when the end is near and an order is given. *)
LEMMA TryAdvanceKeeps ==
  ASSUME NEW n, Sound(n), Shown(n), TryAdvance(n), published \in LegSet \cup {NoLeg},
         n.confirmed => Near(n)
  PROVE  /\ RouteInv'
         /\ node'.pubIndex # n.pubIndex => n.confirmed /\ Near(n)
<1>1. CASE Near(n) /\ n.confirmed
  <2>1. node' = Advanced(n) /\ Publish(Advanced(n))
    BY <1>1 DEF TryAdvance
  <2> QED
    BY <1>1, <2>1, AdvancedSound, PublishShows
<1>2. CASE ~(Near(n) /\ n.confirmed)
  <2> DEFINE m == [n EXCEPT !.confirmed = @ /\ Active(n)]
  <2>1. node' = m /\ published' = published
    BY <1>2 DEF TryAdvance
  <2>2. n.confirmed = FALSE
    BY <1>2, SoundFields
  <2>3. m = [n EXCEPT !.confirmed = FALSE]
    BY <2>2
  <2> HIDE DEF m
  <2>4. /\ m \in RouteNode /\ m.confirmed = FALSE /\ m.pubIndex = n.pubIndex
        /\ m.results = n.results /\ m.last = n.last
    BY <2>3 DEF Sound, RouteNode
  <2>5. Waiting(m)
    BY <2>4, SoundFields DEF Waiting, Sound
  <2>6. (m.pubIndex >= 0 => published = CurrentLeg(m))
    BY <2>4 DEF Shown, CurrentLeg
  <2> QED
    BY <2>1, <2>4, <2>5, <2>6 DEF RouteInv, Waiting, Sound, Shown, CurrentLeg
<1> QED
  BY <1>1, <1>2

-------------------------------------------------------------------------------
(* One lemma per handler. *)

LEMMA OnPoseKeeps ==
  ASSUME RouteInv, NEW pose \in Points \cup {ROAD}, OnPose(pose)
  PROVE  RouteInv' /\ (node'.pubIndex # node.pubIndex => node.pubIndex < 0)
<1> DEFINE n == [node EXCEPT !.pose = pose]
<1>1. Waiting(node) /\ node \in RouteNode
  BY DEF RouteInv, Waiting, Sound
<1>2. /\ n \in RouteNode /\ n.pubIndex = node.pubIndex /\ n.results = node.results
      /\ n.last = node.last /\ n.confirmed = node.confirmed
  BY <1>1 DEF RouteNode
<1>3. Follow(n)
  BY DEF OnPose
<1> HIDE DEF n
<1>4. Sound(n) /\ Shown(n) /\ n.confirmed = FALSE
  BY <1>1, <1>2 DEF RouteInv, Waiting, Sound, Shown, CurrentLeg
<1>5. CASE n.pubIndex < 0 /\ n.results # <<>>
  <2>1. node' = First(n) /\ Publish(First(n))
    BY <1>3, <1>5 DEF Follow
  <2>2. First(n) \in RouteNode /\ First(n).pubIndex = 0 /\ First(n).confirmed = FALSE
        /\ First(n).results = n.results /\ First(n).last = n.last
    BY <1>2 DEF First, RouteNode
  <2>3. Len(n.results) > 0
    BY <1>4, <1>5, SoundFields, EmptySeq
  <2>4. Waiting(First(n))
    BY <1>4, <2>2, <2>3 DEF Waiting, Sound
  <2>5. RouteInv'
    BY <2>1, <2>4, PublishShows DEF RouteInv
  <2> QED
    BY <1>2, <1>5, <2>5
<1>6. CASE ~(n.pubIndex < 0 /\ n.results # <<>>)
  <2>1. TryAdvance(n)
    BY <1>3, <1>6 DEF Follow
  <2> QED
    BY <1>2, <1>4, <2>1, TryAdvanceKeeps DEF RouteInv
<1> QED
  BY <1>5, <1>6

LEMMA OnNextKeeps ==
  ASSUME RouteInv, OnNextSegment
  PROVE  RouteInv' /\ (node'.pubIndex # node.pubIndex => Near(node))
<1> DEFINE n == [node EXCEPT !.confirmed = Near(node)]
<1>1. Sound(node) /\ node \in RouteNode
  BY DEF RouteInv, Waiting, Sound
<1>2. Near(node) \in BOOLEAN
  BY Zenon DEF Near, Active
<1>3. /\ n \in RouteNode /\ n.pubIndex = node.pubIndex /\ n.results = node.results
      /\ n.last = node.last /\ n.pose = node.pose
  BY <1>1, <1>2 DEF RouteNode
<1>4. n.confirmed = Near(node)
  BY <1>1, Zenon DEF RouteNode
<1>5. TryAdvance(n)
  BY DEF OnNextSegment, Confirm
<1> HIDE DEF n
<1>6. Near(n) = Near(node)
  BY <1>3 DEF Near, Active, CurrentLeg
<1>7. Sound(n) /\ Shown(n)
  BY <1>1, <1>3 DEF RouteInv, Sound, Shown, CurrentLeg
<1> QED
  BY <1>3, <1>4, <1>5, <1>6, <1>7, TryAdvanceKeeps DEF RouteInv

(* A node that gives its route up, or takes another, has no current leg. *)
LEMMA IdleKeeps ==
  ASSUME RouteInv, NEW n \in RouteNode, n.pubIndex = -1, n.confirmed = FALSE,
         Planned(n.results, n.last), node' = n, published' = published
  PROVE  RouteInv'
<1>1. Len(n.results) \in Nat
  BY LenProperties DEF RouteNode
<1> QED
  BY <1>1 DEF RouteInv, Waiting, Sound, Shown

LEMMA AssignmentPoints ==
  ASSUME NEW tasks \in Seq(Tasks)
  PROVE  /\ <<ORIGIN>> \o tasks \in Seq(Points) /\ Len(<<ORIGIN>> \o tasks) >= 1
<1>1. tasks \in Seq(Points)
  BY PointFacts, SeqMonotonic
<1>2. Len(tasks) \in Nat
  BY LenProperties
<1> QED
  BY <1>1, <1>2, PointFacts, PrefixFacts

LEMMA OnMultiPointKeeps ==
  ASSUME RouteInv, NEW tasks \in Seq(Tasks), OnMultiPoint(tasks)
  PROVE  RouteInv' /\ node'.pubIndex = -1
<1> DEFINE forgot == Forget(node)
           points == <<ORIGIN>> \o tasks
<1>1. Sound(node) /\ node \in RouteNode
  BY DEF RouteInv, Waiting, Sound
<1>2. Cleared(node) \in RouteNode /\ <<>> \in Seq(Points)
  BY <1>1, ClearedSound, EmptySeq DEF Waiting, Sound
<1>3. /\ forgot \in RouteNode /\ forgot.pubIndex = -1 /\ forgot.confirmed = FALSE
      /\ forgot.results = <<>>
  BY <1>1, <1>2 DEF Forget, Cleared, RouteNode
<1>4. points \in Seq(Points) /\ Len(points) >= 1
  BY AssignmentPoints
<1>5. Legs(points) \in Seq(LegSet) /\ Planned(Legs(points), points)
  BY <1>4, LegsFacts, LegsPlanned
<1>6. /\ \/ node' = forgot
         \/ node' = [forgot EXCEPT !.points = points]
         \/ node' = [forgot EXCEPT !.results = Legs(points), !.last = points]
      /\ published' = published
  BY DEF OnMultiPoint
<1> HIDE DEF forgot, points
<1>7. CASE node' = forgot
  BY <1>3, <1>6, <1>7, NothingPlanned, IdleKeeps
<1>8. CASE node' = [forgot EXCEPT !.points = points]
  <2> DEFINE n == [forgot EXCEPT !.points = points]
  <2>1. n \in RouteNode /\ n.pubIndex = -1 /\ n.confirmed = FALSE /\ n.results = <<>>
    BY <1>3, <1>4 DEF RouteNode
  <2> QED
    BY <1>6, <1>8, <2>1, NothingPlanned, IdleKeeps
<1>9. CASE node' = [forgot EXCEPT !.results = Legs(points), !.last = points]
  <2> DEFINE n == [forgot EXCEPT !.results = Legs(points), !.last = points]
  <2>1. /\ n \in RouteNode /\ n.pubIndex = -1 /\ n.confirmed = FALSE
        /\ n.results = Legs(points) /\ n.last = points
    BY <1>3, <1>4, <1>5 DEF RouteNode
  <2> QED
    BY <1>5, <1>6, <1>9, <2>1, IdleKeeps
<1> QED
  BY <1>6, <1>7, <1>8, <1>9

LEMMA ClickKeeps ==
  ASSUME RouteInv, NEW point \in Points, OnInitialPose(point) \/ OnGoal(point)
  PROVE  RouteInv' /\ (node'.pubIndex # node.pubIndex => node'.pubIndex = -1)
<1> DEFINE points == Append(node.points, point)
           ended == [Cleared(node) EXCEPT !.points = <<>>, !.last = points]
<1>1. Sound(node) /\ node \in RouteNode /\ node.points \in Seq(Points)
  BY SoundFields DEF RouteInv, Waiting, Sound
<1>2. points \in Seq(Points) /\ Len(points) >= 1
  <2>1. Len(node.points) \in Nat
    BY <1>1, LenProperties
  <2> QED
    BY <1>1, <2>1, AppendProperties
<1>3. Legs(points) \in Seq(LegSet) /\ Planned(Legs(points), points)
  BY <1>2, LegsFacts, LegsPlanned
<1>4. /\ Cleared(node) \in RouteNode /\ Cleared(node).pubIndex = -1
      /\ Cleared(node).confirmed = FALSE /\ Cleared(node).results = <<>>
  BY <1>1, NothingPlanned DEF Cleared, RouteNode
<1>5. <<>> \in Seq(Points)
  BY EmptySeq
<1>6. CASE OnInitialPose(point)
  <2> DEFINE n == [node EXCEPT !.points = points]
  <2>1. node' = n /\ published' = published
    BY <1>6 DEF OnInitialPose
  <2>2. /\ n \in RouteNode /\ n.pubIndex = node.pubIndex /\ n.confirmed = node.confirmed
        /\ n.results = node.results /\ n.last = node.last
    BY <1>1, <1>2 DEF RouteNode
  <2> HIDE DEF n
  <2> QED
    BY <2>1, <2>2 DEF RouteInv, Waiting, Sound, Shown, CurrentLeg
<1>7. CASE OnGoal(point)
  <2>1. /\ \/ node' = [Cleared(node) EXCEPT !.points = points]
           \/ node' = ended
           \/ node' = [ended EXCEPT !.results = Legs(points)]
        /\ published' = published
    BY <1>7 DEF OnGoal
  <2>2. CASE node' = [Cleared(node) EXCEPT !.points = points]
    <3> DEFINE n == [Cleared(node) EXCEPT !.points = points]
    <3>1. n \in RouteNode /\ n.pubIndex = -1 /\ n.confirmed = FALSE /\ n.results = <<>>
      BY <1>2, <1>4 DEF RouteNode
    <3> QED
      BY <2>1, <2>2, <3>1, NothingPlanned, IdleKeeps
  <2>3. /\ ended \in RouteNode /\ ended.pubIndex = -1 /\ ended.confirmed = FALSE
        /\ ended.results = <<>> /\ ended.last = points
    BY <1>2, <1>4, <1>5 DEF RouteNode
  <2> HIDE DEF ended, points
  <2>4. CASE node' = ended
    BY <2>1, <2>3, <2>4, NothingPlanned, IdleKeeps
  <2>5. CASE node' = [ended EXCEPT !.results = Legs(points)]
    <3> DEFINE n == [ended EXCEPT !.results = Legs(points)]
    <3>1. /\ n \in RouteNode /\ n.pubIndex = -1 /\ n.confirmed = FALSE
          /\ n.results = Legs(points) /\ n.last = points
      BY <1>3, <2>3 DEF RouteNode
    <3> QED
      BY <1>3, <2>1, <2>5, <3>1, IdleKeeps
  <2> QED
    BY <2>1, <2>2, <2>4, <2>5
<1> QED
  BY <1>6, <1>7

(* What a replan plans for are points, and all that is still ahead. *)
LEMMA TargetsFacts ==
  ASSUME NEW n, Sound(n), n.pubIndex # -1 \/ n.last # <<>>
  PROVE  /\ Targets(n) \in Seq(Points)
         /\ n.pubIndex >= 0 =>
              \A j \in 1..Len(n.results) : j > n.pubIndex =>
                 \E i \in 1..Len(Targets(n)) : Targets(n)[i] = n.results[j].to
<1>1. /\ n.last \in Seq(Points) /\ Len(n.last) \in Nat
      /\ \A i \in 1..Len(n.last) : n.last[i] \in Points
  BY SoundFields, LenProperties, ElementOfSeq
<1>2. CASE n.pubIndex = -1
  <2>1. Len(n.last) \in 1..Len(n.last)
    BY <1>1, <1>2, EmptySeq
  <2>2. n.last[Len(n.last)] \in Points
    BY <1>1, <2>1
  <2> QED
    BY <1>2, <2>2 DEF Targets
<1>3. CASE n.pubIndex # -1
  <2> DEFINE k == n.pubIndex + 2
             targets == SubSeq(n.last, k, Len(n.last))
  <2>1. n.pubIndex \in Nat /\ k \in Int /\ k >= 2
    BY <1>3, SoundFields
  <2>2. Targets(n) = targets
    BY <1>3 DEF Targets
  <2>3. \A i \in k..Len(n.last) : n.last[i] \in Points
    BY <1>1, <2>1
  <2> HIDE DEF k
  <2>4. /\ targets \in Seq(Points)
        /\ Len(targets) = IF k <= Len(n.last) THEN Len(n.last) - k + 1 ELSE 0
        /\ \A i \in 1..(Len(n.last) - k + 1) : targets[i] = n.last[k + i - 1]
    BY <1>1, <2>1, <2>3, SubSeqProperties
  <2> HIDE DEF targets
  <2>5. ASSUME NEW j \in 1..Len(n.results), j > n.pubIndex
        PROVE  \E i \in 1..Len(targets) : targets[i] = n.results[j].to
    <3>1. PICK m \in 1..Len(n.last) : m > j /\ n.last[m] = n.results[j].to
      BY SoundFields DEF Planned
    <3>2. m >= k
      BY <2>1, <2>5, <3>1 DEF k
    <3>3. m - k + 1 \in 1..(Len(n.last) - k + 1) /\ k <= Len(n.last)
      BY <1>1, <2>1, <3>1, <3>2
    <3>4. targets[m - k + 1] = n.last[k + (m - k + 1) - 1]
      BY <2>4, <3>3
    <3>5. k + (m - k + 1) - 1 = m
      BY <2>1, <3>1
    <3>6. m - k + 1 \in 1..Len(targets)
      BY <2>4, <3>3
    <3> QED
      BY <3>1, <3>4, <3>5, <3>6
  <2> QED
    BY <2>2, <2>4, <2>5
<1> QED
  BY <1>2, <1>3

LEMMA ReplannedKeeps ==
  ASSUME RouteInv, NEW results \in Seq(LegSet), NEW last \in Seq(Points), Planned(results, last),
         node' = Replanned(node, results, last), published' = published
  PROVE  RouteInv' /\ node'.pubIndex = -1
<1> DEFINE n == Replanned(node, results, last)
<1>1. Sound(node) /\ node \in RouteNode
  BY DEF RouteInv, Waiting, Sound
<1>2. Cleared(node) \in RouteNode
  BY <1>1, NothingPlanned DEF Cleared, RouteNode
<1>3. /\ n \in RouteNode /\ n.pubIndex = -1 /\ n.confirmed = FALSE
      /\ n.results = results /\ n.last = last
  BY <1>1, <1>2 DEF Replanned, Cleared, RouteNode
<1> QED
  BY <1>3, IdleKeeps

LEMMA OnReplanKeeps ==
  ASSUME RouteInv, OnReplan
  PROVE  RouteInv' /\ (node'.pubIndex # node.pubIndex => node'.pubIndex = -1)
<1> DEFINE targets == Targets(node)
<1>1. Sound(node) /\ node \in RouteNode
  BY DEF RouteInv, Waiting, Sound
<1>2. CASE Crash
  <2> DEFINE n == [node EXCEPT !.up = FALSE]
  <2>1. node' = n /\ published' = published
    BY <1>2 DEF Crash
  <2>2. /\ n \in RouteNode /\ n.pubIndex = node.pubIndex /\ n.confirmed = node.confirmed
        /\ n.results = node.results /\ n.last = node.last
    BY <1>1 DEF RouteNode
  <2> HIDE DEF n
  <2> QED
    BY <2>1, <2>2 DEF RouteInv, Waiting, Sound, Shown, CurrentLeg
<1>3. CASE ~Crash
  <2>1. node.pubIndex # -1 \/ node.last # <<>>
    BY <1>3 DEF OnReplan
  <2>2. targets \in Seq(Points) /\ Len(targets) \in Nat
    BY <1>1, <2>1, TargetsFacts, LenProperties
  <2>3. /\ \/ node' = Cleared(node)
           \/ node' = WayBack(targets)
           \/ Len(targets) > 1 /\ node' = OnTheWayBack(targets, targets[1])
           \/ Len(targets) = 1 /\ node' = OnTheWayBack(targets, STRAY)
        /\ published' = published
    BY <1>3 DEF OnReplan
  <2> HIDE DEF targets
  <2>4. CASE node' = Cleared(node)
    <3>1. /\ Cleared(node) \in RouteNode /\ Cleared(node).pubIndex = -1
          /\ Cleared(node).confirmed = FALSE /\ Cleared(node).results = <<>>
      BY <1>1, NothingPlanned DEF Cleared, RouteNode
    <3> QED
      BY <2>3, <2>4, <3>1, NothingPlanned, IdleKeeps
  <2>5. CASE node' = WayBack(targets)
    BY <2>2, <2>3, <2>5, WayBackPlanned, ReplannedKeeps DEF WayBack
  <2>6. ASSUME NEW second \in Points, Len(targets) >= 1, node' = OnTheWayBack(targets, second)
        PROVE  RouteInv' /\ node'.pubIndex = -1
    BY <2>2, <2>3, <2>6, OnTheWayBackPlanned, ReplannedKeeps DEF OnTheWayBack
  <2>7. STRAY \in Points /\ (Len(targets) >= 1 => targets[1] \in Points)
    BY <2>2, PointFacts, ElementOfSeq
  <2> QED
    BY <2>2, <2>3, <2>4, <2>5, <2>6, <2>7
<1> QED
  BY <1>2, <1>3

-------------------------------------------------------------------------------
(* The invariant. *)

LEMMA InitHolds == Init => RouteInv /\ TaskInv
<1> SUFFICES ASSUME Init PROVE RouteInv /\ TaskInv
  OBVIOUS
<1>1. /\ node \in RouteNode /\ node.pubIndex = -1 /\ node.confirmed = FALSE
      /\ node.results = <<>> /\ published = NoLeg
  BY PointFacts, EmptySeq DEF Init, RouteInit, RouteNode
<1>2. RouteInv
  BY <1>1, NothingPlanned, EmptySeq DEF RouteInv, Waiting, Sound, Shown
<1>3. TaskInv
  BY PointFacts, TaskRouteAssumption DEF Init, TaskInv
<1> QED
  BY <1>2, <1>3

LEMMA NodeStep ==
  ASSUME RouteInv, TaskInv, [Next]_vars
  PROVE  /\ RouteInv'
         /\ node.pubIndex >= 0 /\ node'.pubIndex > node.pubIndex
              => nextBox /\ ~nextBox' /\ Near(node)
<1>1. node.pubIndex \in {-1} \cup Nat
  BY SoundFields DEF RouteInv, Waiting
<1>2. \/ node'.pubIndex = node.pubIndex \/ node'.pubIndex = -1 \/ node.pubIndex < 0
      => ~(node.pubIndex >= 0 /\ node'.pubIndex > node.pubIndex)
  BY <1>1
<1>3. CASE Odometry
  <2>1. OnPose(at) /\ at \in Points \cup {ROAD}
    BY <1>3 DEF Odometry, TaskInv
  <2>2. RouteInv' /\ (node'.pubIndex # node.pubIndex => node.pubIndex < 0)
    BY <2>1, OnPoseKeeps
  <2> QED
    BY <1>2, <2>2
<1>4. CASE TakeAssignment
  <2>1. multiBox \in Seq(Tasks) /\ OnMultiPoint(multiBox)
    BY <1>4 DEF TakeAssignment, TaskInv
  <2> QED
    BY <1>2, <2>1, OnMultiPointKeeps
<1>5. CASE TakeReplan
  <2>1. RouteInv' /\ (node'.pubIndex # node.pubIndex => node'.pubIndex = -1)
    BY <1>5, OnReplanKeeps DEF TakeReplan
  <2> QED
    BY <1>2, <2>1
<1>6. CASE TakeNext
  <2>1. RouteInv' /\ (node'.pubIndex # node.pubIndex => Near(node)) /\ nextBox /\ nextBox' = FALSE
    BY <1>6, OnNextKeeps DEF TakeNext
  <2> QED
    BY <1>2, <2>1
<1>7. CASE Click
  <2>1. PICK point \in Clicked : OnInitialPose(point) \/ OnGoal(point)
    BY <1>7 DEF Click
  <2>2. point \in Points
    BY PointFacts, TaskRouteAssumption
  <2>3. RouteInv' /\ (node'.pubIndex # node.pubIndex => node'.pubIndex = -1)
    BY <2>1, <2>2, ClickKeeps
  <2> QED
    BY <1>2, <2>3
<1>8. CASE UNCHANGED routeVars
  <2>1. node' = node /\ published' = published
    BY <1>8 DEF routeVars
  <2>2. RouteInv'
    BY <2>1 DEF RouteInv, Waiting, Sound, Shown, CurrentLeg
  <2> QED
    BY <1>2, <2>1, <2>2
<1>9. CASE \/ StartCommand \/ PublishSolution \/ CloudAssign \/ RequestReplan \/ PressNext
           \/ PlaceVehicle \/ Depart \/ Arrive \/ UNCHANGED vars
  BY <1>8, <1>9
  DEF StartCommand, PublishSolution, CloudAssign, RequestReplan, PressNext, PlaceVehicle, Depart,
      Arrive, vars
<1> QED
  BY <1>3, <1>4, <1>5, <1>6, <1>7, <1>9 DEF Next

LEMMA TaskStep ==
  ASSUME RouteInv, TaskInv, [Next]_vars
  PROVE  TaskInv'
<1>1. published \in LegSet => published.to \in Points
  BY DEF LegSet
<1>2. NoLeg.to = ROAD
  BY DEF NoLeg, Leg
<1>3. published.to \in Points \cup {ROAD}
  BY <1>1, <1>2 DEF RouteInv
<1>4. None \in {None} /\ ORIGIN \in Points
  BY PointFacts
<1>5. CASE UNCHANGED <<multiBox, solution, started, initBox, replanBox, nextBox, at>>
  BY <1>5 DEF TaskInv
<1>6. CASE Odometry \/ Click \/ UNCHANGED vars
  BY <1>5, <1>6 DEF Odometry, Click, vars, boxes, scheduler
<1>7. CASE StartCommand \/ PublishSolution
  BY <1>7 DEF StartCommand, PublishSolution, TaskInv, boxes
<1>8. CASE CloudAssign
  BY <1>8, TaskRouteAssumption DEF CloudAssign, TaskInv, scheduler
<1>9. CASE RequestReplan \/ PressNext \/ TakeReplan \/ TakeNext
  BY <1>9 DEF RequestReplan, PressNext, TakeReplan, TakeNext, TaskInv, boxes, scheduler
<1>10. CASE TakeAssignment
  BY <1>4, <1>10 DEF TakeAssignment, TaskInv, scheduler
<1>11. CASE PlaceVehicle \/ Depart \/ Arrive
  BY <1>3, <1>4, <1>11 DEF PlaceVehicle, Depart, Arrive, TaskInv, boxes, scheduler
<1> QED
  BY <1>6, <1>7, <1>8, <1>9, <1>10, <1>11 DEF Next

LEMMA Invariance == Spec => [](RouteInv /\ TaskInv)
  BY InitHolds, NodeStep, TaskStep, PTL DEF Spec

-------------------------------------------------------------------------------
(* Every variable has its type and the index of the current leg is within the   *)
(* results, for any tasks and any number of requests (route.cpp).              *)
THEOREM RouteTypes == Spec => []RouteTypeOK
<1>1. ASSUME RouteInv, TaskInv PROVE RouteTypeOK
  <2>1. node \in RouteNode /\ node.pubIndex < Len(node.results)
    BY <1>1 DEF RouteInv, Waiting, Sound
  <2>2. {started, initBox, replanBox, nextBox} \subseteq BOOLEAN
    BY <1>1, Zenon DEF TaskInv
  <2> QED
    BY <1>1, <2>1, <2>2 DEF RouteTypeOK, RouteInv, TaskInv
<1> QED
  BY <1>1, Invariance, PTL

(* The leg that counts as current is the one published last, whatever replaced  *)
(* the route meanwhile (publishCurrentRouteSegment and what clears pubIndex).   *)
THEOREM CurrentIsPublished == Spec => []PublishedIsCurrent
<1>1. ASSUME RouteInv PROVE PublishedIsCurrent
  <2>1. node.pubIndex >= 0 => Active(node)
    BY <1>1 DEF RouteInv, Waiting, Sound, Active
  <2> QED
    BY <1>1, <2>1 DEF PublishedIsCurrent, RouteInv, Shown
<1> QED
  BY <1>1, Invariance, PTL

(* A replan asked for at any moment plans for every point that is still ahead,   *)
(* however many replans came before it (callbackReplan, lastMultiPoints).       *)
THEOREM ReplanKeepsAgenda == Spec => []AgendaRemembered
<1>1. ASSUME RouteInv PROVE AgendaRemembered
  <2>1. Sound(node) /\ DOMAIN node.results = 1..Len(node.results)
    BY <1>1, SoundFields, LenProperties DEF RouteInv, Waiting
  <2>2. ASSUME node.pubIndex >= 0, NEW j \in 1..Len(node.results), j > node.pubIndex
        PROVE  node.results[j].to \in RangeOf(Targets(node))
    <3>1. /\ Targets(node) \in Seq(Points)
          /\ \E i \in 1..Len(Targets(node)) : Targets(node)[i] = node.results[j].to
      BY <2>1, <2>2, TargetsFacts
    <3>2. DOMAIN Targets(node) = 1..Len(Targets(node))
      BY <3>1, LenProperties
    <3> QED
      BY <3>1, <3>2 DEF RangeOf
  <2> QED
    BY <2>1, <2>2 DEF AgendaRemembered, Ahead
<1> QED
  BY <1>1, Invariance, PTL

(* The route goes on only at an order taken where the current leg ends: an order  *)
(* that came too early is not remembered (tryAdvanceRouteSegment).              *)
THEOREM OrdersOnly == Spec => AdvanceOnlyOnOrder
<1>1. ASSUME RouteInv, TaskInv, [Next]_vars
      PROVE  [node.pubIndex >= 0 /\ node'.pubIndex > node.pubIndex
                => nextBox /\ ~nextBox' /\ node.pose = CurrentLeg(node).to]_vars
  BY <1>1, NodeStep DEF Near
<1> QED
  BY <1>1, Invariance, PTL DEF Spec, AdvanceOnlyOnOrder
===============================================================================
