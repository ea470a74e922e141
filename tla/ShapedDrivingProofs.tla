------------------------ MODULE ShapedDrivingProofs ------------------------
(***************************************************************************)
(* Proofs of what a constraint may do to a trajectory, for all peers,        *)
(* constraints, trajectories and values of the constants: what is published  *)
(* is fit for the controller (TypeOK), no constraint speeds the vehicle up   *)
(* (NeverFaster), a stop is a stop (StopIsFinal), and nobody follows blindly *)
(* (BlindFollower).                                                        *)
(*                                                                         *)
(* Times are defined by recursion along the trajectory. That such functions  *)
(* exist, and have integers as values, is shown with a least counterexample. *)
(***************************************************************************)
EXTENDS ShapedDriving, FiniteSetTheorems, WellFoundedInduction, TLAPS

-----------------------------------------------------------------------------
(***************************************************************************)
(* Least elements, and functions defined by recursion                      *)
(***************************************************************************)

(* A non-empty set of natural numbers has a least element: among the         *)
(* intervals below its elements one includes no other.                     *)
LEMMA LeastElement ==
  ASSUME NEW S \in SUBSET Nat, S # {}
  PROVE  \E m \in S : \A x \in S : m <= x
<1> DEFINE T == {0..(x - 1) : x \in S}
<1>1. \A x \in Nat : IsFiniteSet(0..(x - 1)) /\ 0..(x - 1) \in SUBSET Nat BY FS_Interval
<1>2. T \subseteq FiniteSubsetsOf(Nat) /\ T # {} BY <1>1 DEF FiniteSubsetsOf
<1>3. PICK U \in T : \A V \in T : <<V, U>> \notin StrictSubsetOrdering(Nat)
  <2> HIDE DEF T
  <2> QED BY <1>2, WFMin, FS_StrictSubsetOrderingWellFounded
<1>4. PICK m \in S : U = 0..(m - 1) OBVIOUS
<1>5. ASSUME NEW x \in S, x < m PROVE FALSE
  <2>1. x \in 0..(m - 1) /\ x \notin 0..(x - 1) BY <1>5
  <2>2. 0..(x - 1) \subseteq 0..(m - 1) /\ 0..(x - 1) # 0..(m - 1) BY <1>5, <2>1
  <2>3. 0..(x - 1) \in T /\ 0..(x - 1) \in SUBSET Nat /\ 0..(m - 1) \in SUBSET Nat BY <1>1
  <2>4. <<0..(x - 1), U>> \in StrictSubsetOrdering(Nat) BY <1>4, <2>2, <2>3 DEF StrictSubsetOrdering
  <2> QED BY <1>3, <2>3, <2>4
<1> QED BY <1>5

LEMMA MinIs ==
  ASSUME NEW S \in SUBSET Nat, S # {}
  PROVE  Min(S) \in S /\ \A x \in S : Min(S) <= x
<1>1. PICK m \in S : \A x \in S : m <= x BY LeastElement
<1> QED BY <1>1 DEF Min

LEMMA MaxIs ==
  ASSUME NEW b \in Nat, NEW S \in SUBSET (0..b), S # {}
  PROVE  Max(S) \in S /\ \A x \in S : x <= Max(S)
<1> DEFINE T == {b - x : x \in S}
<1>1. T \in SUBSET Nat /\ T # {}
  <2>1. \A x \in S : b - x \in Nat OBVIOUS
  <2> QED BY <2>1
<1>2. PICK t \in T : \A y \in T : t <= y BY <1>1, LeastElement
<1>3. b - t \in S /\ \A x \in S : x <= b - t BY <1>2
<1> QED BY <1>3 DEF Max

(* A function on 1..m may be defined by recursion: its values in B are given, *)
(* each other one follows from the value before it. Otherwise there would be *)
(* a least j for which there is none on 1..j.                              *)
Recursive(g, m, B, b, G) ==
  /\ g \in [1..m -> Int]
  /\ \A i \in 1..m : g[i] = IF i \in B THEN b[i] ELSE G[i][g[i - 1]]

LEMMA Recursion ==
  ASSUME NEW m \in Nat, NEW B, \A i \in (1..m) \ B : i # 1,
         NEW b \in [1..m -> Int], NEW G \in [1..m -> [Int -> Int]]
  PROVE  \E g : Recursive(g, m, B, b, G)
<1> DEFINE Good(j, g) == \A i \in 1..j : g[i] = IF i \in B THEN b[i] ELSE G[i][g[i - 1]]
           J == {j \in 0..m : ~\E g \in [1..j -> Int] : Good(j, g)}
<1>1. J = {}
  <2> SUFFICES ASSUME J # {} PROVE FALSE OBVIOUS
  <2>1. PICK j \in J : \A x \in J : j <= x
    <3>1. J \in SUBSET Nat OBVIOUS
    <3> HIDE DEF J
    <3> QED BY <3>1, LeastElement
  <2>2. CASE j = 0
    <3>1. [i \in 1..0 |-> 0] \in [1..j -> Int] /\ Good(j, [i \in 1..0 |-> 0]) BY <2>2
    <3> QED BY <3>1
  <2>3. CASE j # 0
    <3>0. j - 1 \in 0..m /\ j \in 1..m /\ ~(j <= j - 1) BY <2>1, <2>3
    <3>1. j - 1 \in 0..m /\ j \in 1..m /\ j - 1 \notin J
      <4> HIDE DEF J
      <4> QED BY <2>1, <3>0
    <3>2. PICK g \in [1..(j - 1) -> Int] : Good(j - 1, g) BY <3>1
    <3> DEFINE h == [i \in 1..j |-> IF i < j THEN g[i]
                                    ELSE IF j \in B THEN b[j] ELSE G[j][g[j - 1]]]
    <3>3. (IF j \in B THEN b[j] ELSE G[j][g[j - 1]]) \in Int
      <4>1. CASE j \in B BY <4>1, <3>1
      <4>2. CASE j \notin B
        <5>1. j - 1 \in 1..(j - 1) BY <3>1, <4>2
        <5>2. g[j - 1] \in Int BY <5>1
        <5>3. G[j] \in [Int -> Int] BY <3>1
        <5>4. G[j][g[j - 1]] \in Int BY <5>2, <5>3
        <5> QED BY <5>4, <4>2
      <4> QED BY <4>1, <4>2
    <3>4. h \in [1..j -> Int] BY <3>1, <3>3
    <3>5. ASSUME NEW i \in 1..j PROVE h[i] = IF i \in B THEN b[i] ELSE G[i][h[i - 1]]
      <4>1. i \notin B => i - 1 \in 1..j /\ i - 1 < j /\ h[i - 1] = g[i - 1] BY <3>1
      <4>2. CASE i = j BY <4>1, <4>2
      <4>3. CASE i # j
        <5>1. i \in 1..(j - 1) /\ h[i] = g[i] BY <4>3, <3>1
        <5>2. g[i] = IF i \in B THEN b[i] ELSE G[i][g[i - 1]] BY <5>1, <3>2
        <5> HIDE DEF h
        <5> QED BY <5>1, <5>2, <4>1
      <4> QED BY <4>2, <4>3
    <3>6. Good(j, h) BY <3>5
    <3> QED BY <3>4, <3>6
  <2> QED BY <2>2, <2>3
<1>2. PICK g \in [1..m -> Int] : Good(m, g)
  <2>1. m \in 0..m OBVIOUS
  <2> QED BY <1>1, <2>1
<1>3. Recursive(g, m, B, b, G) BY <1>2 DEF Recursive
<1> QED BY <1>3

(* Whatever is an integer where it is given, and wherever it is one at the    *)
(* place before, is an integer everywhere.                                 *)
LEMMA IntValues ==
  ASSUME NEW m \in Nat, NEW B, NEW g,
         \A i \in 1..m : \/ i \in B /\ g[i] \in Int
                         \/ i # 1 /\ (g[i - 1] \in Int => g[i] \in Int)
  PROVE  \A i \in 1..m : g[i] \in Int
<1> DEFINE J == {i \in 1..m : g[i] \notin Int}
<1> SUFFICES ASSUME J # {} PROVE FALSE OBVIOUS
<1>1. PICK j \in J : \A x \in J : j <= x
  <2>1. J \in SUBSET Nat OBVIOUS
  <2> HIDE DEF J
  <2> QED BY <2>1, LeastElement
<1>2. j # 1 /\ (g[j - 1] \in Int => g[j] \in Int) OBVIOUS
<1>3. j - 1 \in 1..m /\ ~(j <= j - 1) BY <1>2
<1>4. j - 1 \notin J BY <1>1, <1>3
<1> QED BY <1>2, <1>3, <1>4

(***************************************************************************)
(* Times: what retiming leaves alone, and that all times are numbers        *)
(***************************************************************************)
Point == [s : Int, v : 0..MaxSpeed, t : Int]

SamePath(a, b, m) == \A i \in 1..m : a[i].s = b[i].s /\ a[i].v = b[i].v

LEMMA LenOf ==
  ASSUME NEW m \in Nat, NEW S, NEW f \in [1..m -> S]
  PROVE  Len(f) = m /\ DOMAIN f = 1..m
<1>1. f \in Seq(S) OBVIOUS
<1>2. DOMAIN f = 1..Len(f) /\ Len(f) \in Nat BY <1>1
<1>3. DOMAIN f = 1..m OBVIOUS
<1> QED BY <1>2, <1>3

LEMMA TravelIsInt ==
  ASSUME NEW p, NEW q, p.s \in Int, q.s \in Int, p.v \in Int, q.v \in Int
  PROVE  Travel(p, q) \in Int
<1>1. Most(1, p.v + q.v) \in Int /\ Most(1, p.v + q.v) > 0 BY DEF Most
<1>2. 2 * (q.s - p.s) \in Int OBVIOUS
<1>3. \A a, b \in Int : b > 0 => a \div b \in Int OBVIOUS
<1>4. (2 * (q.s - p.s)) \div Most(1, p.v + q.v) \in Int BY <1>1, <1>2, <1>3
<1> QED BY <1>4 DEF Travel, Most

LEMMA TravelType ==
  ASSUME NEW p \in Point, NEW q \in Point
  PROVE  Travel(p, q) \in Int
<1>1. p.s \in Int /\ q.s \in Int /\ p.v \in Int /\ q.v \in Int BY ProcessorAssumption DEF Point
<1> QED BY <1>1, TravelIsInt

LEMMA RetimedIs ==
  ASSUME NEW m \in Nat, NEW tr \in [1..m -> Point], NEW time,
         \A i \in 1..m : time[i] \in Int
  PROVE  LET r == Retimed(tr, time)
         IN  r \in [1..m -> Point] /\ SamePath(r, tr, m) /\ \A i \in 1..m : r[i].t = time[i]
<1>1. Retimed(tr, time) = [i \in 1..m |-> [tr[i] EXCEPT !.t = time[i]]] BY DEF Retimed
<1>2. ASSUME NEW i \in 1..m
      PROVE  LET p == [tr[i] EXCEPT !.t = time[i]]
             IN  p \in Point /\ p.s = tr[i].s /\ p.v = tr[i].v /\ p.t = time[i]
  BY DEF Point
<1> QED BY <1>1, <1>2 DEF SamePath

LEMMA IncreasingIs ==
  ASSUME NEW m \in Nat \ {0}, NEW tr \in [1..m -> Point]
  PROVE  LET r == Increasing(tr)
         IN  r \in [1..m -> Point] /\ SamePath(r, tr, m) /\ \A i \in 2..m : r[i].t > r[i - 1].t
<1> DEFINE time[i \in DOMAIN tr] == IF i = 1 THEN tr[1].t ELSE Most(time[i - 1] + 1, tr[i].t)
           b == [i \in 1..m |-> tr[i].t]
           G == [i \in 1..m |-> [x \in Int |-> Most(x + 1, tr[i].t)]]
<1>1. Increasing(tr) = Retimed(tr, time) BY DEF Increasing
<1>2. \A i \in 1..m : tr[i].t \in Int BY DEF Point
<1>3. time = [i \in 1..m |-> IF i = 1 THEN tr[1].t ELSE Most(time[i - 1] + 1, tr[i].t)]
  <2>1. b \in [1..m -> Int] /\ G \in [1..m -> [Int -> Int]] BY <1>2 DEF Most
  <2>2. PICK g : Recursive(g, m, {1}, b, G)
    <3> HIDE DEF b, G
    <3>1. \A i \in (1..m) \ {1} : i # 1 OBVIOUS
    <3> QED BY <2>1, <3>1, Recursion
  <2>3. ASSUME NEW i \in 1..m
        PROVE  g[i] = IF i = 1 THEN tr[1].t ELSE Most(g[i - 1] + 1, tr[i].t)
    <3>1. g[i] = IF i \in {1} THEN b[i] ELSE G[i][g[i - 1]] BY <2>2 DEF Recursive
    <3>2. i # 1 => i - 1 \in 1..m /\ g[i - 1] \in Int BY <2>2 DEF Recursive
    <3> QED BY <3>1, <3>2
  <2>4. g = [i \in 1..m |-> IF i = 1 THEN tr[1].t ELSE Most(g[i - 1] + 1, tr[i].t)] BY <2>2, <2>3 DEF Recursive
  <2>5. \E f : f = [i \in 1..m |-> IF i = 1 THEN tr[1].t ELSE Most(f[i - 1] + 1, tr[i].t)]
    BY <2>4
  <2> QED BY <2>5
<1> HIDE DEF time
<1>4. \A i \in 2..m : time[i] = Most(time[i - 1] + 1, tr[i].t) BY <1>3
<1>5. \A i \in 1..m : time[i] \in Int
  <2>1. ASSUME NEW i \in 1..m
        PROVE  \/ i \in {1} /\ time[i] \in Int
               \/ i # 1 /\ (time[i - 1] \in Int => time[i] \in Int)
    <3>1. CASE i = 1 BY <1>2, <1>3, <3>1
    <3>2. CASE i # 1
      <4>1. time[i] = Most(time[i - 1] + 1, tr[i].t) BY <1>4, <3>2
      <4> QED BY <1>2, <3>2, <4>1 DEF Most
    <3> QED BY <3>1, <3>2
  <2> QED BY <2>1, IntValues
<1>6. ASSUME NEW i \in 2..m PROVE time[i] > time[i - 1]
  <2>1. i - 1 \in 1..m /\ i \in 1..m OBVIOUS
  <2> QED BY <1>2, <1>4, <1>5, <2>1 DEF Most
<1>7. LET r == Retimed(tr, time)
      IN  r \in [1..m -> Point] /\ SamePath(r, tr, m) /\ \A i \in 1..m : r[i].t = time[i]
  BY <1>5, RetimedIs
<1>8. \A i \in 2..m : i \in 1..m /\ i - 1 \in 1..m OBVIOUS
<1> QED BY <1>1, <1>6, <1>7, <1>8

LEMMA RecomputeTimingIs ==
  ASSUME NEW m \in Nat, NEW n \in 1..m, NEW tr \in [1..m -> Point]
  PROVE  LET r == RecomputeTiming(tr, n) IN r \in [1..m -> Point] /\ SamePath(r, tr, m)
<1> DEFINE step(p, q) == IF q.s - p.s <= Tiny \/ p.v + q.v = 0 THEN Cycle ELSE Travel(p, q)
           time[i \in DOMAIN tr] == IF i <= n THEN tr[i].t ELSE time[i - 1] + step(tr[i - 1], tr[i])
           d(i) == step(tr[i - 1], tr[i])
           b == [i \in 1..m |-> tr[i].t]
           G == [i \in 1..m |-> [x \in Int |-> IF i = 1 THEN x ELSE x + d(i)]]
<1>1. RecomputeTiming(tr, n) = Retimed(tr, time) BY DEF RecomputeTiming
<1>2. \A i \in 1..m : tr[i].t \in Int BY DEF Point
<1>3. ASSUME NEW i \in 2..m PROVE d(i) \in Int
  <2>1. tr[i] \in Point /\ tr[i - 1] \in Point
    <3>1. i \in 1..m /\ i - 1 \in 1..m OBVIOUS
    <3> QED BY <3>1
  <2>2. Travel(tr[i - 1], tr[i]) \in Int BY <2>1, TravelType
  <2> QED BY <2>2, ProcessorAssumption
<1> HIDE DEF d
<1>4. \E f : f = [i \in 1..m |-> IF i <= n THEN tr[i].t ELSE f[i - 1] + d(i)]
  <2>1. b \in [1..m -> Int] /\ G \in [1..m -> [Int -> Int]]
    <3>1. \A i \in 1..m, x \in Int : (IF i = 1 THEN x ELSE x + d(i)) \in Int BY <1>3
    <3> QED BY <1>2, <3>1
  <2>2. PICK g : Recursive(g, m, 1..n, b, G)
    <3> HIDE DEF b, G
    <3>1. \A i \in (1..m) \ (1..n) : i # 1 OBVIOUS
    <3> QED BY <2>1, <3>1, Recursion
  <2>3. ASSUME NEW i \in 1..m
        PROVE  g[i] = IF i <= n THEN tr[i].t ELSE g[i - 1] + d(i)
    <3>1. g[i] = IF i \in 1..n THEN b[i] ELSE G[i][g[i - 1]] BY <2>2 DEF Recursive
    <3>2. ~(i <= n) => i # 1 /\ i - 1 \in 1..m /\ g[i - 1] \in Int BY <2>2 DEF Recursive
    <3> QED BY <3>1, <3>2
  <2>4. g = [i \in 1..m |-> IF i <= n THEN tr[i].t ELSE g[i - 1] + d(i)]
    BY <2>2, <2>3 DEF Recursive
  <2> QED BY <2>4
<1>5. time = [i \in 1..m |-> IF i <= n THEN tr[i].t ELSE time[i - 1] + d(i)] BY <1>4 DEF d
<1> HIDE DEF time
<1>6. ASSUME NEW i \in 1..m
      PROVE  \/ i \in 1..n /\ time[i] \in Int
             \/ i # 1 /\ (time[i - 1] \in Int => time[i] \in Int)
  <2>1. CASE i <= n BY <1>2, <1>5, <2>1
  <2>2. CASE ~(i <= n)
    <3>1. time[i] = time[i - 1] + d(i) /\ d(i) \in Int /\ i # 1 BY <1>3, <1>5, <2>2
    <3> QED BY <3>1
  <2> QED BY <2>1, <2>2
<1>7. \A i \in 1..m : time[i] \in Int BY <1>6, IntValues
<1> QED BY <1>1, <1>7, RetimedIs

LEMMA PrepareIs ==
  ASSUME NEW m \in Nat, NEW n \in 1..m, NEW tr \in [1..m -> Point]
  PROVE  LET r == Prepare(tr, n) IN r \in [1..m -> Point] /\ SamePath(r, tr, m)
<1> DEFINE between(p, q) == IF q.t > p.t THEN q.t - p.t ELSE Travel(p, q)
           time[i \in 1..n] == IF i = n THEN Cycle ELSE time[i + 1] - between(tr[i], tr[i + 1])
           d(i) == between(tr[i], tr[i + 1])
           b == [i \in 1..n |-> Cycle]
           G == [i \in 1..n |-> [x \in Int |-> IF i = 1 THEN x ELSE x - d(n + 1 - i)]]
           set == [i \in DOMAIN tr |-> IF i <= n THEN time[i] ELSE tr[i].t]
<1>1. Prepare(tr, n) = Retimed(tr, set) BY DEF Prepare
<1>2. \A i \in 1..m : tr[i].t \in Int BY DEF Point
<1>3. ASSUME NEW i \in 1..(n - 1) PROVE d(i) \in Int
  <2>1. tr[i] \in Point /\ tr[i + 1] \in Point
    <3>1. i \in 1..m /\ i + 1 \in 1..m OBVIOUS
    <3> QED BY <3>1
  <2>2. Travel(tr[i], tr[i + 1]) \in Int BY <2>1, TravelType
  <2>3. tr[i].t \in Int /\ tr[i + 1].t \in Int BY <2>1 DEF Point
  <2> QED BY <2>2, <2>3
<1> HIDE DEF d
<1>4. \E f : f = [i \in 1..n |-> IF i = n THEN Cycle ELSE f[i + 1] - d(i)]
  <2>1. b \in [1..n -> Int] /\ G \in [1..n -> [Int -> Int]]
    <3>1. \A i \in 1..n, x \in Int : (IF i = 1 THEN x ELSE x - d(n + 1 - i)) \in Int
      <4> SUFFICES ASSUME NEW i \in 1..n, NEW x \in Int, i # 1
                   PROVE  x - d(n + 1 - i) \in Int
        OBVIOUS
      <4>1. n + 1 - i \in 1..(n - 1) OBVIOUS
      <4>2. d(n + 1 - i) \in Int BY <1>3, <4>1
      <4> QED BY <4>2
    <3> QED BY <3>1, ProcessorAssumption
  <2>2. PICK g : Recursive(g, n, {1}, b, G)
    <3> HIDE DEF b, G
    <3>1. n \in Nat /\ \A i \in (1..n) \ {1} : i # 1 OBVIOUS
    <3> QED BY <2>1, <3>1, Recursion
  <2> DEFINE h == [i \in 1..n |-> g[n + 1 - i]]
  <2>3. ASSUME NEW i \in 1..n
        PROVE  h[i] = IF i = n THEN Cycle ELSE h[i + 1] - d(i)
    <3>1. n + 1 - i \in 1..n /\ h[i] = g[n + 1 - i] OBVIOUS
    <3>2. g[n + 1 - i] = IF n + 1 - i \in {1} THEN b[n + 1 - i] ELSE G[n + 1 - i][g[n + 1 - i - 1]]
      BY <2>2, <3>1 DEF Recursive
    <3>3. CASE i = n BY <3>1, <3>2, <3>3
    <3>4. CASE i # n
      <4>1. i + 1 \in 1..n /\ n + 1 - (i + 1) = n + 1 - i - 1 /\ n + 1 - i # 1 BY <3>4
      <4>2. h[i + 1] = g[n + 1 - i - 1] BY <4>1
      <4>3. h[i + 1] \in Int
        <5>1. n + 1 - i - 1 \in 1..n BY <4>1
        <5> HIDE DEF h
        <5> QED BY <2>2, <4>2, <5>1 DEF Recursive
      <4>4. h[i] = G[n + 1 - i][h[i + 1]] BY <3>1, <3>2, <4>1, <4>2
      <4>5. n + 1 - (n + 1 - i) = i OBVIOUS
      <4> HIDE DEF h
      <4>6. G[n + 1 - i][h[i + 1]] = h[i + 1] - d(n + 1 - (n + 1 - i)) BY <3>1, <4>1, <4>3
      <4> QED BY <3>4, <4>4, <4>5, <4>6
    <3> QED BY <3>3, <3>4
  <2>4. h = [i \in 1..n |-> IF i = n THEN Cycle ELSE h[i + 1] - d(i)] BY <2>3
  <2> QED BY <2>4
<1>5. time = [i \in 1..n |-> IF i = n THEN Cycle ELSE time[i + 1] - d(i)] BY <1>4 DEF d
<1> HIDE DEF time
<1>6. \A i \in 1..n : time[i] \in Int
  <2> DEFINE r == [i \in 1..n |-> time[n + 1 - i]]
  <2>1. ASSUME NEW i \in 1..n
        PROVE  \/ i \in {1} /\ r[i] \in Int
               \/ i # 1 /\ (r[i - 1] \in Int => r[i] \in Int)
    <3>1. n + 1 - i \in 1..n /\ r[i] = time[n + 1 - i] OBVIOUS
    <3>2. CASE i = 1 BY <1>5, <3>1, <3>2, ProcessorAssumption
    <3>3. CASE i # 1
      <4>1. n + 1 - i # n /\ n + 1 - i \in 1..(n - 1) /\ i - 1 \in 1..n /\ n + 1 - i + 1 = n + 1 - (i - 1)
        BY <3>3
      <4>2. r[i - 1] = time[n + 1 - i + 1] BY <4>1
      <4>3. time[n + 1 - i] = time[n + 1 - i + 1] - d(n + 1 - i) BY <1>5, <3>1, <4>1
      <4>4. d(n + 1 - i) \in Int BY <1>3, <4>1
      <4> HIDE DEF r
      <4> QED BY <3>1, <3>3, <4>2, <4>3, <4>4
    <3> QED BY <3>2, <3>3
  <2>2. \A i \in 1..n : r[i] \in Int
    <3> HIDE DEF r
    <3>1. n \in Nat OBVIOUS
    <3> QED BY <2>1, <3>1, IntValues
  <2>3. ASSUME NEW i \in 1..n PROVE time[i] \in Int
    <3>1. n + 1 - i \in 1..n /\ n + 1 - (n + 1 - i) = i OBVIOUS
    <3>2. r[n + 1 - i] = time[i] BY <3>1
    <3> HIDE DEF r
    <3> QED BY <2>2, <3>1, <3>2
  <2> QED BY <2>3
<1>7. \A i \in 1..m : set[i] \in Int BY <1>2, <1>6
<1> HIDE DEF set
<1> QED BY <1>1, <1>7, RetimedIs

(***************************************************************************)
(* Stopping at a line                                                      *)
(***************************************************************************)
(* The m points of tr go on along the route, and those behind the first n    *)
(* are no duplicates.                                                      *)
Onward(tr, n, m) ==
  /\ \A i \in 2..m : tr[i].s > tr[i - 1].s
  /\ \A i \in (n + 1)..m : tr[i].s - tr[i - 1].s > Eps

(* The l points of d go on along the route: they are the first n of tr, and   *)
(* each further one stands still or is the point of tr; if no point of tr is  *)
(* right before the line, none of them is a duplicate.                     *)
Halted(d, l, tr, n, m, line) ==
  /\ l > n /\ d \in [1..l -> Point]
  /\ \A i \in 1..n : d[i].s = tr[i].s /\ d[i].v = tr[i].v
  /\ \A i \in (n + 1)..l : \/ d[i].v = 0
                           \/ i <= m /\ d[i].s = tr[i].s /\ d[i].v = tr[i].v
  /\ \A i \in 2..l : d[i].s > d[i - 1].s
  /\ (\A i \in (n + 1)..m : line - tr[i].s \notin 1..Eps) =>
       \A i \in (n + 1)..l : d[i].s - d[i - 1].s > Eps

LEMMA UntouchedHalts ==
  ASSUME NEW m \in Nat, NEW n \in 1..(m - 1), NEW tr \in [1..m -> Point],
         Onward(tr, n, m), NEW line
  PROVE  Halted(tr, m, tr, n, m, line)
BY DEF Halted, Onward

(* A point given another speed.                                            *)
LEMMA Respeed ==
  ASSUME NEW p \in Point, NEW x \in 0..MaxSpeed
  PROVE  LET q == [p EXCEPT !.v = x] IN q \in Point /\ q.s = p.s /\ q.v = x /\ q.t = p.t
BY DEF Point

LEMMA TruncateHalts ==
  ASSUME NEW m \in Nat, NEW n \in 1..(m - 1), NEW tr \in [1..m -> Point],
         Onward(tr, n, m), NEW line \in Int, line >= tr[n].s + Tiny
  PROVE  \E l \in Nat : Halted(TruncateAtStop(tr, n, line), l, tr, n, m, line)
<1> DEFINE K == {i \in (n + 1)..m : tr[i].s >= line}
           k == Min(K)
           shift == IF tr[k].s > line + Eps THEN 1 ELSE 0
           L == {k - shift} \cup {i \in k..m : tr[i].s <= line + TailLength}
           last == Max(L)
           stop == [s |-> line, v |-> 0, t |-> tr[k].t]
           l == last + shift
           point(i) == IF i < k THEN tr[i] ELSE IF i = k THEN stop ELSE [tr[i - shift] EXCEPT !.v = 0]
           d == TruncateAtStop(tr, n, line)
<1>0. /\ Eps \in Nat /\ Tiny \in Nat /\ Eps < Tiny /\ TailLength \in Nat /\ MaxSpeed \in Nat
      /\ \A i \in 1..m : tr[i] \in Point /\ tr[i].s \in Int /\ tr[i].t \in Int /\ tr[i].v \in 0..MaxSpeed
  BY ProcessorAssumption DEF Point
<1>1. Len(tr) = m BY LenOf
<1>2. CASE line >= End(tr).s
  <2>1. d = tr BY <1>2 DEF TruncateAtStop
  <2> QED BY <2>1, UntouchedHalts
<1>3. CASE ~(line >= End(tr).s)
  <2>1. End(tr) = tr[m] /\ m \in 1..m BY <1>1 DEF End
  <2>2. m \in K BY <1>0, <1>3, <2>1
  <2>3. k \in K /\ \A i \in K : k <= i
    <3>1. K \in SUBSET Nat /\ K # {} BY <2>2
    <3> HIDE DEF K
    <3> QED BY <3>1, MinIs
  <2>4. k \in (n + 1)..m /\ tr[k].s >= line BY <2>3
  <2>5. ASSUME NEW i \in (n + 1)..m, i < k PROVE tr[i].s < line
    <3>1. tr[i].s \in Int /\ ~(k <= i) BY <1>0, <2>4, <2>5
    <3>2. i \notin K BY <2>3, <3>1
    <3> QED BY <3>1, <3>2
  <2> HIDE DEF k
  <2>6. shift \in {0, 1} /\ (shift = 1 <=> tr[k].s > line + Eps) OBVIOUS
  <2> HIDE DEF shift
  <2>7. last \in L /\ \A i \in L : i <= last
    <3>1. L \in SUBSET (0..m) /\ L # {} BY <2>4, <2>6
    <3> HIDE DEF L
    <3> QED BY <3>1, MaxIs
  <2>8. last \in Nat /\ last <= m /\ k <= last + shift BY <2>4, <2>6, <2>7
  <2> HIDE DEF last, L
  <2>9. d = [i \in 1..l |-> point(i)]
    <3>1. ~(n + 1 > Len(tr)) BY <1>1
    <3>2. TruncateAtStop(tr, n, line) =
            LET kk == Min({i \in (n + 1)..m : tr[i].s >= line})
                sh == IF tr[kk].s > line + Eps THEN 1 ELSE 0
                la == Max({kk - sh} \cup {i \in kk..m : tr[i].s <= line + TailLength})
            IN  [i \in 1..(la + sh) |->
                   IF i < kk THEN tr[i]
                   ELSE IF i = kk THEN [s |-> line, v |-> 0, t |-> tr[kk].t]
                   ELSE [tr[i - sh] EXCEPT !.v = 0]]
      BY <1>1, <1>3, <3>1, Zenon DEF TruncateAtStop
    <3> QED BY <3>2 DEF last, L, shift, k
  <2> HIDE DEF d
  <2>10. l \in Nat /\ l > n /\ k <= l /\ l = last + shift BY <2>4, <2>6, <2>8
  <2> HIDE DEF l
  <2>11. ASSUME NEW i \in 1..l
         PROVE  /\ d[i] = point(i)
                /\ i < k => i \in 1..m /\ d[i] = tr[i]
                /\ i = k => d[i] = stop
                /\ i > k => i - shift \in 1..m /\ d[i] = [tr[i - shift] EXCEPT !.v = 0]
    <3>1. d[i] = point(i) BY <2>9
    <3>2. i > k => i - shift \in 1..m BY <2>4, <2>6, <2>8, <2>10
    <3> QED BY <3>1, <3>2, <2>4
  <2>12. ASSUME NEW i \in 1..l
         PROVE  /\ d[i] \in Point
                /\ i < k => d[i].s = tr[i].s /\ d[i].v = tr[i].v
                /\ i = k => d[i].s = line /\ d[i].v = 0
                /\ i > k => d[i].s = tr[i - shift].s /\ d[i].v = 0
    <3>1. stop \in Point /\ stop.s = line /\ stop.v = 0 BY <1>0, <2>4 DEF Point
    <3>2. ASSUME NEW j \in 1..m
          PROVE  LET p == [tr[j] EXCEPT !.v = 0] IN p \in Point /\ p.s = tr[j].s /\ p.v = 0
      BY <1>0, Respeed
    <3> HIDE DEF stop, point
    <3>3. CASE i < k
      <4>1. d[i] = tr[i] /\ i \in 1..m BY <2>11, <3>3
      <4> QED BY <1>0, <2>4, <3>3, <4>1
    <3>4. CASE i = k
      <4>1. d[i] = stop BY <2>11, <3>4
      <4> QED BY <2>4, <3>1, <3>4, <4>1
    <3>5. CASE i > k
      <4>1. i - shift \in 1..m /\ d[i] = [tr[i - shift] EXCEPT !.v = 0] BY <2>11, <3>5
      <4>2. d[i] \in Point /\ d[i].s = tr[i - shift].s /\ d[i].v = 0 BY <3>2, <4>1
      <4> QED BY <2>4, <3>5, <4>2
    <3> QED BY <2>4, <3>3, <3>4, <3>5
  <2> HIDE DEF stop, point
  <2>13. ASSUME NEW i \in 2..l
         PROVE  /\ d[i].s > d[i - 1].s
                /\ (\A j \in (n + 1)..m : line - tr[j].s \notin 1..Eps) /\ i > n =>
                     d[i].s - d[i - 1].s > Eps
    <3>0. i \in 1..l /\ i - 1 \in 1..l BY <2>10
    <3>1. CASE i < k
      <4>1. d[i].s = tr[i].s /\ d[i - 1].s = tr[i - 1].s /\ i \in 2..m BY <2>4, <2>12, <3>0, <3>1
      <4>2. i > n => i \in (n + 1)..m BY <4>1
      <4> QED BY <4>1, <4>2 DEF Onward
    <3>2. CASE i = k
      <4>1. d[i].s = line /\ d[i - 1].s = tr[k - 1].s /\ k - 1 \in 1..m BY <2>4, <2>12, <3>0, <3>2
      <4>2. CASE k - 1 = n
        <5>1. tr[k - 1].s \in Int /\ line >= tr[k - 1].s + Tiny BY <1>0, <4>1, <4>2
        <5> QED BY <1>0, <4>1, <5>1
      <4>3. CASE k - 1 # n
        <5>1. k - 1 \in (n + 1)..m /\ k - 1 < k BY <2>4, <4>3
        <5>2. tr[k - 1].s < line /\ tr[k - 1].s \in Int BY <1>0, <2>5, <4>1, <5>1
        <5>3. line - tr[k - 1].s \notin 1..Eps => line - tr[k - 1].s > Eps BY <1>0, <5>2
        <5> QED BY <4>1, <5>1, <5>2, <5>3
      <4> QED BY <4>2, <4>3
    <3>3. CASE i = k + 1
      <4>0. i > k /\ i - 1 = k BY <2>4, <3>3
      <4>1. d[i].s = tr[k + 1 - shift].s /\ d[i - 1].s = line 
        <5>1. d[i].s = tr[i - shift].s BY <2>12, <3>0, <4>0
        <5>2. d[i - 1].s = line BY <2>12, <3>0, <4>0
        <5>3. i - shift = k + 1 - shift BY <2>4, <2>6, <3>3
        <5> QED BY <5>1, <5>2, <5>3
      <4>2. CASE shift = 1
        <5>1. k + 1 - shift = k BY <2>4, <4>2
        <5>2. tr[k].s > line + Eps /\ tr[k].s \in Int BY <1>0, <2>4, <2>6, <4>2
        <5> QED BY <1>0, <4>1, <5>1, <5>2
      <4>3. CASE shift = 0
        <5>1. k + 1 - shift = k + 1 /\ k + 1 \in (n + 1)..m BY <2>4, <2>8, <2>10, <3>3, <4>3
        <5>2. tr[k + 1].s - tr[k + 1 - 1].s > Eps
          <6>1. \A j \in (n + 1)..m : tr[j].s - tr[j - 1].s > Eps BY DEF Onward
          <6>2. k + 1 \in (n + 1)..m BY <5>1
          <6> QED BY <2>4, <6>1, <6>2
        <5>3. k + 1 - 1 = k /\ tr[k].s \in Int /\ tr[k + 1].s \in Int /\ k \in 1..m BY <1>0, <2>4, <5>1
        <5> QED BY <1>0, <2>4, <4>1, <5>1, <5>2, <5>3
      <4> QED BY <2>6, <4>2, <4>3
    <3>4. CASE i > k + 1
      <4>1. d[i].s = tr[i - shift].s /\ d[i - 1].s = tr[i - 1 - shift].s BY <2>4, <2>12, <3>0, <3>4
      <4>2. i - shift \in (n + 1)..m /\ i - 1 - shift = i - shift - 1 /\ i - 1 - shift \in 1..m
        BY <2>4, <2>6, <2>8, <2>10, <3>4
      <4>3. tr[i - shift].s - tr[i - shift - 1].s > Eps BY <4>2 DEF Onward
      <4>4. tr[i - shift].s \in Int /\ tr[i - shift - 1].s \in Int BY <1>0, <4>2
      <4> QED BY <1>0, <4>1, <4>2, <4>3, <4>4
    <3> QED BY <2>4, <3>1, <3>2, <3>3, <3>4
  <2>14. d \in [1..l -> Point]
    <3>1. d = [i \in 1..l |-> d[i]] BY <2>9
    <3> QED BY <2>12, <3>1
  <2>15. \A i \in 1..n : d[i].s = tr[i].s /\ d[i].v = tr[i].v
    <3>1. \A i \in 1..n : i \in 1..l /\ i < k BY <2>4, <2>10
    <3> QED BY <2>12, <3>1
  <2>16. \A i \in (n + 1)..l : \/ d[i].v = 0
                               \/ i <= m /\ d[i].s = tr[i].s /\ d[i].v = tr[i].v
    <3>1. \A i \in (n + 1)..l : i \in 1..l /\ (i < k => i <= m) BY <2>4
    <3>2. \A i \in (n + 1)..l : i < k \/ i = k \/ i > k BY <2>4
    <3> QED BY <2>12, <3>1, <3>2
  <2>17. (\A i \in (n + 1)..m : line - tr[i].s \notin 1..Eps) =>
           \A i \in (n + 1)..l : d[i].s - d[i - 1].s > Eps
    <3>1. \A i \in (n + 1)..l : i \in 2..l /\ i > n OBVIOUS
    <3> QED BY <2>13, <3>1
  <2>18. \A i \in 2..l : d[i].s > d[i - 1].s BY <2>13
  <2>19. Halted(d, l, tr, n, m, line) BY <2>10, <2>14, <2>15, <2>16, <2>17, <2>18 DEF Halted
  <2> QED BY <2>10, <2>19 DEF d
<1> QED BY <1>2, <1>3

LEMMA RetimedHalts ==
  ASSUME NEW l \in Nat, NEW d, NEW e \in [1..l -> Point], NEW tr, NEW m \in Nat, NEW n \in 1..m,
         NEW line, Halted(d, l, tr, n, m, line), SamePath(e, d, l)
  PROVE  Halted(e, l, tr, n, m, line)
<1>1. l > n BY DEF Halted
<1>2. \A i \in 1..l : e[i].s = d[i].s /\ e[i].v = d[i].v BY DEF SamePath
<1>3. /\ \A i \in 1..n : i \in 1..l
      /\ \A i \in (n + 1)..l : i \in 1..l /\ i - 1 \in 1..l
      /\ \A i \in 2..l : i \in 1..l /\ i - 1 \in 1..l
  BY <1>1
<1>4. \A i \in 1..n : e[i].s = tr[i].s /\ e[i].v = tr[i].v BY <1>2, <1>3 DEF Halted
<1>5. \A i \in (n + 1)..l : \/ e[i].v = 0
                            \/ i <= m /\ e[i].s = tr[i].s /\ e[i].v = tr[i].v
  BY <1>2, <1>3 DEF Halted
<1>6. \A i \in 2..l : e[i].s > e[i - 1].s BY <1>2, <1>3 DEF Halted
<1>7. (\A i \in (n + 1)..m : line - tr[i].s \notin 1..Eps) =>
        \A i \in (n + 1)..l : e[i].s - e[i - 1].s > Eps
  BY <1>2, <1>3 DEF Halted
<1> QED BY <1>1, <1>4, <1>5, <1>6, <1>7 DEF Halted

(* The vehicle stands at the last point.                                    *)
LEMMA ExtendStopTimeHalts ==
  ASSUME NEW l \in Nat, NEW d, NEW tr, NEW m \in Nat, NEW n \in 1..m, NEW line,
         Halted(d, l, tr, n, m, line)
  PROVE  Halted(ExtendStopTime(d, n), l, tr, n, m, line)
<1> DEFINE e == ExtendStopTime(d, n)
           start == d[n]
           braking == Most(1, (2 * (d[l].s - start.s)) \div Most(1, start.v))
           until == start.t + (IF l <= n + 1 /\ start.v > 0 THEN braking ELSE StopHorizon)
           stand == [s |-> d[l].s, v |-> 0, t |-> Most(d[l].t, until)]
<1>1. l > n /\ d \in [1..l -> Point] /\ n \in 1..l /\ l \in 1..l BY DEF Halted
<1>2. Len(d) = l BY <1>1, LenOf
<1>3. e = [d EXCEPT ![l] = stand]
  <2>1. ~(n + 1 > Len(d)) /\ End(d) = d[l] BY <1>1, <1>2 DEF End
  <2> QED BY <1>2, <2>1, Zenon DEF ExtendStopTime
<1>4. start \in Point /\ d[l] \in Point BY <1>1
<1>5. until \in Int
  <2>1. start.s \in Int /\ start.t \in Int /\ start.v \in Int /\ d[l].s \in Int
    BY <1>4, ProcessorAssumption DEF Point
  <2>2. Most(1, start.v) \in Int /\ Most(1, start.v) > 0 BY <2>1 DEF Most
  <2>3. 2 * (d[l].s - start.s) \in Int BY <2>1
  <2>4. \A a, b \in Int : b > 0 => a \div b \in Int OBVIOUS
  <2>5. (2 * (d[l].s - start.s)) \div Most(1, start.v) \in Int BY <2>2, <2>3, <2>4
  <2>6. braking \in Int BY <2>5 DEF Most
  <2> HIDE DEF braking
  <2> QED BY <2>1, <2>6, ProcessorAssumption
<1> HIDE DEF until
<1>6. stand \in Point /\ stand.s = d[l].s /\ stand.v = 0
  <2>1. Most(d[l].t, until) \in Int BY <1>4, <1>5 DEF Most, Point
  <2>2. d[l].s \in Int /\ 0 \in 0..MaxSpeed BY <1>4, ProcessorAssumption DEF Point
  <2> QED BY <2>1, <2>2 DEF Point
<1> HIDE DEF stand, e
<1>7. e \in [1..l -> Point] BY <1>1, <1>3, <1>6
<1>8. ASSUME NEW i \in 1..l
      PROVE  e[i].s = d[i].s /\ (i # l => e[i].v = d[i].v) /\ (i = l => e[i].v = 0)
  <2>1. CASE i = l
    <3>1. e[i] = stand BY <1>1, <1>3, <2>1
    <3> QED BY <1>6, <2>1, <3>1
  <2>2. CASE i # l
    <3>1. e[i] = d[i] BY <1>1, <1>3, <2>2
    <3> QED BY <2>2, <3>1
  <2> QED BY <2>1, <2>2
<1>9. /\ \A i \in 1..n : i \in 1..l /\ i # l
      /\ \A i \in (n + 1)..l : i \in 1..l /\ i - 1 \in 1..l
      /\ \A i \in 2..l : i \in 1..l /\ i - 1 \in 1..l
  BY <1>1
<1>10. \A i \in 1..n : e[i].s = tr[i].s /\ e[i].v = tr[i].v BY <1>8, <1>9 DEF Halted
<1>11. \A i \in (n + 1)..l : \/ e[i].v = 0
                             \/ i <= m /\ e[i].s = tr[i].s /\ e[i].v = tr[i].v
  BY <1>8, <1>9 DEF Halted
<1>12. \A i \in 2..l : e[i].s > e[i - 1].s BY <1>8, <1>9 DEF Halted
<1>13. (\A i \in (n + 1)..m : line - tr[i].s \notin 1..Eps) =>
         \A i \in (n + 1)..l : e[i].s - e[i - 1].s > Eps
  BY <1>8, <1>9 DEF Halted
<1> QED BY <1>1, <1>7, <1>10, <1>11, <1>12, <1>13 DEF Halted, e

(* What is made to stop at a line halts there, and its times increase.      *)
LEMMA StoppingHalts ==
  ASSUME NEW m \in Nat, NEW n \in 1..(m - 1), NEW tr \in [1..m -> Point],
         Onward(tr, n, m), NEW line \in Int, line >= tr[n].s + Tiny
  PROVE  \E l \in Nat : /\ Halted(Stopping(tr, n, line), l, tr, n, m, line)
                        /\ \A i \in 2..l : Stopping(tr, n, line)[i].t > Stopping(tr, n, line)[i - 1].t
<1> DEFINE a == TruncateAtStop(tr, n, line)
           b == RecomputeTiming(a, n)
           c == ExtendStopTime(b, n)
           d == Increasing(c)
<1>0. n \in 1..m OBVIOUS
<1>1. PICK l \in Nat : Halted(a, l, tr, n, m, line) BY TruncateHalts
<1>2. l > n /\ n \in 1..l /\ l \in Nat \ {0} /\ a \in [1..l -> Point] BY <1>1 DEF Halted
<1>3. Stopping(tr, n, line) = d BY DEF Stopping
<1> HIDE DEF a
<1>4. b \in [1..l -> Point] /\ SamePath(b, a, l) BY <1>2, RecomputeTimingIs
<1>5. Halted(b, l, tr, n, m, line) BY <1>0, <1>1, <1>4, RetimedHalts
<1> HIDE DEF b
<1>6. Halted(c, l, tr, n, m, line) BY <1>0, <1>5, ExtendStopTimeHalts
<1>7. c \in [1..l -> Point] BY <1>6 DEF Halted
<1> HIDE DEF c
<1>8. d \in [1..l -> Point] /\ SamePath(d, c, l) /\ \A i \in 2..l : d[i].t > d[i - 1].t
  BY <1>2, <1>7, IncreasingIs
<1>9. Halted(d, l, tr, n, m, line) BY <1>0, <1>6, <1>8, RetimedHalts
<1> QED BY <1>3, <1>8, <1>9

-----------------------------------------------------------------------------
(***************************************************************************)
(* Slowing down                                                            *)
(***************************************************************************)
(* The m points of q lie where those of tr do; the first n keep their speed,  *)
(* the others are no faster.                                               *)
Slowed(q, tr, n, m) ==
  /\ q \in [1..m -> Point]
  /\ \A i \in 1..m : q[i].s = tr[i].s
  /\ \A i \in 1..n : q[i].v = tr[i].v
  /\ \A i \in (n + 1)..m : q[i].v <= tr[i].v

LEMMA StopLimitType ==
  ASSUME NEW decel \in Nat, NEW room \in Nat
  PROVE  StopLimit(decel, room) \in 0..MaxSpeed
<1> DEFINE S == {v \in 0..MaxSpeed : v * v <= decel * room}
<1>1. decel * room \in Nat /\ MaxSpeed \in Nat BY ProcessorAssumption
<1>2. 0 \in S BY <1>1
<1>3. S \in SUBSET (0..MaxSpeed) /\ S # {} BY <1>2
<1> HIDE DEF S
<1>4. Max(S) \in S BY <1>1, <1>3, MaxIs
<1> QED BY <1>3, <1>4 DEF StopLimit, S

LEMMA RampType ==
  ASSUME NEW anchor \in Point, NEW line \in Int, NEW s \in Int
  PROVE  Ramp(anchor, line, s) \in Nat
<1> DEFINE room == Most(1, line - anchor.s)
           rest == room - Least(room, Most(0, s - anchor.s))
<1>1. anchor.s \in Int /\ anchor.v \in Nat BY ProcessorAssumption DEF Point
<1>2. room \in Nat \ {0} BY <1>1 DEF Most
<1> HIDE DEF room
<1>3. rest \in Nat BY <1>1, <1>2 DEF Least, Most
<1> HIDE DEF rest
<1>4. \A x, y \in Nat : x * y \in Nat OBVIOUS
<1>5. \A x \in Nat, y \in Nat \ {0} : x \div y \in Nat OBVIOUS
<1>6. anchor.v * rest \in Nat BY <1>1, <1>3, <1>4
<1>7. (anchor.v * rest) \div room \in Nat BY <1>2, <1>5, <1>6
<1> QED BY <1>7 DEF Ramp, rest, room

LEMMA StopLimitAtType ==
  ASSUME NEW p \in Point, NEW anchor \in Point, NEW line \in Int
  PROVE  /\ StopLimitAt(p, anchor, line) \in Nat
         /\ StopLimitAt(p, anchor, line) <= p.v
         /\ p.s >= line => StopLimitAt(p, anchor, line) = 0
<1> DEFINE S == {p.v, Ramp(anchor, line, p.s), StopLimit(Brake, line - p.s)}
<1>1. p.s \in Int /\ p.v \in Nat BY ProcessorAssumption DEF Point
<1>2. CASE p.s >= line BY <1>1, <1>2 DEF StopLimitAt
<1>3. CASE ~(p.s >= line)
  <2>1. StopLimit(Brake, line - p.s) \in Nat
    <3>1. line - p.s \in Nat /\ Brake \in Nat BY <1>1, <1>3, ProcessorAssumption
    <3>2. StopLimit(Brake, line - p.s) \in 0..MaxSpeed BY <3>1, StopLimitType
    <3> QED BY <3>2, ProcessorAssumption
  <2>2. Ramp(anchor, line, p.s) \in Nat BY <1>1, RampType
  <2>3. S \in SUBSET Nat /\ S # {} /\ p.v \in S BY <1>1, <2>1, <2>2
  <2>4. StopLimitAt(p, anchor, line) = Min(S) BY <1>3 DEF StopLimitAt
  <2> HIDE DEF S
  <2>5. Min(S) \in S /\ Min(S) <= p.v BY <2>3, MinIs
  <2> QED BY <1>3, <2>3, <2>4, <2>5
<1> QED BY <1>2, <1>3

(* applyVelocityConstraintAction with a stop line leaves no speed at or       *)
(* behind the line.                                                        *)
LEMMA StopSpeedSlows ==
  ASSUME NEW m \in Nat, NEW n \in 1..(m - 1), NEW tr \in [1..m -> Point], NEW line \in Int
  PROVE  /\ Slowed(StopSpeed(tr, n, line), tr, n, m)
         /\ \A i \in (n + 1)..m : tr[i].s >= line => StopSpeed(tr, n, line)[i].v = 0
<1> DEFINE q == StopSpeed(tr, n, line)
           at(j) == StopLimitAt(tr[j], tr[n], line)
           S(i) == {tr[n].v} \cup {at(j) : j \in (n + 1)..i}
<1>1. q = [i \in 1..m |-> IF i < n + 1 THEN tr[i] ELSE [tr[i] EXCEPT !.v = Min(S(i))]]
  <2>1. Len(tr) = m /\ DOMAIN tr = 1..m BY LenOf
  <2>2. MutableFrom(tr, n) = n + 1 BY <2>1 DEF MutableFrom, Least
  <2>3. tr[Most(1, MutableFrom(tr, n) - 1)] = tr[n] BY <2>2 DEF Most
  <2> QED BY <2>1, <2>2, <2>3, Zenon DEF StopSpeed
<1>2. \A j \in 1..m : /\ tr[j] \in Point /\ tr[j].v \in 0..MaxSpeed /\ tr[j].v \in Nat
                      /\ at(j) \in Nat /\ at(j) <= tr[j].v
                      /\ tr[j].s >= line => at(j) = 0
  <2>1. \A j \in 1..m : tr[j] \in Point OBVIOUS
  <2>2. \A j \in 1..m : tr[j].v \in 0..MaxSpeed /\ tr[j].v \in Nat BY ProcessorAssumption DEF Point
  <2>3. tr[n] \in Point OBVIOUS
  <2> QED BY <2>1, <2>2, <2>3, StopLimitAtType
<1> HIDE DEF at
<1>3. ASSUME NEW i \in (n + 1)..m
      PROVE  /\ Min(S(i)) \in 0..MaxSpeed /\ Min(S(i)) <= tr[i].v
             /\ tr[i].s >= line => Min(S(i)) = 0
  <2>0. i \in 1..m /\ n \in 1..m /\ \A j \in (n + 1)..i : j \in 1..m OBVIOUS
  <2>1. S(i) \in SUBSET Nat /\ tr[n].v \in S(i) /\ at(i) \in S(i)
    <3>1. \A j \in (n + 1)..i : at(j) \in Nat BY <1>2, <2>0
    <3> QED BY <1>2, <2>0, <3>1
  <2> HIDE DEF S
  <2>2. Min(S(i)) \in Nat /\ Min(S(i)) <= tr[n].v /\ Min(S(i)) <= at(i) BY <2>1, MinIs
  <2>3. tr[n].v \in 0..MaxSpeed BY <1>2, <2>0
  <2>4. at(i) <= tr[i].v /\ at(i) \in Nat /\ tr[i].v \in Nat /\ (tr[i].s >= line => at(i) = 0)
    BY <1>2, <2>0
  <2>5. tr[i].s >= line => Min(S(i)) = 0 BY <2>2, <2>4
  <2>6. Min(S(i)) <= tr[i].v BY <2>2, <2>4
  <2>7. Min(S(i)) \in 0..MaxSpeed
    <3>1. MaxSpeed \in Nat BY ProcessorAssumption
    <3> QED BY <2>2, <2>3, <3>1
  <2> QED BY <2>5, <2>6, <2>7
<1> HIDE DEF S, q
<1>4. ASSUME NEW i \in 1..m
      PROVE  /\ q[i] \in Point /\ q[i].s = tr[i].s
             /\ i <= n => q[i].v = tr[i].v
             /\ i > n => q[i].v = Min(S(i))
  <2>1. CASE i <= n
    <3>1. q[i] = tr[i] BY <1>1, <2>1
    <3> QED BY <1>2, <2>1, <3>1
  <2>2. CASE i > n
    <3>1. q[i] = [tr[i] EXCEPT !.v = Min(S(i))] BY <1>1, <2>2
    <3>2. Min(S(i)) \in 0..MaxSpeed /\ tr[i] \in Point BY <1>2, <1>3, <2>2
    <3>3. q[i] \in Point /\ q[i].s = tr[i].s /\ q[i].v = Min(S(i)) BY <3>1, <3>2, Respeed
    <3> QED BY <2>2, <3>3
  <2> QED BY <2>1, <2>2
<1>5. q \in [1..m -> Point] BY <1>1, <1>4
<1>6. \A i \in (n + 1)..m : i \in 1..m /\ i > n OBVIOUS
<1>7. \A i \in 1..n : i \in 1..m /\ i <= n OBVIOUS
<1>8. Slowed(q, tr, n, m) BY <1>3, <1>4, <1>5, <1>6, <1>7 DEF Slowed
<1> QED BY <1>3, <1>4, <1>6, <1>8 DEF q

(* applyVelocityConstraintAction with a cap.                                *)
LEMMA CapSpeedSlows ==
  ASSUME NEW m \in Nat, NEW n \in 1..(m - 1), NEW tr \in [1..m -> Point], NEW cap \in Nat
  PROVE  /\ Slowed(CapSpeed(tr, n, cap), tr, n, m)
         /\ \A i \in (n + 1)..m : CapSpeed(tr, n, cap)[i].v <= cap
<1> DEFINE q == CapSpeed(tr, n, cap)
<1>1. q = [i \in 1..m |-> IF i < n + 1 THEN tr[i] ELSE [tr[i] EXCEPT !.v = Least(tr[i].v, cap)]]
  <2>1. Len(tr) = m /\ DOMAIN tr = 1..m BY LenOf
  <2>2. MutableFrom(tr, n) = n + 1 BY <2>1 DEF MutableFrom, Least
  <2> QED BY <2>1, <2>2 DEF CapSpeed
<1> HIDE DEF q
<1>2. ASSUME NEW i \in 1..m
      PROVE  /\ q[i] \in Point /\ q[i].s = tr[i].s /\ q[i].v <= tr[i].v
             /\ i <= n => q[i].v = tr[i].v
             /\ i > n => q[i].v <= cap
  <2>1. tr[i] \in Point /\ tr[i].v \in 0..MaxSpeed /\ tr[i].v \in Nat
    BY ProcessorAssumption DEF Point
  <2>2. CASE i <= n
    <3>1. q[i] = tr[i] BY <1>1, <2>2
    <3> QED BY <2>1, <2>2, <3>1
  <2>3. CASE i > n
    <3>1. q[i] = [tr[i] EXCEPT !.v = Least(tr[i].v, cap)] BY <1>1, <2>3
    <3>2. Least(tr[i].v, cap) \in 0..MaxSpeed /\ Least(tr[i].v, cap) <= cap
          /\ Least(tr[i].v, cap) <= tr[i].v
      <4> DEFINE v == tr[i].v
      <4>1. v \in 0..MaxSpeed /\ v \in Nat /\ MaxSpeed \in Nat BY <2>1, ProcessorAssumption
      <4> HIDE DEF v
      <4>2. Least(v, cap) \in 0..MaxSpeed /\ Least(v, cap) <= cap /\ Least(v, cap) <= v
        BY <4>1 DEF Least
      <4> QED BY <4>2 DEF v
    <3>3. q[i] \in Point /\ q[i].s = tr[i].s /\ q[i].v = Least(tr[i].v, cap)
      BY <2>1, <3>1, <3>2, Respeed
    <3> QED BY <2>3, <3>2, <3>3
  <2> QED BY <2>2, <2>3
<1>3. q \in [1..m -> Point] BY <1>1, <1>2
<1>4. \A i \in (n + 1)..m : i \in 1..m /\ i > n OBVIOUS
<1>5. \A i \in 1..n : i \in 1..m /\ i <= n OBVIOUS
<1> QED BY <1>2, <1>3, <1>4, <1>5 DEF Slowed, q

(* A slowed trajectory goes on as the one it was made of.                   *)
LEMMA SlowedOnward ==
  ASSUME NEW m \in Nat, NEW n \in 1..(m - 1), NEW tr, NEW q, Onward(tr, n, m), Slowed(q, tr, n, m)
  PROVE  Onward(q, n, m)
<1>1. \A i \in 1..m : q[i].s = tr[i].s BY DEF Slowed
<1>2. \A i \in 2..m : i \in 1..m /\ i - 1 \in 1..m OBVIOUS
<1>3. \A i \in (n + 1)..m : i \in 1..m /\ i - 1 \in 1..m OBVIOUS
<1> QED BY <1>1, <1>2, <1>3 DEF Onward

-----------------------------------------------------------------------------
(***************************************************************************)
(* What apply() may return                                                 *)
(***************************************************************************)
(* The l points of d are the first n of tr, and each further one stands       *)
(* still or is the point of tr, no faster.                                 *)
Slower(d, l, tr, n, m) ==
  /\ l > n /\ d \in [1..l -> Point]
  /\ \A i \in 1..n : d[i].s = tr[i].s /\ d[i].v = tr[i].v
  /\ \A i \in (n + 1)..l : \/ d[i].v = 0
                           \/ i <= m /\ d[i].s = tr[i].s /\ d[i].v <= tr[i].v
  /\ \A i \in 2..l : d[i].s > d[i - 1].s

Apart(d, l, n) == \A i \in (n + 1)..l : d[i].s - d[i - 1].s > Eps

(* A line right behind none of the points that may change.                 *)
Clear(tr, n, m, line) == \A i \in (n + 1)..m : line - tr[i].s \notin 1..Eps

(* Besides, none of them moves at or behind the line, and times increase.   *)
Stops(d, l, tr, n, m, line) ==
  /\ Slower(d, l, tr, n, m)
  /\ \A i \in (n + 1)..l : d[i].s >= line => d[i].v = 0
  /\ \A i \in 2..l : d[i].t > d[i - 1].t
  /\ Clear(tr, n, m, line) => Apart(d, l, n)

(* Slowing down for a line and then stopping at it is a stop at the line.    *)
LEMMA SlowedStops ==
  ASSUME NEW m \in Nat, NEW n \in 1..(m - 1), NEW tr \in [1..m -> Point], Onward(tr, n, m),
         NEW line \in Int, line >= tr[n].s + Tiny, NEW q, Slowed(q, tr, n, m),
         \A i \in (n + 1)..m : tr[i].s >= line => q[i].v = 0
  PROVE  \E l \in Nat : Stops(Stopping(q, n, line), l, tr, n, m, line)
<1> DEFINE d == Stopping(q, n, line)
<1>1. Onward(q, n, m) BY SlowedOnward
<1>2. q \in [1..m -> Point] /\ q[n].s = tr[n].s BY DEF Slowed
<1>3. PICK l \in Nat : Halted(d, l, q, n, m, line) /\ \A i \in 2..l : d[i].t > d[i - 1].t
  BY <1>1, <1>2, StoppingHalts
<1> HIDE DEF d
<1>4. ASSUME NEW i \in (n + 1)..l
      PROVE  \/ d[i].v = 0
             \/ i <= m /\ d[i].s = tr[i].s /\ d[i].v <= tr[i].v /\ (d[i].s >= line => d[i].v = 0)
  <2>1. CASE d[i].v = 0 BY <2>1
  <2>2. CASE i <= m /\ d[i].s = q[i].s /\ d[i].v = q[i].v
    <3>1. i \in (n + 1)..m /\ i \in 1..m BY <2>2
    <3>2. q[i].s = tr[i].s /\ q[i].v <= tr[i].v BY <3>1 DEF Slowed
    <3> QED BY <2>2, <3>1, <3>2
  <2> QED BY <1>3, <2>1, <2>2 DEF Halted
<1>5. \A i \in 1..n : d[i].s = tr[i].s /\ d[i].v = tr[i].v
  <2>1. \A i \in 1..n : i \in 1..m OBVIOUS
  <2> QED BY <1>3, <2>1 DEF Halted, Slowed
<1>6. Slower(d, l, tr, n, m) BY <1>3, <1>4, <1>5 DEF Halted, Slower
<1>7. Clear(tr, n, m, line) => Apart(d, l, n)
  <2>1. \A i \in (n + 1)..m : q[i].s = tr[i].s
    <3>1. \A i \in (n + 1)..m : i \in 1..m OBVIOUS
    <3> QED BY <3>1 DEF Slowed
  <2> QED BY <1>3, <2>1 DEF Halted, Clear, Apart
<1>8. Stops(d, l, tr, n, m, line) BY <1>3, <1>4, <1>6, <1>7 DEF Stops
<1> QED BY <1>8 DEF d

LEMMA EmergencyLineType ==
  ASSUME NEW start \in Point, NEW line \in Int
  PROVE  /\ EmergencyLine(start, line) \in Int
         /\ EmergencyLine(start, line) >= start.s + Tiny
         /\ line >= start.s + Tiny => EmergencyLine(start, line) <= line
<1>1. start.s \in Int /\ start.v \in Nat /\ Tiny \in Nat /\ EmergencyBrake \in Nat \ {0}
  BY ProcessorAssumption DEF Point
<1>2. start.v * start.v \in Nat BY <1>1
<1>3. \A x \in Nat, y \in Nat \ {0} : x \div y \in Nat OBVIOUS
<1>4. (start.v * start.v) \div EmergencyBrake \in Int BY <1>1, <1>2, <1>3
<1> QED BY <1>1, <1>4 DEF EmergencyLine, Most, Least

(* buildEmergencyStopFallback stops at its own line.                        *)
LEMMA EmergencyStops ==
  ASSUME NEW m \in Nat, NEW n \in 1..(m - 1), NEW tr \in [1..m -> Point], Onward(tr, n, m),
         NEW line \in Int
  PROVE  \E l \in Nat :
           Stops(EmergencyStop(tr, n, line), l, tr, n, m, EmergencyLine(tr[n], line))
<1> DEFINE stop == EmergencyLine(tr[n], line)
           slow(i) == IF tr[i].s >= stop THEN 0
                      ELSE Least(tr[i].v, StopLimit(EmergencyBrake, stop - tr[i].s))
           q == [i \in 1..m |-> IF i < n + 1 THEN tr[i] ELSE [tr[i] EXCEPT !.v = slow(i)]]
<1>1. EmergencyStop(tr, n, line) = Stopping(q, n, stop)
  <2>1. Len(tr) = m /\ DOMAIN tr = 1..m BY LenOf
  <2>2. MutableFrom(tr, n) = n + 1 BY <2>1 DEF MutableFrom, Least
  <2> QED BY <2>1, <2>2 DEF EmergencyStop
<1>2. stop \in Int /\ stop >= tr[n].s + Tiny BY EmergencyLineType
<1> HIDE DEF stop
<1>3. ASSUME NEW i \in 1..m
      PROVE  /\ tr[i] \in Point /\ slow(i) \in 0..MaxSpeed /\ slow(i) <= tr[i].v
             /\ tr[i].s >= stop => slow(i) = 0
  <2>1. tr[i] \in Point /\ tr[i].s \in Int /\ tr[i].v \in 0..MaxSpeed /\ MaxSpeed \in Nat
    BY ProcessorAssumption DEF Point
  <2>2. CASE tr[i].s >= stop BY <2>1, <2>2
  <2>3. CASE ~(tr[i].s >= stop)
    <3>0. EmergencyBrake \in Nat BY ProcessorAssumption
    <3>1. stop - tr[i].s \in Nat BY <1>2, <2>1, <2>3
    <3>2. StopLimit(EmergencyBrake, stop - tr[i].s) \in 0..MaxSpeed BY <3>0, <3>1, StopLimitType
    <3>3. slow(i) = Least(tr[i].v, StopLimit(EmergencyBrake, stop - tr[i].s)) BY <2>3
    <3> QED BY <2>1, <2>3, <3>2, <3>3 DEF Least
  <2> QED BY <2>2, <2>3
<1> HIDE DEF slow
<1>4. ASSUME NEW i \in 1..m
      PROVE  /\ q[i] \in Point /\ q[i].s = tr[i].s
             /\ i <= n => q[i].v = tr[i].v
             /\ i > n => q[i].v = slow(i)
  <2>1. CASE i <= n
    <3>1. q[i] = tr[i] BY <2>1
    <3> QED BY <1>3, <2>1, <3>1
  <2>2. CASE i > n
    <3>1. q[i] = [tr[i] EXCEPT !.v = slow(i)] BY <2>2
    <3> HIDE DEF q
    <3>2. q[i] \in Point /\ q[i].s = tr[i].s /\ q[i].v = slow(i) BY <1>3, <3>1, Respeed
    <3> QED BY <2>2, <3>2
  <2> QED BY <2>1, <2>2
<1>5. q \in [1..m -> Point] BY <1>4
<1> HIDE DEF q
<1>6. \A i \in (n + 1)..m : i \in 1..m /\ i > n OBVIOUS
<1>7. \A i \in 1..n : i \in 1..m /\ i <= n OBVIOUS
<1>8. Slowed(q, tr, n, m) BY <1>3, <1>4, <1>5, <1>6, <1>7 DEF Slowed
<1>9. \A i \in (n + 1)..m : tr[i].s >= stop => q[i].v = 0 BY <1>3, <1>4, <1>6
<1>10. \E l \in Nat : Stops(Stopping(q, n, stop), l, tr, n, m, stop)
  BY <1>2, <1>8, <1>9, SlowedStops
<1> QED BY <1>1, <1>10 DEF stop

(* validateTrajectoryForController accepts points that are no duplicates.    *)
LEMMA ValidIfApart ==
  ASSUME NEW l \in Nat, NEW n \in Nat \ {0}, l > n, NEW S, NEW d \in [1..l -> S]
  PROVE  ValidForController(d, MutableFrom(d, n)) <=> Apart(d, l, n)
<1>1. Len(d) = l BY LenOf
<1>2. MutableFrom(d, n) = n + 1 BY <1>1 DEF MutableFrom, Least
<1>3. Most(n + 1, 2) = n + 1 BY DEF Most
<1> QED BY <1>1, <1>2, <1>3 DEF ValidForController, Apart

(* Preparing keeps places and speeds, and so what depends only on these.     *)
LEMMA SamePathKeeps ==
  ASSUME NEW m \in Nat, NEW n \in 1..(m - 1), NEW pl, NEW tr, SamePath(tr, pl, m)
  PROVE  /\ Onward(pl, n, m) => Onward(tr, n, m)
         /\ \A d, l : Slower(d, l, tr, n, m) => Slower(d, l, pl, n, m)
         /\ \A line : Clear(tr, n, m, line) <=> Clear(pl, n, m, line)
<1>1. \A i \in 1..m : tr[i].s = pl[i].s /\ tr[i].v = pl[i].v BY DEF SamePath
<1>2. /\ \A i \in 2..m : i \in 1..m /\ i - 1 \in 1..m
      /\ \A i \in (n + 1)..m : i \in 1..m /\ i - 1 \in 1..m
      /\ \A i \in 1..n : i \in 1..m
  OBVIOUS
<1>3. Onward(pl, n, m) => Onward(tr, n, m) BY <1>1, <1>2 DEF Onward
<1>4. \A line : Clear(tr, n, m, line) <=> Clear(pl, n, m, line) BY <1>1, <1>2 DEF Clear
<1>5. ASSUME NEW d, NEW l, Slower(d, l, tr, n, m) PROVE Slower(d, l, pl, n, m)
  <2>1. \A i \in 1..n : d[i].s = pl[i].s /\ d[i].v = pl[i].v BY <1>1, <1>2, <1>5 DEF Slower
  <2>2. ASSUME NEW i \in (n + 1)..l
        PROVE  \/ d[i].v = 0
               \/ i <= m /\ d[i].s = pl[i].s /\ d[i].v <= pl[i].v
    <3>1. CASE d[i].v = 0 BY <3>1
    <3>2. CASE i <= m /\ d[i].s = tr[i].s /\ d[i].v <= tr[i].v
      <4>1. i \in 1..m BY <3>2
      <4> QED BY <1>1, <3>2, <4>1
    <3> QED BY <1>5, <3>1, <3>2 DEF Slower
  <2> QED BY <1>5, <2>1, <2>2 DEF Slower
<1> QED BY <1>3, <1>4, <1>5

LEMMA StopLineKeeps ==
  ASSUME NEW m \in Nat, NEW n \in 1..(m - 1), NEW pl \in [1..m -> Point],
         NEW tr \in [1..m -> Point], SamePath(tr, pl, m)
  PROVE  /\ StopLine(tr, n) = StopLine(pl, n)
         /\ \A line : EmergencyLine(tr[n], line) = EmergencyLine(pl[n], line)
<1>1. Len(tr) = m /\ Len(pl) = m BY LenOf
<1>2. 1 \in 1..m /\ n \in 1..m /\ m \in 1..m OBVIOUS
<1>3. tr[1].s = pl[1].s /\ tr[m].s = pl[m].s /\ tr[n].s = pl[n].s /\ tr[n].v = pl[n].v
  BY <1>2 DEF SamePath
<1>4. End(tr).s = End(pl).s BY <1>1, <1>3 DEF End
<1>5. OnPath(tr) <=> OnPath(pl) BY <1>3, <1>4 DEF OnPath
<1>6. Asked(tr, tr[n]) = Asked(pl, pl[n]) BY <1>3, <1>5, Zenon DEF Asked
<1>7. StopLine(tr, n) = StopLine(pl, n) BY <1>3, <1>6, Zenon DEF StopLine
<1>8. \A line : EmergencyLine(tr[n], line) = EmergencyLine(pl[n], line)
  BY <1>3, Zenon DEF EmergencyLine
<1> QED BY <1>7, <1>8

(* The line lies ahead of the part taken over, and is never behind the entry  *)
(* or where the vehicle can stop.                                          *)
Final(start) == Most(latest.entry, start.s + Tiny + (start.v * start.v) \div Brake)

LEMMA StopLineType ==
  ASSUME NEW m \in Nat, NEW n \in 1..(m - 1), NEW pl \in [1..m -> Point], latest.entry \in Int
  PROVE  /\ StopLine(pl, n) \in Int
         /\ StopLine(pl, n) >= pl[n].s + Tiny
         /\ Final(pl[n]) \in Int
         /\ StopLine(pl, n) <= Final(pl[n])
<1> DEFINE start == pl[n]
           braking == (start.v * start.v) \div Brake
<1>0. Tiny \in Nat /\ StopMargin \in Nat /\ Brake \in Nat \ {0} BY ProcessorAssumption
<1>1. start \in Point OBVIOUS
<1>9. start = pl[n] OBVIOUS
<1>7. Final(start) = Most(latest.entry, start.s + Tiny + braking) BY DEF Final
<1>8. StopLine(pl, n) = Most(start.s + Tiny, Asked(pl, start)) BY DEF StopLine
<1>6. Asked(pl, start) \in {latest.entry - StopMargin, start.s + braking} BY DEF Asked
<1> HIDE DEF start
<1>2. start.s \in Int /\ start.v \in Nat BY <1>1, ProcessorAssumption DEF Point
<1>3. start.v * start.v \in Nat BY <1>2
<1>4. \A x \in Nat, y \in Nat \ {0} : x \div y \in Nat OBVIOUS
<1>5. braking \in Nat BY <1>0, <1>3, <1>4
<1> HIDE DEF braking
<1>10. Asked(pl, start) \in Int
       /\ (Asked(pl, start) <= latest.entry \/ Asked(pl, start) <= start.s + braking)
  BY <1>0, <1>2, <1>5, <1>6
<1>11. Final(start) \in Int /\ Final(start) >= latest.entry
       /\ Final(start) >= start.s + Tiny + braking
  BY <1>0, <1>2, <1>5, <1>7 DEF Most
<1>12. /\ StopLine(pl, n) \in Int /\ StopLine(pl, n) >= start.s + Tiny
       /\ StopLine(pl, n) = start.s + Tiny \/ StopLine(pl, n) = Asked(pl, start)
  BY <1>0, <1>2, <1>8, <1>10 DEF Most
<1>13. StopLine(pl, n) <= Final(start) BY <1>0, <1>2, <1>5, <1>10, <1>11, <1>12
<1> QED BY <1>9, <1>11, <1>12, <1>13

LEMMA UntouchedIsSlower ==
  ASSUME NEW m \in Nat, NEW n \in 1..(m - 1), NEW pl \in [1..m -> Point], Onward(pl, n, m)
  PROVE  Slower(pl, m, pl, n, m)
<1>1. \A i \in 1..m : pl[i] \in Point /\ pl[i].v \in Int BY ProcessorAssumption DEF Point
<1>2. \A i \in (n + 1)..m : i \in 1..m /\ i <= m OBVIOUS
<1>3. \A i \in (n + 1)..m : i <= m /\ pl[i].v <= pl[i].v BY <1>1, <1>2
<1> QED BY <1>3 DEF Slower, Onward

-----------------------------------------------------------------------------
(***************************************************************************)
(* apply()                                                                 *)
(***************************************************************************)
(* Where a stop is obeyed the vehicle halts at the line, or at that of the    *)
(* emergency stop, unless neither can be made a stop point.                 *)
Obeyed(d, l, pl, n, m) ==
  LET line == StopLine(pl, n)
      stop == EmergencyLine(pl[n], line)
  IN  \/ Stops(d, l, pl, n, m, line) /\ Apart(d, l, n)
      \/ Stops(d, l, pl, n, m, stop) /\ Apart(d, l, n)
      \/ /\ d = pl /\ l = m /\ Slower(d, l, pl, n, m)
         /\ ~Clear(pl, n, m, line) /\ ~Clear(pl, n, m, stop)

LEMMA ApplyStops ==
  ASSUME NEW m \in Nat, NEW n \in 1..(m - 1), NEW pl \in [1..m -> Point], Onward(pl, n, m),
         NEW cap, IsStop(latest), latest.entry \in Int, ~Expired
  PROVE  \E l \in Nat : Obeyed(Apply(pl, n, cap), l, pl, n, m)
<1> DEFINE tr == Prepare(pl, n)
           line == StopLine(pl, n)
           stop == EmergencyLine(pl[n], line)
           a == Stopping(StopSpeed(tr, n, line), n, line)
           e == EmergencyStop(tr, n, line)
           d == Apply(pl, n, cap)
<1>1. tr \in [1..m -> Point] /\ SamePath(tr, pl, m)
  <2>1. n \in 1..m OBVIOUS
  <2> QED BY <2>1, PrepareIs
<1> HIDE DEF tr
<1>2. Onward(tr, n, m) /\ StopLine(tr, n) = line /\ EmergencyLine(tr[n], line) = stop
  BY <1>1, SamePathKeeps, StopLineKeeps
<1>3. n \in 1..m /\ n \in Nat \ {0} /\ pl[n] \in Point /\ tr[n].s = pl[n].s
  <2>1. n \in 1..m OBVIOUS
  <2> QED BY <1>1, <2>1 DEF SamePath
<1>4. line \in Int /\ line >= tr[n].s + Tiny BY <1>3, StopLineType
<1>5. d = FirstValid(a, e, pl, n)
  <2>1. latest.role = "YIELD" BY DEF IsStop
  <2> QED BY <1>2, <2>1 DEF Apply, IsFollow, IsStop, tr
<1> HIDE DEF line, stop, d
<1>6. PICK l \in Nat : Stops(a, l, tr, n, m, line)
  <2>1. /\ Slowed(StopSpeed(tr, n, line), tr, n, m)
        /\ \A i \in (n + 1)..m : tr[i].s >= line => StopSpeed(tr, n, line)[i].v = 0
    BY <1>1, <1>4, StopSpeedSlows
  <2> QED BY <1>1, <1>2, <1>4, <2>1, SlowedStops
<1>7. PICK k \in Nat : Stops(e, k, tr, n, m, stop)
  <2>1. \E k \in Nat : Stops(e, k, tr, n, m, EmergencyLine(tr[n], line))
    BY <1>1, <1>2, <1>4, EmergencyStops
  <2> QED BY <1>2, <2>1
<1> HIDE DEF a, e
<1>8. ASSUME NEW x, NEW h \in Nat, NEW y, Stops(x, h, tr, n, m, y)
      PROVE  /\ Stops(x, h, pl, n, m, y)
             /\ ValidForController(x, MutableFrom(x, n)) <=> Apart(x, h, n)
             /\ ~Apart(x, h, n) => ~Clear(pl, n, m, y)
  <2>1. Slower(x, h, pl, n, m) /\ (Clear(pl, n, m, y) => Clear(tr, n, m, y))
    BY <1>1, <1>8, SamePathKeeps DEF Stops
  <2>2. Stops(x, h, pl, n, m, y) BY <1>8, <2>1 DEF Stops
  <2>3. h > n /\ x \in [1..h -> Point] BY <2>1 DEF Slower
  <2>4. ValidForController(x, MutableFrom(x, n)) <=> Apart(x, h, n) BY <1>3, <2>3, ValidIfApart
  <2> QED BY <2>2, <2>4 DEF Stops
<1>9. CASE Apart(a, l, n)
  <2>1. d = a BY <1>5, <1>6, <1>8, <1>9 DEF FirstValid
  <2> QED BY <1>6, <1>8, <1>9, <2>1 DEF Obeyed, d, line
<1>10. CASE ~Apart(a, l, n) /\ Apart(e, k, n)
  <2>1. d = e BY <1>5, <1>6, <1>7, <1>8, <1>10 DEF FirstValid
  <2> QED BY <1>7, <1>8, <1>10, <2>1 DEF Obeyed, d, line, stop
<1>11. CASE ~Apart(a, l, n) /\ ~Apart(e, k, n)
  <2>1. d = pl BY <1>5, <1>6, <1>7, <1>8, <1>11 DEF FirstValid
  <2>2. ~Clear(pl, n, m, line) /\ ~Clear(pl, n, m, stop) BY <1>6, <1>7, <1>8, <1>11
  <2>3. Slower(pl, m, pl, n, m) BY UntouchedIsSlower
  <2> QED BY <2>1, <2>2, <2>3 DEF Obeyed, d, line, stop
<1> QED BY <1>9, <1>10, <1>11

(* A cap leaves at most the cap: nothing it does makes points duplicates, so  *)
(* the emergency stop is never asked for.                                  *)
LEMMA ShapeIs ==
  ASSUME NEW m \in Nat, NEW n \in 1..(m - 1), NEW tr \in [1..m -> Point], Onward(tr, n, m),
         NEW cap \in Nat, NEW rest \in [1..m -> Point], SamePath(rest, tr, m), NEW last
  PROVE  LET d == Shape(tr, n, cap, rest, last)
         IN  Slower(d, m, tr, n, m) /\ \A i \in (n + 1)..m : d[i].v <= cap
<1> DEFINE q == CapSpeed(tr, n, cap)
           r == RecomputeTiming(q, n)
           c == Capped(tr, n, cap)
<1>1. Slowed(q, tr, n, m) /\ \A i \in (n + 1)..m : q[i].v <= cap BY CapSpeedSlows
<1>2. q \in [1..m -> Point] BY <1>1 DEF Slowed
<1>3. c = Increasing(r) BY DEF Capped
<1> HIDE DEF q, c
<1>4. n \in 1..m /\ m \in Nat \ {0} /\ n \in Nat \ {0} /\ m > n OBVIOUS
<1>5. r \in [1..m -> Point] /\ SamePath(r, q, m) BY <1>2, <1>4, RecomputeTimingIs
<1> HIDE DEF r
<1>6. c \in [1..m -> Point] /\ SamePath(c, r, m) BY <1>3, <1>4, <1>5, IncreasingIs
<1>7. /\ \A i \in 1..n : i \in 1..m
      /\ \A i \in (n + 1)..m : i \in 1..m /\ i - 1 \in 1..m
      /\ \A i \in 2..m : i \in 1..m /\ i - 1 \in 1..m
  OBVIOUS
<1>8. ASSUME NEW x \in [1..m -> Point], SamePath(x, q, m)
      PROVE  /\ Slower(x, m, tr, n, m) /\ Apart(x, m, n)
             /\ \A i \in (n + 1)..m : x[i].v <= cap
  <2>1. \A i \in 1..m : x[i].s = tr[i].s /\ x[i].v = q[i].v BY <1>1, <1>8 DEF SamePath, Slowed
  <2>2. \A i \in 1..n : x[i].s = tr[i].s /\ x[i].v = tr[i].v BY <1>1, <1>7, <2>1 DEF Slowed
  <2>3. \A i \in (n + 1)..m : i <= m /\ x[i].s = tr[i].s /\ x[i].v <= tr[i].v
    BY <1>1, <1>7, <2>1 DEF Slowed
  <2>4. \A i \in 2..m : x[i].s > x[i - 1].s BY <1>7, <2>1 DEF Onward
  <2>5. Apart(x, m, n) BY <1>7, <2>1 DEF Onward, Apart
  <2>6. \A i \in (n + 1)..m : x[i].v <= cap BY <1>1, <1>7, <2>1
  <2> QED BY <2>2, <2>3, <2>4, <2>5, <2>6 DEF Slower
<1>9. CASE q = tr
  <2>1. Shape(tr, n, cap, rest, last) = rest BY <1>9 DEF Shape, q
  <2> QED BY <1>8, <1>9, <2>1
<1>10. CASE q # tr
  <2>1. SamePath(c, q, m) BY <1>5, <1>6 DEF SamePath
  <2>2. Slower(c, m, tr, n, m) /\ Apart(c, m, n) /\ \A i \in (n + 1)..m : c[i].v <= cap
    BY <1>6, <1>8, <2>1
  <2>3. ValidForController(c, MutableFrom(c, n)) BY <1>4, <1>6, <2>2, ValidIfApart
  <2>4. Shape(tr, n, cap, rest, last) = c BY <1>10, <2>3 DEF Shape, FirstValid, q, c
  <2> QED BY <2>2, <2>4
<1> QED BY <1>9, <1>10

(* All that apply() does.                                                   *)
Shapes(d, l, pl, n, m, cap) ==
  /\ Slower(d, l, pl, n, m)
  /\ IsStop(latest) /\ ~Expired => Obeyed(d, l, pl, n, m)
  /\ IsFollow(latest) /\ ~Expired => \A i \in (n + 1)..l : d[i].v <= cap

LEMMA ApplyShapes ==
  ASSUME NEW m \in Nat, NEW n \in 1..(m - 1), NEW pl \in [1..m -> Point], Onward(pl, n, m),
         NEW cap \in Nat, latest \in Constraints \cup {[role |-> "none"]}
  PROVE  \E l \in Nat : Shapes(Apply(pl, n, cap), l, pl, n, m, cap)
<1> DEFINE tr == Prepare(pl, n)
           d == Apply(pl, n, cap)
<1>1. tr \in [1..m -> Point] /\ SamePath(tr, pl, m)
  <2>1. n \in 1..m OBVIOUS
  <2> QED BY <2>1, PrepareIs
<1>2. Onward(tr, n, m) BY <1>1, SamePathKeeps
<1>3. Slower(pl, m, pl, n, m) BY UntouchedIsSlower
<1>4. SamePath(pl, tr, m) /\ SamePath(tr, tr, m) BY <1>1 DEF SamePath
<1>5. \A x, h : Slower(x, h, tr, n, m) => Slower(x, h, pl, n, m) BY <1>1, SamePathKeeps
<1>6. TimeoutSpeed \in Nat BY ProcessorAssumption
<1>7. \/ latest.role = "none" \/ latest.role \in {"NONE", "PROCEED"}
      \/ IsStop(latest) /\ latest.entry \in Int
      \/ IsFollow(latest)
  BY DrivingAssumption
<1>8. CASE IsStop(latest) /\ ~Expired
  <2>1. latest.entry \in Int /\ ~IsFollow(latest) BY <1>7, <1>8 DEF IsStop, IsFollow
  <2>2. PICK l \in Nat : Obeyed(d, l, pl, n, m) BY <1>8, <2>1, ApplyStops
  <2>3. Slower(d, l, pl, n, m) BY <2>2 DEF Obeyed, Stops
  <2> HIDE DEF d
  <2>4. Shapes(d, l, pl, n, m, cap) BY <1>8, <2>1, <2>2, <2>3 DEF Shapes
  <2> QED BY <2>4 DEF d
<1>9. CASE IsFollow(latest) /\ ~Expired
  <2>1. d = Shape(tr, n, cap, tr, pl) BY <1>9 DEF Apply, IsFollow, IsStop
  <2> HIDE DEF tr, d
  <2>2. Slower(d, m, tr, n, m) /\ \A i \in (n + 1)..m : d[i].v <= cap
    BY <1>1, <1>2, <1>4, <2>1, ShapeIs
  <2>3. ~IsStop(latest) BY <1>9 DEF IsFollow, IsStop
  <2>4. Shapes(d, m, pl, n, m, cap) BY <1>5, <2>2, <2>3 DEF Shapes
  <2> QED BY <2>4 DEF d
<1>10. CASE latest.role # "none" /\ Expired
  <2>1. d = Shape(tr, n, TimeoutSpeed, pl, pl)
    BY <1>10 DEF Apply, IsFollow, IsStop
  <2> HIDE DEF tr
  <2>2. Slower(d, m, tr, n, m) BY <1>1, <1>2, <1>4, <1>6, <2>1, ShapeIs
  <2> HIDE DEF d
  <2>3. Shapes(d, m, pl, n, m, cap) BY <1>5, <1>10, <2>2 DEF Shapes
  <2> QED BY <2>3 DEF d
<1>11. CASE latest.role = "none" \/ (~Expired /\ latest.role \in {"NONE", "PROCEED"})
  <2>1. ~IsStop(latest) /\ ~IsFollow(latest) BY <1>11 DEF IsStop, IsFollow
  <2>2. d = pl BY <1>11, <2>1 DEF Apply
  <2> HIDE DEF d
  <2>3. Shapes(d, m, pl, n, m, cap) BY <1>3, <2>1, <2>2 DEF Shapes
  <2> QED BY <2>3 DEF d
<1> QED BY <1>7, <1>8, <1>9, <1>10, <1>11 DEF IsStop, IsFollow

-----------------------------------------------------------------------------
(***************************************************************************)
(* The trajectory the planner hands over                                   *)
(***************************************************************************)
(* No further point lies where another one does.                            *)
Distinct(pl, n, m) == \A i \in (n + 1)..m, j \in 1..m : pl[i].s = pl[j].s => i = j

LEMMA PathIs ==
  ASSUME NEW n \in Nat \ {0}, NEW back \in [1..(n - 1) -> Behind], Forward(Path(n, back))
  PROVE  LET path == Path(n, back)
             m == n + Stations
         IN  /\ m \in Nat /\ n \in 1..(m - 1) /\ path \in [1..m -> Int]
             /\ \A i \in 2..m : path[i] > path[i - 1] + Eps
             /\ \A i \in (n + 1)..m, j \in 1..m : path[i] = path[j] => i = j
<1> DEFINE m == n + Stations
           path == Path(n, back)
<1>1. /\ Stations \in Nat \ {0} /\ Step \in Nat \ {0} /\ Eps \in Nat
      /\ Behind \subseteq Int /\ \A s \in Behind : s < -Eps
  <2>1. Stations \in Nat \ {0} /\ Step \in Nat \ {0} BY DrivingAssumption
  <2>2. Eps \in Nat BY ProcessorAssumption
  <2>3. Behind \subseteq Int /\ \A s \in Behind : s < -Eps BY DrivingAssumption
  <2> QED BY <2>1, <2>2, <2>3
<1>2. m \in Nat /\ n \in 1..(m - 1) BY <1>1
<1>3. path = [i \in 1..m |-> IF i < n THEN back[i] ELSE Step * (i - n)] BY DEF Path
<1> HIDE DEF path, m
<1>4. ASSUME NEW i \in 1..m
      PROVE  /\ path[i] \in Int
             /\ i < n => path[i] < 0
             /\ i >= n => path[i] = Step * (i - n)
  <2>1. CASE i < n
    <3>1. path[i] = back[i] /\ i \in 1..(n - 1) BY <1>3, <2>1
    <3>2. back[i] \in Behind BY <3>1
    <3>3. \A s \in Behind : s \in Int /\ s < 0
      <4>1. ASSUME NEW s \in Int, s < -Eps PROVE s < 0 BY <1>1, <4>1
      <4> QED BY <1>1, <4>1
    <3>4. path[i] \in Int /\ path[i] < 0 BY <3>1, <3>2, <3>3
    <3> QED BY <2>1, <3>4
  <2>2. CASE ~(i < n)
    <3>1. path[i] = Step * (i - n) BY <1>3, <2>2
    <3>2. \A x, y \in Int : x * y \in Int OBVIOUS
    <3>3. Step * (i - n) \in Int BY <1>1, <3>2
    <3> QED BY <2>2, <3>1, <3>3
  <2> QED BY <2>1, <2>2
<1>5. path \in [1..m -> Int] BY <1>3, <1>4
<1>6. Len(path) = m BY <1>2, <1>5, LenOf
<1>7. \A i \in 2..m : path[i] > path[i - 1] + Eps BY <1>6 DEF Forward, path
<1>8. ASSUME NEW i \in (n + 1)..m, NEW j \in 1..m, path[i] = path[j] PROVE i = j
  <2>1. i \in 1..m /\ i >= n /\ i - n \in Nat \ {0} BY <1>2
  <2>2. path[i] = Step * (i - n) BY <1>4, <2>1
  <2>3. \A x, y \in Nat \ {0} : x * y > 0 OBVIOUS
  <2>4. Step * (i - n) > 0 BY <1>1, <2>1, <2>3
  <2>5. j >= n
    <3>1. CASE j < n
      <4>1. path[j] < 0 BY <1>4, <3>1
      <4> QED BY <1>4, <1>8, <2>2, <2>4, <4>1
    <3> QED BY <3>1, <1>2
  <2>6. path[j] = Step * (j - n) BY <1>4, <2>5
  <2>7. \A x, y \in Int, z \in Nat \ {0} : z * x = z * y => x = y OBVIOUS
  <2>8. i - n = j - n
    <3>1. i - n \in Int /\ j - n \in Int OBVIOUS
    <3>2. Step * (i - n) = Step * (j - n) BY <1>8, <2>2, <2>6
    <3> QED BY <1>1, <2>7, <3>1, <3>2
  <2> QED BY <2>8
<1> QED BY <1>2, <1>5, <1>7, <1>8 DEF path, m

LEMMA PlannedIs ==
  ASSUME NEW n \in Nat \ {0}, NEW back \in [1..(n - 1) -> Behind], Forward(Path(n, back)),
         NEW v \in 0..MaxSpeed, NEW block \in Int
  PROVE  LET pl == Planned(Path(n, back), v, block)
             m == n + Stations
         IN  /\ m \in Nat /\ n \in 1..(m - 1) /\ pl \in [1..m -> Point]
             /\ Onward(pl, n, m) /\ Distinct(pl, n, m)
<1> DEFINE m == n + Stations
           path == Path(n, back)
           point(i) == [s |-> path[i], v |-> IF i < block THEN Least(MaxSpeed, v + i - 1) ELSE 0]
           time[i \in DOMAIN path] ==
             IF i = 1 THEN 0
             ELSE time[i - 1] + (IF point(i - 1).v = 0 THEN 0 ELSE Travel(point(i - 1), point(i)))
           d(i) == IF point(i - 1).v = 0 THEN 0 ELSE Travel(point(i - 1), point(i))
           b == [i \in 1..m |-> 0]
           G == [i \in 1..m |-> [x \in Int |-> IF i = 1 THEN x ELSE x + d(i)]]
           pl == Planned(path, v, block)
<1>1. /\ m \in Nat /\ n \in 1..(m - 1) /\ path \in [1..m -> Int]
      /\ \A i \in 2..m : path[i] > path[i - 1] + Eps
      /\ \A i \in (n + 1)..m, j \in 1..m : path[i] = path[j] => i = j
  BY PathIs
<1>2. pl = [i \in DOMAIN path |-> [s |-> point(i).s, v |-> point(i).v, t |-> time[i]]]
  BY DEF Planned
<1> HIDE DEF path, m, pl
<1>3. DOMAIN path = 1..m BY <1>1
<1>4. ASSUME NEW i \in 1..m
      PROVE  point(i).s = path[i] /\ point(i).s \in Int /\ point(i).v \in 0..MaxSpeed
  <2>1. path[i] \in Int BY <1>1
  <2>2. MaxSpeed \in Nat BY ProcessorAssumption
  <2>3. (IF i < block THEN Least(MaxSpeed, v + i - 1) ELSE 0) \in 0..MaxSpeed BY <2>2 DEF Least
  <2> QED BY <2>1, <2>3
<1> HIDE DEF point
<1>5. ASSUME NEW i \in 2..m PROVE d(i) \in Int
  <2>1. i \in 1..m /\ i - 1 \in 1..m BY <1>1
  <2>2. MaxSpeed \in Nat BY ProcessorAssumption
  <2>3. point(i).v \in Int /\ point(i - 1).v \in Int BY <1>4, <2>1, <2>2
  <2>4. point(i).s \in Int /\ point(i - 1).s \in Int BY <1>4, <2>1
  <2>5. Travel(point(i - 1), point(i)) \in Int BY <2>3, <2>4, TravelIsInt
  <2> QED BY <2>5
<1> HIDE DEF d
<1>6. \E f : f = [i \in 1..m |-> IF i = 1 THEN 0 ELSE f[i - 1] + d(i)]
  <2>1. b \in [1..m -> Int] /\ G \in [1..m -> [Int -> Int]]
    <3>1. \A i \in 1..m, x \in Int : (IF i = 1 THEN x ELSE x + d(i)) \in Int BY <1>5
    <3> QED BY <3>1
  <2>2. PICK g : Recursive(g, m, {1}, b, G)
    <3> HIDE DEF b, G
    <3>1. \A i \in (1..m) \ {1} : i # 1 OBVIOUS
    <3> QED BY <1>1, <2>1, <3>1, Recursion
  <2>3. ASSUME NEW i \in 1..m
        PROVE  g[i] = IF i = 1 THEN 0 ELSE g[i - 1] + d(i)
    <3>1. g[i] = IF i \in {1} THEN b[i] ELSE G[i][g[i - 1]] BY <2>2 DEF Recursive
    <3>2. i # 1 => i - 1 \in 1..m /\ g[i - 1] \in Int BY <1>1, <2>2 DEF Recursive
    <3> QED BY <3>1, <3>2
  <2>4. g = [i \in 1..m |-> IF i = 1 THEN 0 ELSE g[i - 1] + d(i)]
    BY <2>2, <2>3 DEF Recursive
  <2> QED BY <2>4
<1>7. time = [i \in 1..m |-> IF i = 1 THEN 0 ELSE time[i - 1] + d(i)] BY <1>3, <1>6 DEF d
<1> HIDE DEF time
<1>8. ASSUME NEW i \in 1..m
      PROVE  \/ i \in {1} /\ time[i] \in Int
             \/ i # 1 /\ (time[i - 1] \in Int => time[i] \in Int)
  <2>1. CASE i = 1 BY <1>7, <2>1
  <2>2. CASE i # 1
    <3>1. time[i] = time[i - 1] + d(i) /\ d(i) \in Int BY <1>1, <1>5, <1>7, <2>2
    <3> QED BY <2>2, <3>1
  <2> QED BY <2>1, <2>2
<1>9. \A i \in 1..m : time[i] \in Int BY <1>1, <1>8, IntValues
<1>10. ASSUME NEW i \in 1..m PROVE pl[i] \in Point /\ pl[i].s = path[i]
  <2>1. pl[i] = [s |-> point(i).s, v |-> point(i).v, t |-> time[i]] BY <1>2, <1>3
  <2> QED BY <1>4, <1>9, <2>1 DEF Point
<1>11. pl \in [1..m -> Point] BY <1>2, <1>3, <1>10
<1>12. Eps \in Nat BY ProcessorAssumption
<1>13. Onward(pl, n, m)
  <2>1. ASSUME NEW i \in 2..m PROVE pl[i].s > pl[i - 1].s /\ pl[i].s - pl[i - 1].s > Eps
    <3>1. i \in 1..m /\ i - 1 \in 1..m BY <1>1
    <3>2. path[i] \in Int /\ path[i - 1] \in Int /\ path[i] > path[i - 1] + Eps BY <1>1, <3>1
    <3>3. pl[i].s = path[i] /\ pl[i - 1].s = path[i - 1] BY <1>10, <3>1
    <3> QED BY <1>12, <3>2, <3>3
  <2>2. \A i \in (n + 1)..m : i \in 2..m BY <1>1
  <2> QED BY <2>1, <2>2 DEF Onward
<1>14. Distinct(pl, n, m)
  <2>1. \A i \in (n + 1)..m : i \in 1..m BY <1>1
  <2> QED BY <1>1, <1>10, <2>1 DEF Distinct
<1> QED BY <1>1, <1>11, <1>13, <1>14 DEF pl, path, m

-----------------------------------------------------------------------------
(***************************************************************************)
(* The invariant                                                           *)
(***************************************************************************)
MemoryOK ==
  /\ latest \in Constraints \cup {[role |-> "none"]}
  /\ age \in 0..(Timeout + 1) /\ followAge \in 0..(FollowGrace + 1)
  /\ heard \in 0..Unheard
  /\ {follow, subscribed, source} \subseteq Peers \cup {NoPeer}

(* The leader is the peer of the order in force, and it is subscribed; the   *)
(* place known is that peer's; the time of grace is that of its order.      *)
Leader ==
  /\ followAge = ordered
  /\ IF IsFollow(latest) THEN follow = latest.peer /\ subscribed = follow ELSE follow = NoPeer
  /\ heard <= FollowFresh => source = subscribed

(* What is driven is what apply() makes of the trajectory planned.            *)
Driving(pl, n, d) ==
  \E m, l \in Nat : \E cap \in FollowCaps :
    /\ n \in 1..(m - 1) /\ pl \in [1..m -> Point]
    /\ Onward(pl, n, m) /\ Distinct(pl, n, m)
    /\ Shapes(d, l, pl, n, m, cap)

Shaping ==
  IF planned = << >> THEN driven = << >> /\ taken = 0 ELSE Driving(planned, taken, driven)

IInv == MemoryOK /\ Leader /\ Shaping

LEMMA InitEstablishes == Init => IInv
<1> SUFFICES ASSUME Init PROVE IInv OBVIOUS
<1>1. ~IsFollow(latest) BY DEF Init, ProcessorInit, IsFollow
<1>2. FollowFresh \in Nat /\ Timeout \in Nat /\ FollowGrace \in Nat BY ProcessorAssumption
<1>3. MemoryOK BY <1>2 DEF Init, ProcessorInit, MemoryOK, Unheard
<1>4. Leader BY <1>1, <1>2 DEF Init, ProcessorInit, Leader, Unheard
<1>5. Shaping BY DEF Init, Shaping
<1> QED BY <1>3, <1>4, <1>5 DEF IInv

(* Obeying depends on the order alone, not on what else is remembered.       *)
LEMMA SameOrder ==
  ASSUME UNCHANGED <<latest, age, follow, followAge, heard>>,
         Driving(planned', taken', driven')
  PROVE  Driving(planned, taken, driven)'
<1>1. FollowCaps' = FollowCaps BY DEF FollowCaps, PlaceFresh, Grace
<1>2. StopLine(planned, taken)' = StopLine(planned', taken') BY DEF StopLine, Asked, OnPath, End
<1>3. EmergencyLine(planned[taken], StopLine(planned, taken))'
        = EmergencyLine(planned'[taken'], StopLine(planned', taken'))
  BY <1>2 DEF EmergencyLine
<1>4. \A m, l : Obeyed(driven, l, planned, taken, m)' <=> Obeyed(driven', l, planned', taken', m)
  <2> TAKE m, l
  <2>1. (Slower(driven, l, planned, taken, m)' <=> Slower(driven', l, planned', taken', m))
        /\ (Apart(driven, l, taken)' <=> Apart(driven', l, taken'))
    BY Zenon DEF Slower, Apart
  <2>2. (Clear(planned, taken, m, StopLine(planned, taken))'
           <=> Clear(planned', taken', m, StopLine(planned', taken')))
        /\ (Clear(planned, taken, m, EmergencyLine(planned[taken], StopLine(planned, taken)))'
           <=> Clear(planned', taken', m, EmergencyLine(planned'[taken'], StopLine(planned', taken'))))
    BY <1>2, <1>3, Zenon DEF Clear
  <2>3. Stops(driven, l, planned, taken, m, StopLine(planned, taken))'
           <=> Stops(driven', l, planned', taken', m, StopLine(planned', taken'))
    BY <1>2, <2>1, <2>2, Zenon DEF Stops
  <2>4. Stops(driven, l, planned, taken, m, EmergencyLine(planned[taken], StopLine(planned, taken)))'
           <=> Stops(driven', l, planned', taken', m,
                     EmergencyLine(planned'[taken'], StopLine(planned', taken')))
    BY <1>3, <2>1, <2>2, Zenon DEF Stops
  <2> QED BY <2>1, <2>2, <2>3, <2>4, Zenon DEF Obeyed
<1>5. \A m, l, cap : Shapes(driven, l, planned, taken, m, cap)'
                       <=> Shapes(driven', l, planned', taken', m, cap)
  BY <1>4, Zenon DEF Shapes, IsStop, IsFollow, Expired, Slower
<1> QED BY <1>1, <1>5, Zenon DEF Driving, Onward, Distinct

LEMMA PlanKeeps == ASSUME IInv, Plan PROVE IInv'
<1>1. PICK n \in 1..MaxPrefix : \E back \in [1..(n - 1) -> Behind],
        v \in 0..MaxSpeed, block \in {n + 1, n + Stations + 1} :
          Forward(Path(n, back)) /\ Shaped(Planned(Path(n, back), v, block), n)
  BY DEF Plan
<1>2. PICK back \in [1..(n - 1) -> Behind], v \in 0..MaxSpeed, block \in {n + 1, n + Stations + 1} :
          Forward(Path(n, back)) /\ Shaped(Planned(Path(n, back), v, block), n)
  BY <1>1
<1> DEFINE pl == Planned(Path(n, back), v, block)
           m == n + Stations
<1>3. n \in Nat \ {0} /\ block \in Int BY DrivingAssumption
<1>4. PICK cap \in FollowCaps : driven' = Apply(pl, n, cap) BY <1>2 DEF Shaped
<1>5. UNCHANGED <<latest, age, follow, followAge, subscribed, heard, source, ordered>>
      /\ taken' = n /\ planned' = pl
  BY <1>2 DEF Shaped, processorVars
<1>6. MemoryOK' BY <1>5 DEF IInv, MemoryOK
<1>7. Leader' BY <1>5 DEF IInv, Leader, IsFollow
<1>8. /\ m \in Nat /\ n \in 1..(m - 1) /\ pl \in [1..m -> Point]
      /\ Onward(pl, n, m) /\ Distinct(pl, n, m)
  BY <1>2, <1>3, PlannedIs
<1> HIDE DEF pl, m
<1>9. cap \in Nat BY ProcessorAssumption DEF FollowCaps
<1>10. PICK l \in Nat : Shapes(Apply(pl, n, cap), l, pl, n, m, cap)
  BY <1>8, <1>9, ApplyShapes DEF IInv, MemoryOK
<1>11. Driving(pl, n, Apply(pl, n, cap)) BY <1>8, <1>10 DEF Driving
<1>12. planned' # << >>
  <2>1. DOMAIN pl = 1..m /\ 1 \in 1..m BY <1>8
  <2>2. DOMAIN << >> = {} OBVIOUS
  <2> QED BY <1>5, <2>1, <2>2
<1>13. Shaping'
  <2>1. Driving(planned', taken', driven') BY <1>4, <1>5, <1>11
  <2> QED BY <1>5, <1>12, <2>1, SameOrder DEF Shaping
<1> QED BY <1>6, <1>7, <1>13 DEF IInv

LEMMA BetweenCycles ==
  ASSUME IInv, planned' = << >>, driven' = << >>, taken' = 0
  PROVE  Shaping'
BY DEF Shaping

LEMMA OlderType ==
  ASSUME NEW bound \in Nat, NEW n \in 0..(bound + 1)
  PROVE  Older(n, bound) \in 0..(bound + 1) /\ (Older(n, bound) <= bound => n <= bound)
BY DEF Older, Least

LEMMA CycleEndsKeeps == ASSUME IInv, CycleEnds PROVE IInv'
<1>1. FollowFresh \in Nat /\ FollowGrace \in Nat /\ Timeout \in Nat BY ProcessorAssumption
<1>2. UNCHANGED <<latest, follow, subscribed, source>> BY DEF CycleEnds, Aged
<1>3. age' \in 0..(Timeout + 1) /\ followAge' \in 0..(FollowGrace + 1)
  BY <1>1, OlderType DEF CycleEnds, Aged, IInv, MemoryOK
<1>4. heard' \in 0..Unheard /\ (heard' <= FollowFresh => heard <= FollowFresh)
  BY <1>1, OlderType DEF CycleEnds, Aged, IInv, MemoryOK, Unheard
<1>5. followAge' = ordered' BY DEF CycleEnds, Aged, IInv, Leader
<1>6. MemoryOK' BY <1>2, <1>3, <1>4 DEF IInv, MemoryOK
<1>7. Leader' BY <1>2, <1>4, <1>5 DEF IInv, Leader, IsFollow
<1>8. Shaping' BY BetweenCycles DEF CycleEnds
<1> QED BY <1>6, <1>7, <1>8 DEF IInv

LEMMA HearKeeps == ASSUME IInv, NEW c \in Constraints, Hear(c) PROVE IInv'
<1>1. FollowFresh \in Nat /\ Timeout \in Nat /\ FollowGrace \in Nat BY ProcessorAssumption
<1>2. planned = << >> /\ UNCHANGED <<planned, driven, taken, source>> /\ latest' = c /\ age' = 0
  BY DEF Hear, UpdateConstraint
<1>3. Shaping' BY <1>2, BetweenCycles DEF IInv, Shaping
<1>4. IsFollow(latest)' <=> IsFollow(c) BY <1>2 DEF IsFollow
<1>5. CASE IsFollow(c)
  <2>1. c.peer \in Peers /\ c.peer # NoPeer
    <3>1. ~IsStop(c) /\ c.role \notin {"NONE", "PROCEED"} BY <1>5 DEF IsFollow, IsStop
    <3> QED BY <3>1, DrivingAssumption, ProcessorAssumption
  <2>2. follow' = c.peer /\ Subscribe(c.peer) BY <1>5 DEF Hear, UpdateConstraint
  <2>3. /\ subscribed' = c.peer /\ heard' \in 0..Unheard
        /\ heard' <= FollowFresh => source = subscribed'
    BY <1>1, <2>2 DEF Subscribe, Unheard, IInv, Leader, MemoryOK
  <2>4. (follow = c.peer) <=> (IsFollow(latest) /\ latest.peer = c.peer)
    BY <2>1 DEF IInv, Leader
  <2>5. followAge' = ordered' /\ followAge' \in 0..(FollowGrace + 1)
    BY <1>1, <1>5, <2>4 DEF Hear, UpdateConstraint, FollowAge, IInv, Leader, MemoryOK
  <2>6. MemoryOK' BY <1>1, <1>2, <2>1, <2>2, <2>3, <2>5 DEF IInv, MemoryOK
  <2>7. Leader' BY <1>2, <1>4, <1>5, <2>2, <2>3, <2>5 DEF Leader
  <2> QED BY <1>3, <2>6, <2>7 DEF IInv
<1>6. CASE ~IsFollow(c)
  <2>1. follow' = NoPeer /\ UNCHANGED <<subscribed, heard>> BY <1>6 DEF Hear, UpdateConstraint
  <2>2. followAge' = 0 /\ ordered' = 0 BY <1>6 DEF Hear, UpdateConstraint, FollowAge
  <2>3. MemoryOK' BY <1>1, <1>2, <2>1, <2>2 DEF IInv, MemoryOK
  <2>4. Leader' BY <1>2, <1>4, <1>6, <2>1, <2>2 DEF IInv, Leader
  <2> QED BY <1>3, <2>3, <2>4 DEF IInv
<1> QED BY <1>5, <1>6

LEMMA HearPeerKeeps == ASSUME IInv, NEW p \in Peers, HearPeer(p) PROVE IInv'
<1>1. Unheard \in Nat BY ProcessorAssumption DEF Unheard
<1>2. planned = << >> /\ UNCHANGED <<planned, driven, taken>> BY DEF HearPeer
<1>3. Shaping' BY <1>2, BetweenCycles DEF IInv, Shaping
<1>4. source' = p /\ p = subscribed /\ heard' = 0
      /\ UNCHANGED <<latest, age, follow, followAge, subscribed, ordered>>
  BY DEF HearPeer, OnPeerPlace
<1>5. MemoryOK' BY <1>1, <1>4 DEF IInv, MemoryOK
<1>6. Leader' BY <1>4 DEF IInv, Leader, IsFollow
<1> QED BY <1>3, <1>5, <1>6 DEF IInv

LEMMA UnchangedKeeps ==
  ASSUME IInv, UNCHANGED <<processorVars, planned, taken, driven, source, ordered>>
  PROVE  IInv'
<1>1. UNCHANGED <<latest, age, follow, followAge, subscribed, heard>> BY DEF processorVars
<1>2. MemoryOK' BY <1>1 DEF IInv, MemoryOK
<1>3. Leader' BY <1>1 DEF IInv, Leader, IsFollow
<1>4. Shaping'
  <2>1. CASE planned = << >> BY <2>1, BetweenCycles DEF IInv, Shaping
  <2>2. CASE planned # << >>
    <3>1. Driving(planned', taken', driven') BY <2>2 DEF IInv, Shaping
    <3> QED BY <1>1, <2>2, <3>1, SameOrder DEF Shaping
  <2> QED BY <2>1, <2>2
<1> QED BY <1>2, <1>3, <1>4 DEF IInv

LEMMA StepKeeps == IInv /\ [Next]_vars => IInv'
<1> SUFFICES ASSUME IInv, [Next]_vars PROVE IInv' OBVIOUS
<1>1. CASE Plan BY <1>1, PlanKeeps
<1>2. CASE CycleEnds BY <1>2, CycleEndsKeeps
<1>3. CASE \E c \in Constraints : Hear(c) BY <1>3, HearKeeps
<1>4. CASE \E p \in Peers : HearPeer(p) BY <1>4, HearPeerKeeps
<1>5. CASE ResolverDies BY <1>5, UnchangedKeeps DEF ResolverDies
<1>6. CASE UNCHANGED vars BY <1>6, UnchangedKeeps DEF vars, drivingVars
<1> QED BY <1>1, <1>2, <1>3, <1>4, <1>5, <1>6 DEF Next

LEMMA Invariance == Spec => []IInv
<1> QED BY InitEstablishes, StepKeeps, PTL DEF Spec

-----------------------------------------------------------------------------
(***************************************************************************)
(* What follows                                                            *)
(***************************************************************************)
(* What is driven, point by point.                                          *)
Driven(m, l, cap) ==
  /\ l \in Nat /\ taken \in 1..(m - 1) /\ l > taken /\ planned \in [1..m -> Point]
  /\ Len(planned) = m /\ DOMAIN planned = 1..m /\ Len(driven) = l /\ DOMAIN driven = 1..l
  /\ Distinct(planned, taken, m)
  /\ Shapes(driven, l, planned, taken, m, cap) /\ Slower(driven, l, planned, taken, m)

LEMMA WhatIsDriven ==
  ASSUME IInv
  PROVE  \/ planned = << >> /\ driven = << >> /\ taken = 0
         \/ \E m \in Nat, l \in Nat : \E cap \in FollowCaps : Driven(m, l, cap)
<1>1. CASE planned = << >> BY <1>1 DEF IInv, Shaping
<1>2. CASE planned # << >>
  <2>1. PICK m \in Nat, l \in Nat, cap \in FollowCaps :
          /\ taken \in 1..(m - 1) /\ planned \in [1..m -> Point]
          /\ Onward(planned, taken, m) /\ Distinct(planned, taken, m)
          /\ Shapes(driven, l, planned, taken, m, cap)
    BY <1>2 DEF IInv, Shaping, Driving
  <2>2. Slower(driven, l, planned, taken, m) BY <2>1 DEF Shapes
  <2>3. l > taken /\ driven \in [1..l -> Point] BY <2>2 DEF Slower
  <2>4. Len(planned) = m /\ DOMAIN planned = 1..m /\ Len(driven) = l /\ DOMAIN driven = 1..l
    BY <2>1, <2>3, LenOf
  <2>5. Driven(m, l, cap) BY <2>1, <2>2, <2>3, <2>4 DEF Driven
  <2> QED BY <2>5
<1> QED BY <1>1, <1>2

(* What is published keeps the part taken over, never turns back, and never   *)
(* duplicates points or times where a stop is obeyed: what                  *)
(* validateTrajectoryForController and the controller rely on.              *)
THEOREM TypeCorrect == Spec => []TypeOK
<1>1. ASSUME IInv PROVE TypeOK
  <2>0. MemoryOK BY <1>1 DEF IInv
  <2>1. CASE planned = << >> /\ driven = << >> /\ taken = 0
    <3>1. DOMAIN driven = {} /\ Len(driven) = 0 BY <2>1
    <3>2. \A i \in 2..Len(driven) : FALSE BY <3>1
    <3>3. \A i \in 1..taken : FALSE BY <2>1
    <3>4. driven = planned BY <2>1
    <3> QED BY <2>0, <3>1, <3>2, <3>3, <3>4 DEF TypeOK, MemoryOK
  <2>2. CASE \E m \in Nat, l \in Nat : \E cap \in FollowCaps : Driven(m, l, cap)
    <3>1. PICK m \in Nat, l \in Nat, cap \in FollowCaps : Driven(m, l, cap) BY <2>2
    <3>2. Slower(driven, l, planned, taken, m) /\ Len(driven) = l /\ DOMAIN driven = 1..l
      BY <3>1 DEF Driven
    <3>3. \A i \in DOMAIN driven : driven[i].v \in 0..MaxSpeed BY <3>2 DEF Slower, Point
    <3>4. \A i \in 1..taken : driven[i].s = planned[i].s /\ driven[i].v = planned[i].v
      BY <3>2 DEF Slower
    <3>5. \A i \in 2..Len(driven) : driven[i].s > driven[i - 1].s BY <3>2 DEF Slower
    <3>6. ASSUME IsStop(latest), ~Expired, driven # planned
          PROVE  /\ \A i \in 2..Len(driven) : driven[i].t > driven[i - 1].t
                 /\ \A i \in Suffix : driven[i].s > driven[i - 1].s + Eps
      <4>1. Obeyed(driven, l, planned, taken, m) BY <3>1, <3>6 DEF Driven, Shapes
      <4>2. (\A i \in 2..l : driven[i].t > driven[i - 1].t) /\ Apart(driven, l, taken)
        BY <3>6, <4>1 DEF Obeyed, Stops
      <4>3. ASSUME NEW i \in (taken + 1)..l PROVE driven[i].s > driven[i - 1].s + Eps
        <5>1. i \in 1..l /\ i - 1 \in 1..l BY <3>1 DEF Driven
        <5>2. driven[i].s \in Int /\ driven[i - 1].s \in Int BY <3>2, <5>1 DEF Slower, Point
        <5>3. driven[i].s - driven[i - 1].s > Eps BY <4>2 DEF Apart
        <5>4. Eps \in Nat BY ProcessorAssumption
        <5> QED BY <5>2, <5>3, <5>4
      <4> QED BY <3>2, <4>2, <4>3 DEF Suffix
    <3> QED BY <2>0, <3>3, <3>4, <3>5, <3>6 DEF TypeOK, MemoryOK
  <2> QED BY <1>1, <2>1, <2>2, WhatIsDriven
<1> QED BY <1>1, Invariance, PTL

(* No constraint speeds the vehicle up: what the planner slowed down for is   *)
(* kept (applyVelocityConstraintAction, truncateTrajectoryAtStopS).         *)
THEOREM SlowsOnly == Spec => []NeverFaster
<1>1. ASSUME IInv PROVE NeverFaster
  <2> SUFFICES ASSUME NEW i \in Suffix, NEW j \in DOMAIN planned, driven[i].s = planned[j].s
               PROVE  driven[i].v <= planned[j].v
    BY DEF NeverFaster
  <2>1. CASE planned = << >> /\ driven = << >> /\ taken = 0 BY <2>1
  <2>2. CASE \E m \in Nat, l \in Nat : \E cap \in FollowCaps : Driven(m, l, cap)
    <3>1. PICK m \in Nat, l \in Nat, cap \in FollowCaps : Driven(m, l, cap) BY <2>2
    <3>2. i \in (taken + 1)..l /\ j \in 1..m /\ planned[j] \in Point BY <3>1 DEF Driven, Suffix
    <3>3. planned[j].v \in Nat BY <3>2, ProcessorAssumption DEF Point
    <3>4. CASE driven[i].v = 0 BY <3>3, <3>4
    <3>5. CASE i <= m /\ driven[i].s = planned[i].s /\ driven[i].v <= planned[i].v
      <4>1. i \in (taken + 1)..m BY <3>2, <3>5
      <4>2. i = j BY <3>1, <3>2, <3>5, <4>1 DEF Driven, Distinct
      <4> QED BY <3>5, <4>2
    <3> QED BY <3>1, <3>2, <3>4, <3>5 DEF Driven, Slower
  <2> QED BY <1>1, <2>1, <2>2, WhatIsDriven
<1> QED BY <1>1, Invariance, PTL

(* Under an order to stop nothing planned anew moves at or behind the line     *)
(* asked for, unless no stop point can be made of it nor of the emergency    *)
(* stop: StopAndWaitStrategy::apply and its three attempts.                 *)
THEOREM StopsFinally == Spec => []StopIsFinal
<1>1. ASSUME IInv PROVE StopIsFinal
  <2> SUFFICES ASSUME driven # << >>, IsStop(latest), ~Expired
               PROVE  LET start == planned[taken]
                          line == StopLine(planned, taken)
                      IN  \/ \A i \in Suffix : driven[i].s >= Final(start) => driven[i].v = 0
                          \/ Duplicate(line) /\ Duplicate(EmergencyLine(start, line))
    BY DEF StopIsFinal, Final
  <2> DEFINE start == planned[taken]
             line == StopLine(planned, taken)
             stop == EmergencyLine(start, line)
  <2>1. PICK m \in Nat, l \in Nat, cap \in FollowCaps : Driven(m, l, cap) BY <1>1, WhatIsDriven
  <2>2. Obeyed(driven, l, planned, taken, m) BY <2>1 DEF Driven, Shapes
  <2>3. taken \in 1..(m - 1) /\ planned \in [1..m -> Point] /\ Len(planned) = m /\ Len(driven) = l
        /\ Slower(driven, l, planned, taken, m)
    BY <2>1 DEF Driven
  <2>4. latest.entry \in Int
    <3>1. latest \in Constraints BY <1>1 DEF IInv, MemoryOK, IsStop
    <3>2. ~IsFollow(latest) /\ latest.role \notin {"NONE", "PROCEED"} BY DEF IsFollow, IsStop
    <3> QED BY <3>1, <3>2, DrivingAssumption
  <2>5. /\ line \in Int /\ line >= start.s + Tiny
        /\ Final(start) \in Int /\ line <= Final(start)
    BY <2>3, <2>4, StopLineType
  <2>6. start \in Point
    <3>1. taken \in 1..m BY <2>3
    <3> QED BY <2>3, <3>1
  <2>7. stop \in Int /\ stop <= line BY <2>5, <2>6, EmergencyLineType
  <2> HIDE DEF stop
  <2>8. Suffix = (taken + 1)..l /\ \A i \in Suffix : driven[i].s \in Int
    <3>1. \A i \in (taken + 1)..l : i \in 1..l BY <2>3
    <3> QED BY <2>3, <3>1 DEF Slower, Suffix, Point
  <2>9. \A y : ~Clear(planned, taken, m, y) => Duplicate(y) BY <2>3 DEF Clear, Duplicate
  <2>10. CASE Stops(driven, l, planned, taken, m, line)
    <3>1. \A i \in Suffix : driven[i].s >= Final(start) => driven[i].s >= line
      <4> HIDE DEF line, start
      <4> QED BY <2>5, <2>8
    <3> QED BY <2>8, <2>10, <3>1 DEF Stops
  <2>11. CASE Stops(driven, l, planned, taken, m, stop)
    <3>1. \A i \in Suffix : driven[i].s >= Final(start) => driven[i].s >= stop
      <4> HIDE DEF line, start
      <4> QED BY <2>5, <2>7, <2>8
    <3> QED BY <2>8, <2>11, <3>1 DEF Stops
  <2>12. CASE ~Clear(planned, taken, m, line) /\ ~Clear(planned, taken, m, stop)
    BY <2>9, <2>12 DEF stop
  <2> QED BY <2>2, <2>10, <2>11, <2>12 DEF Obeyed, stop
<1> QED BY <1>1, Invariance, PTL

(* A vehicle ordered to follow moves on, once the time of grace is over,     *)
(* only by a fresh place of the very leader it was ordered to follow: what   *)
(* ensureFollowPeerSubscriptions and the activation time in                 *)
(* updateConstraint are for.                                               *)
THEOREM FollowerSees == Spec => []BlindFollower
<1>1. ASSUME IInv PROVE BlindFollower
  <2> SUFFICES ASSUME IsFollow(latest), ~Expired, ordered > FollowGrace,
                      NEW i \in Suffix, driven[i].v > 0
               PROVE  PlaceFresh /\ source = latest.peer
    BY DEF BlindFollower
  <2>1. FollowGrace \in Nat BY ProcessorAssumption
  <2>2. ~Grace BY <1>1, <2>1 DEF Grace, IInv, Leader, MemoryOK
  <2>3. PlaceFresh
    <3> SUFFICES ASSUME ~PlaceFresh PROVE FALSE OBVIOUS
    <3>1. FollowCaps = {0} BY <2>2 DEF FollowCaps
    <3>2. CASE planned = << >> /\ driven = << >> /\ taken = 0 BY <3>2 DEF Suffix
    <3>3. CASE \E m \in Nat, l \in Nat : \E cap \in FollowCaps : Driven(m, l, cap)
      <4>1. PICK m \in Nat, l \in Nat, cap \in FollowCaps : Driven(m, l, cap) BY <3>3
      <4>2. cap = 0 /\ Len(driven) = l /\ Slower(driven, l, planned, taken, m)
            /\ taken \in Nat
        BY <3>1, <4>1 DEF Driven
      <4>3. driven[i].v <= 0 BY <4>1, <4>2 DEF Driven, Shapes, Suffix
      <4>4. driven[i].v \in Int
        <5>1. i \in 1..l BY <4>2 DEF Suffix
        <5>2. MaxSpeed \in Nat BY ProcessorAssumption
        <5> QED BY <4>2, <5>1, <5>2 DEF Slower, Point
      <4> QED BY <4>3, <4>4
    <3> QED BY <1>1, <3>2, <3>3, WhatIsDriven
  <2> QED BY <1>1, <2>3 DEF PlaceFresh, IInv, Leader
<1> QED BY <1>1, Invariance, PTL
=============================================================================
