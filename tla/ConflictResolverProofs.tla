------------------------- MODULE ConflictResolverProofs -------------------------
(***************************************************************************)
(* Theorems about the conflict resolvers in an open environment and in the  *)
(* closed loop with vehicles that obey them, for any number of vehicles and *)
(* resolvers and any geometry of the routes.  First what the operators of   *)
(* Coordination return: detection yields sections on the route, every       *)
(* decision names two different vehicles of its pair, and the lock it leaves *)
(* is of the shape the state machine of decision_locks_ knows               *)
(* (PairStepSound).  Then the resolvers, and last the closed loop.          *)
(***************************************************************************)
EXTENDS ConflictSystem, FiniteSetTheorems, WellFoundedInduction, TLAPS

-----------------------------------------------------------------------------
(* Least and greatest elements. *)

(* A non-empty set of natural numbers has a least element: among the sets   *)
(* of the numbers below its elements there is a minimal one for inclusion.  *)
LEMMA MinOfNat ==
  ASSUME NEW S \in SUBSET Nat, S # {}
  PROVE  Min(S) \in S /\ \A x \in S : Min(S) <= x
<1> DEFINE T == {0..(x - 1) : x \in S}
<1>1. \A x \in Nat : IsFiniteSet(0..(x - 1)) /\ 0..(x - 1) \in SUBSET Nat
  BY FS_Interval
<1>2. T \subseteq FiniteSubsetsOf(Nat) /\ T # {}
  BY <1>1 DEF FiniteSubsetsOf
<1>3. PICK U \in T : \A V \in T : <<V, U>> \notin StrictSubsetOrdering(Nat)
  <2> HIDE DEF T
  <2> QED
    BY <1>2, WFMin, FS_StrictSubsetOrderingWellFounded
<1>4. PICK m \in S : U = 0..(m - 1)
  OBVIOUS
<1>5. ASSUME NEW x \in S, x < m  PROVE FALSE
  <2>1. 0..(x - 1) \subseteq 0..(m - 1) /\ 0..(x - 1) # 0..(m - 1)
    <3>1. x \in 0..(m - 1) /\ x \notin 0..(x - 1)
      BY <1>5
    <3> QED
      BY <1>5, <3>1
  <2>2. 0..(x - 1) \in T /\ 0..(x - 1) \in SUBSET Nat /\ 0..(m - 1) \in SUBSET Nat
    BY <1>1
  <2>3. <<0..(x - 1), U>> \in StrictSubsetOrdering(Nat)
    BY <1>4, <2>1, <2>2 DEF StrictSubsetOrdering
  <2> QED
    BY <1>3, <2>2, <2>3
<1>6. \A x \in S : m <= x
  BY <1>5
<1> QED
  BY <1>6 DEF Min

(* A non-empty set of natural numbers below a bound has a greatest one. *)
LEMMA MaxOfBounded ==
  ASSUME NEW b \in Nat, NEW S \in SUBSET (0..b), S # {}
  PROVE  Max(S) \in S /\ \A x \in S : x <= Max(S)
<1> DEFINE T == {b - x : x \in S}
<1>1. T \in SUBSET Nat /\ T # {}
  <2>1. \A x \in S : b - x \in Nat
    OBVIOUS
  <2> QED
    BY <2>1
<1>2. PICK t \in T : \A y \in T : t <= y
  BY <1>1, MinOfNat
<1>3. b - t \in S /\ \A x \in S : x <= b - t
  BY <1>2
<1>4. \E m \in S : \A x \in S : m >= x
  BY <1>3
<1> QED
  BY <1>4 DEF Max

(* Min and Max of two numbers.                                              *)
LEMMA MinOfTwo ==
  ASSUME NEW a \in Int, NEW b \in Int
  PROVE  Min({a, b}) = IF a <= b THEN a ELSE b
BY DEF Min

(* The larger of two numbers.                                               *)
LEMMA MaxOfTwo ==
  ASSUME NEW a \in Int, NEW b \in Int
  PROVE  Max({a, b}) = IF a >= b THEN a ELSE b
BY DEF Max

-----------------------------------------------------------------------------
(* Detection stays on the route. *)

(* The first and the last of some map points are map points.                *)
LEMMA ExtremesOnRoute ==
  ASSUME NEW S \in SUBSET Pos, S # {}
  PROVE  Min(S) \in Pos /\ Max(S) \in Pos
<1>1. RouteEnd \in Nat /\ S \in SUBSET (0..RouteEnd) /\ S \in SUBSET Nat
  BY CoordinationAssumption DEF Pos
<1>2. Min(S) \in S
  BY <1>1, MinOfNat
<1>3. Max(S) \in S
  BY <1>1, MaxOfBounded
<1> QED
  BY <1>2, <1>3

(* Widening a section backwards stops at a point of the route, and so does  *)
(* widening it forwards.                                                     *)
LEMMA WidenedOnRoute ==
  ASSUME NEW a \in Pos, NEW b \in Pos
  PROVE  /\ Max({a, b - BackDistance}) \in Pos
         /\ b <= a => Min({a, b + FollowExtension}) \in Pos
<1>1. BackDistance \in Nat /\ FollowExtension \in Nat /\ RouteEnd \in Nat
  BY CoordinationAssumption
<1>2. a \in Int /\ b - BackDistance \in Int /\ b + FollowExtension \in Int
  BY <1>1 DEF Pos
<1>3. Max({a, b - BackDistance}) = (IF a >= b - BackDistance THEN a ELSE b - BackDistance)
  BY <1>2, MaxOfTwo
<1>4. Min({a, b + FollowExtension}) = (IF a <= b + FollowExtension THEN a ELSE b + FollowExtension)
  BY <1>2, MinOfTwo
<1> QED
  BY <1>1, <1>3, <1>4 DEF Pos

(* A projection lands on the stretch the candidate covers. *)
LEMMA ProjectOnCandidate ==
  ASSUME NEW a \in Agent, AgentReady(a), NEW x \in Int
  PROVE  /\ Project(a.cand, x) \in a.cand.start..a.cand.end
         /\ a.cand.start..a.cand.end \subseteq Pos
BY CoordinationAssumption
   DEF Agent, Candidate, AgentReady, Project, ClampTo, Pos, Unknown

(* The samples of a candidate are map points.                               *)
LEMMA AheadOnRoute ==
  ASSUME NEW a \in Agent, AgentReady(a)
  PROVE  Ahead(a) \subseteq Pos
<1>1. Progress(a) \in Pos
  BY ProjectOnCandidate DEF Progress, Agent, Pos, AgentReady, Unknown
<1> QED
  BY <1>1, CoordinationAssumption DEF Ahead, Agent, Candidate, Pos

(* The table of footprint overlaps gives an angle class and a distance.     *)
LEMMA GeometryType ==
  ASSUME NEW p \in Pairs, NEW x \in Pos, NEW y \in Pos
  PROVE  LocatedAt(p, x, y) \in [angle : Angles, dist : Nat]
BY CoordinationAssumption DEF LocatedAt

(* A pair is two different vehicles.                                        *)
LEMMA PairMembers ==
  ASSUME NEW p \in Pairs
  PROVE  p[1] \in Vehicles /\ p[2] \in Vehicles /\ p[1] # p[2] /\ p = <<p[1], p[2]>>
BY CoordinationAssumption DEF Pairs, Vehicles

(* The nearest overlapping sample is one of the overlapping samples. *)
LEMMA NearestIsOverlapping ==
  ASSUME NEW ag \in [Vehicles -> Agent], NEW p \in Pairs, PairReady(ag, p),
         NEW x \in Pos, Overlapping(ag, p, x) # {}
  PROVE  NearestSecond(ag, p, x) \in Overlapping(ag, p, x)
<1> DEFINE Y == Overlapping(ag, p, x)
           d(y) == LocatedAt(p, x, y).dist
           D == {d(y) : y \in Y}
           Z == {y \in Y : d(y) = Min(D)}
<1>1. Y \subseteq Pos
  BY AheadOnRoute, PairMembers DEF Overlapping, PairReady
<1>2. \A y \in Y : d(y) \in Nat
  BY <1>1, GeometryType
<1>3. Min(D) \in D /\ \A e \in D : Min(D) <= e
  <2>1. D \in SUBSET Nat /\ D # {}
    BY <1>2
  <2> HIDE DEF D
  <2> QED
    BY <2>1, MinOfNat
<1>4. Min(Z) \in Z /\ \A y \in Z : Min(Z) <= y
  <2>1. Z \in SUBSET Nat /\ Z # {}
    <3>1. PICK y \in Y : Min(D) = d(y)
      BY <1>3, Zenon
    <3>2. y \in Z
      BY <3>1, Zenon
    <3>3. Z \subseteq Y /\ Pos \subseteq Nat
      BY CoordinationAssumption DEF Pos
    <3> QED
      BY <1>1, <3>2, <3>3, Zenon
  <2> HIDE DEF Z
  <2> QED
    BY <2>1, MinOfNat
<1>5. \A z \in Y : d(Min(Z)) < d(z) \/ (d(Min(Z)) = d(z) /\ Min(Z) <= z)
  <2> SUFFICES ASSUME NEW z \in Y
               PROVE  d(Min(Z)) < d(z) \/ (d(Min(Z)) = d(z) /\ Min(Z) <= z)
    OBVIOUS
  <2>1. d(Min(Z)) = Min(D) /\ Min(D) <= d(z) /\ d(z) \in Nat /\ Min(D) \in Nat
    BY <1>2, <1>3, <1>4
  <2>2. d(z) = Min(D) => Min(Z) <= z
    BY <1>4
  <2> HIDE DEF d, Z, D
  <2> QED
    BY <2>1, <2>2
<1>6. \E y \in Y : \A z \in Y : d(y) < d(z) \/ (d(y) = d(z) /\ y <= z)
  BY <1>4, <1>5
<1> QED
  BY <1>6 DEF NearestSecond

(* A stable range is empty or runs forward on the route. *)
LEMMA StableRangeOnRoute ==
  ASSUME NEW S, NEW K \in SUBSET Pos, NEW from \in Int
  PROVE  \/ StableRange(S, from, K) = <<>>
         \/ /\ StableRange(S, from, K) \in K \X K
            /\ StableRange(S, from, K)[1] <= StableRange(S, from, K)[2]
<1> DEFINE runs == {r \in K \X K :
                      /\ from <= r[1]
                      /\ r[2] - r[1] >= MinLength
                      /\ \A k \in S : r[1] <= k /\ k <= r[2] => k \in K}
           A == {r[1] : r \in runs}
           a == Min(A)
           B == {r[2] : r \in {q \in runs : q[1] = a}}
           b == Max(B)
<1>1. CASE runs = {}
  BY <1>1 DEF StableRange
<1>2. CASE runs # {}
  <2>0. \A r \in runs : r[1] \in K /\ r[2] \in K /\ r[1] <= r[2]
    <3> SUFFICES ASSUME NEW r \in runs PROVE r[1] \in K /\ r[2] \in K /\ r[1] <= r[2]
      OBVIOUS
    <3>1. r[1] \in K /\ r[2] \in K /\ r[2] - r[1] >= MinLength
      OBVIOUS
    <3>2. MinLength \in Nat
      BY CoordinationAssumption
    <3> HIDE DEF runs
    <3>3. K \subseteq Int
      BY CoordinationAssumption DEF Pos
    <3>4. \A i, j \in Int : j - i >= MinLength => i <= j
      BY <3>2
    <3> QED
      BY <3>1, <3>3, <3>4
  <2>1. A \in SUBSET Nat /\ A # {} /\ A \subseteq K
    <3>1. A \subseteq K /\ A # {}
      <4> HIDE DEF runs
      <4> QED
        BY <1>2, <2>0
    <3> HIDE DEF A
    <3> QED
      BY <3>1, CoordinationAssumption DEF Pos
  <2>2. a \in A
    <3> HIDE DEF A
    <3> QED
      BY <2>1, MinOfNat
  <2>3. B \in SUBSET (0..RouteEnd) /\ B # {} /\ B \subseteq K /\ \A e \in B : a <= e
    <3>1. PICK r \in runs : r[1] = a
      BY <2>2
    <3> HIDE DEF runs, a
    <3> QED
      BY <2>0, <3>1 DEF Pos
  <2>4. b \in B
    <3> HIDE DEF B
    <3> QED
      BY <2>3, MaxOfBounded, CoordinationAssumption
  <2>5. StableRange(S, from, K) = <<a, b>>
    BY <1>2 DEF StableRange
  <2>6. a \in K /\ b \in K /\ a <= b
    BY <2>1, <2>2, <2>3, <2>4
  <2> HIDE DEF a, b
  <2> QED
    BY <2>5, <2>6
<1> QED
  BY <1>1, <1>2

(* The section of the first vehicle lies on the route. *)
LEMMA ClassifiedOnRoute ==
  ASSUME NEW S \in SUBSET Pos, S # {}, NEW small \in SUBSET Pos, NEW large \in SUBSET Pos
  PROVE  ClassifiedSection(S, small, large) \in
           [type : ConflictTypes \cup {"UNCLASSIFIED_OVERLAP"}, in : Pos, out : Pos]
<1> DEFINE follow == StableRange(S, 0, small)
           conf == StableRange(S, 0, large)
           after == StableRange(S, conf[2] + 1, small)
           section(t, a, b) == [type |-> t, in |-> a, out |-> b]
<1>1. Min(S) \in Pos /\ Max(S) \in Pos
  BY ExtremesOnRoute
<1>2. follow # <<>> => follow[1] \in Pos /\ follow[2] \in Pos
  BY StableRangeOnRoute
<1>3. conf # <<>> => conf[1] \in Pos /\ conf[2] \in Pos
  BY StableRangeOnRoute
<1>4. conf # <<>> /\ after # <<>> =>
        after[1] \in Pos /\ after[2] \in Pos /\ after[1] <= after[2]
  <2> SUFFICES ASSUME conf # <<>>, after # <<>>
               PROVE  after[1] \in Pos /\ after[2] \in Pos /\ after[1] <= after[2]
    OBVIOUS
  <2>1. conf[2] + 1 \in Int
    BY <1>3, CoordinationAssumption DEF Pos
  <2> HIDE DEF conf
  <2> QED
    BY <2>1, StableRangeOnRoute
<1>5. follow # <<>> /\ conf # <<>> => Max({follow[1], conf[1] - BackDistance}) \in Pos
  <2> HIDE DEF follow, conf
  <2> QED
    BY <1>2, <1>3, WidenedOnRoute
<1>6. conf # <<>> /\ after # <<>> => Min({after[2], after[1] + FollowExtension}) \in Pos
  <2> HIDE DEF after, conf
  <2> QED
    BY <1>4, WidenedOnRoute
<1>7. 0 \in Pos
  BY CoordinationAssumption DEF Pos
<1>8. \/ ClassifiedSection(S, small, large) =
            section("RAW_FOOTPRINT_OVERLAP", Min(S), Max(S))
      \/ ClassifiedSection(S, small, large) = section("UNCLASSIFIED_OVERLAP", 0, 0)
      \/ /\ conf = <<>> /\ follow # <<>>
         /\ ClassifiedSection(S, small, large) =
              section("FOLLOWING_ONLY", follow[1], follow[2])
      \/ /\ conf # <<>> /\ follow # <<>>
         /\ ClassifiedSection(S, small, large) =
              section("DIVERGING_CONFLICT", Max({follow[1], conf[1] - BackDistance}), conf[2])
      \/ /\ conf # <<>> /\ after # <<>>
         /\ ClassifiedSection(S, small, large) =
              section("MERGING_CONFLICT_THEN_FOLLOWING", conf[1],
                      Min({after[2], after[1] + FollowExtension}))
      \/ /\ conf # <<>>
         /\ ClassifiedSection(S, small, large) =
              section("CROSSING_OR_MERGING_CONFLICT", conf[1], conf[2])
  BY Zenon DEF ClassifiedSection, Classified
<1> HIDE DEF follow, conf, after
<1> QED
  BY <1>1, <1>2, <1>3, <1>5, <1>6, <1>7, <1>8 DEF ConflictTypes

(* An active conflict has a section on the route for each of the two        *)
(* vehicles, and a leader exactly when it is a following conflict.           *)
LEMMA DetectType ==
  ASSUME NEW ag \in [Vehicles -> Agent], NEW p \in Pairs, PairReady(ag, p),
         Detect(ag, p) # NoConflict
  PROVE  /\ Detect(ag, p) \in Conflicts(p)
         /\ Detect(ag, p).type = "FOLLOWING_ONLY" => Detect(ag, p).lead # 0
         /\ Detect(ag, p).type # "FOLLOWING_ONLY" => Detect(ag, p).lead = 0
<1> DEFINE S == Samples(ag, p)
           class(c) == {x \in S : LocatedAt(p, x, NearestSecond(ag, p, x)).angle = c}
           cls == ClassifiedSection(S, class("small"), class("large"))
           hit == {NearestSecond(ag, p, x) : x \in {z \in S : cls.in <= z /\ z <= cls.out}}
           sec == [v \in {p[1], p[2]} |->
                     IF v = p[1] THEN [in |-> cls.in, out |-> cls.out]
                     ELSE [in |-> Min(hit), out |-> Max(hit)]]
           lead == IF cls.type = "FOLLOWING_ONLY" THEN FollowLead(ag, p) ELSE 0
<1>1. /\ S # {} /\ hit # {} /\ cls.type # "UNCLASSIFIED_OVERLAP"
      /\ cls.type = "FOLLOWING_ONLY" => lead # 0
      /\ Detect(ag, p) = [type |-> cls.type, sec |-> sec, lead |-> lead]
  BY Zenon DEF Detect, ConflictIn
<1>2. S \subseteq Pos
  BY AheadOnRoute, PairMembers DEF Samples, PairReady
<1>3. class("small") \in SUBSET Pos /\ class("large") \in SUBSET Pos
  BY <1>2
<1>4. cls \in [type : ConflictTypes \cup {"UNCLASSIFIED_OVERLAP"}, in : Pos, out : Pos]
  <2> HIDE DEF S, class
  <2> QED
    BY <1>1, <1>2, <1>3, ClassifiedOnRoute
<1>5. hit \in SUBSET Pos
  <2>1. \A x \in S : NearestSecond(ag, p, x) \in Pos
    <3> SUFFICES ASSUME NEW x \in S PROVE NearestSecond(ag, p, x) \in Pos
      OBVIOUS
    <3>1. x \in Pos /\ Overlapping(ag, p, x) # {}
      BY <1>2 DEF Samples
    <3>2. Overlapping(ag, p, x) \subseteq Pos
      BY AheadOnRoute, PairMembers DEF Overlapping, PairReady
    <3> QED
      BY <3>1, <3>2, NearestIsOverlapping
  <2> HIDE DEF S, cls
  <2> QED
    BY <2>1
<1>6. Min(hit) \in Pos /\ Max(hit) \in Pos
  <2> HIDE DEF hit
  <2> QED
    BY <1>1, <1>5, ExtremesOnRoute
<1>7. sec \in PairSections(p)
  <2> HIDE DEF hit, cls
  <2> QED
    BY <1>4, <1>6 DEF PairSections, Section
<1>8. lead \in {0, p[1], p[2]} /\ (cls.type # "FOLLOWING_ONLY" => lead = 0)
  <2>1. FollowLead(ag, p) \in {0, p[1], p[2]}
    BY Zenon DEF FollowLead
  <2> HIDE DEF cls
  <2> QED
    BY <2>1
<1> HIDE DEF cls, sec, lead, hit
<1> QED
  BY <1>1, <1>4, <1>7, <1>8 DEF Conflicts

-----------------------------------------------------------------------------
(* Decisions and locks. *)

(* Extending a tracked section keeps it on the route. *)
LEMMA MergeSectionsType ==
  ASSUME NEW ag \in [Vehicles -> Agent], NEW p \in Pairs, PairReady(ag, p),
         NEW cur \in PairSections(p), NEW tracked \in PairSections(p)
  PROVE  MergeSections(ag, cur, tracked) \in PairSections(p)
<1>1. ASSUME NEW v \in {p[1], p[2]}
      PROVE  MergeSection(ag[v], cur[v], tracked[v]) \in Section
  <2>1. ag[v] \in Agent /\ AgentReady(ag[v])
    BY PairMembers DEF PairReady
  <2>2. cur[v] \in Section /\ tracked[v] \in Section
    BY DEF PairSections
  <2> DEFINE S == {cur[v].in, cur[v].out, Project(ag[v].cand, tracked[v].in),
                   Project(ag[v].cand, tracked[v].out)}
  <2>3. \A x \in Pos : Project(ag[v].cand, x) \in Pos
    BY <2>1, ProjectOnCandidate, CoordinationAssumption DEF Pos
  <2>4. S \in SUBSET Pos /\ S # {}
    BY <2>2, <2>3 DEF Section
  <2>5. Min(S) \in Pos /\ Max(S) \in Pos
    <3> HIDE DEF S
    <3> QED
      BY <2>4, ExtremesOnRoute
  <2> QED
    BY <2>5 DEF MergeSection, Section
<1>2. DOMAIN cur = {p[1], p[2]}
  BY DEF PairSections
<1> QED
  BY <1>1, <1>2 DEF MergeSections, PairSections

(* Whatever rule decides, one of the two vehicles goes and the other waits. *)
LEMMA RankingRoles ==
  ASSUME NEW ag, NEW p \in Pairs, NEW c, NEW blocked
  PROVE  LET r == Ranking(ag, p, c, blocked)
         IN  /\ r.proceed \in {p[1], p[2]} /\ r.yield \in {p[1], p[2]}
             /\ r.proceed # r.yield
             /\ r.reason \in RuleReasons
<1> DEFINE rule(first, r) == [proceed |-> IF first THEN p[1] ELSE p[2],
                              yield |-> IF first THEN p[2] ELSE p[1], reason |-> r]
<1>1. PICK first \in BOOLEAN, why \in RuleReasons :
        Ranking(ag, p, c, blocked) = rule(first, why)
  BY Zenon DEF Ranking, RuleReasons
<1> QED
  BY <1>1, PairMembers

(* What one pair may go through in one cycle. *)
LEMMA PairStepCases ==
  ASSUME NEW ag, NEW p \in Pairs, NEW lock, NEW blocked
  PROVE  LET c == Detect(ag, p)
             held == HeldDecision(ag, p, c, lock)
             follow == FollowDecision(p, c, lock)
             ranked == Decision(p, c, Ranking(ag, p, c, blocked), c.sec, 0)
             stands == lock.state = "STOP" /\ ~Released(ag, lock)
             step == PairStep(ag, p, lock, blocked)
         IN  \/ /\ PairReady(ag, p) /\ c # NoConflict
                /\ \/ stands /\ step = Outcome(held, StopLock(held))
                   \/ /\ ~stands /\ c.type = "FOLLOWING_ONLY"
                      /\ step = Outcome(follow, FollowLock(follow, 0))
                   \/ /\ ~stands /\ c.type # "FOLLOWING_ONLY"
                      /\ step = Outcome(ranked, StopLock(ranked))
             \/ lock.state = "FOLLOWING" /\ step = Outcome(NoDecision, MissFollow(lock))
             \/ stands /\ step = HoldStop(p, lock)
             \/ /\ ~stands /\ lock.state # "FOLLOWING"
                /\ step = Outcome(NoDecision, NoLock)
<1> DEFINE c == Detect(ag, p)
           stands == lock.state = "STOP" /\ ~Released(ag, lock)
<1>1. CASE PairReady(ag, p) /\ c.type # "NONE"
  <2>1. PairStep(ag, p, lock, blocked) = ChooseOrder(ag, p, c, lock, blocked)
    BY <1>1 DEF PairStep, ResolvePair
  <2>2. c # NoConflict
    BY <1>1 DEF NoConflict
  <2> QED
    BY <1>1, <2>1, <2>2, Zenon DEF ChooseOrder, StopWith, FollowWith
<1>2. CASE ~(PairReady(ag, p) /\ c.type # "NONE")
  <2>1. PairStep(ag, p, lock, blocked) = HoldLock(ag, p, lock)
    BY <1>2 DEF PairStep, ResolvePair, NoConflict
  <2>2. CASE lock.state = "FOLLOWING"
    BY <2>1, <2>2 DEF HoldLock
  <2>3. CASE stands
    BY <2>1, <2>3 DEF HoldLock
  <2>4. CASE ~stands /\ lock.state # "FOLLOWING"
    BY <2>1, <2>4 DEF HoldLock
  <2> QED
    BY <2>2, <2>3, <2>4
<1> QED
  BY <1>1, <1>2

(* A lock names two different vehicles, and a following lock has not been   *)
(* missed too often.                                                         *)
GoodLock(lock) ==
  /\ lock.state # "NONE" => lock.proceed # lock.yield
  /\ lock.state = "FOLLOWING" => lock.miss < Max({1, ReleaseCount})

(* The order of a STOP lock outlives every cycle that does not see the      *)
(* proceeding vehicle past the exit; roles of a following pair never swap.  *)
KeepsOrder(ag, lock, new) ==
  /\ EnableLock /\ lock.state = "STOP" /\ ~Released(ag, lock) =>
       new.state = "STOP" /\ new.proceed = lock.proceed /\ new.yield = lock.yield
  /\ lock.state = "FOLLOWING" /\ new.state = "FOLLOWING" => new.proceed = lock.proceed

(* What is published of a pair is what its lock says. *)
Agrees(d, new) ==
  d # NoDecision =>
    /\ new.state = IF d.type = "FOLLOWING_ONLY" THEN "FOLLOWING" ELSE "STOP"
    /\ new.yield = d.yield /\ new.proceed = d.proceed

SoundStep(ag, p, lock, step) ==
  /\ step.decision \in Decisions(p)
  /\ step.lock \in Locks(p)
  /\ GoodLock(step.lock)
  /\ KeepsOrder(ag, lock, step.lock)
  /\ IF EnableLock THEN Agrees(step.decision, step.lock) ELSE step.lock = NoLock

(* following_release_count is taken as at least one.                        *)
LEMMA MissLimit == Max({1, ReleaseCount}) \in Nat /\ 0 < Max({1, ReleaseCount})
<1>1. ReleaseCount \in Int
  BY CoordinationAssumption
<1> QED
  BY <1>1, MaxOfTwo

(* Without decision locks nothing is remembered. *)
LEMMA UnlockedOutcome ==
  ASSUME NEW ag, NEW p, NEW lock \in Locks(p), NEW d \in Decisions(p), NEW new \in Locks(p),
         GoodLock(new),
         EnableLock => KeepsOrder(ag, lock, new) /\ Agrees(d, new)
  PROVE  SoundStep(ag, p, lock, Outcome(d, new))
<1>1. CASE EnableLock
  BY <1>1 DEF SoundStep, Outcome
<1>2. CASE ~EnableLock
  <2>1. Outcome(d, new) = [decision |-> d, lock |-> NoLock]
    BY <1>2 DEF Outcome
  <2>2. NoLock \in Locks(p) /\ GoodLock(NoLock) /\ KeepsOrder(ag, lock, NoLock)
    BY <1>2 DEF Locks, GoodLock, KeepsOrder, NoLock
  <2> QED
    BY <1>2, <2>1, <2>2 DEF SoundStep
<1> QED
  BY <1>1, <1>2

(* A held pair: the tracked order, extended. *)
LEMMA HeldStepSound ==
  ASSUME NEW ag \in [Vehicles -> Agent], NEW p \in Pairs, PairReady(ag, p),
         NEW lock \in Locks(p), GoodLock(lock), lock.state = "STOP",
         NEW c \in Conflicts(p)
  PROVE  LET d == HeldDecision(ag, p, c, lock)
         IN  SoundStep(ag, p, lock, Outcome(d, StopLock(d)))
<1> DEFINE d == HeldDecision(ag, p, c, lock)
<1>1. /\ lock \in StopLocks(p)
      /\ lock.proceed \in {p[1], p[2]} /\ lock.yield \in {p[1], p[2]}
      /\ lock.type \in ConflictTypes \ {"FOLLOWING_ONLY"} /\ lock.sec \in PairSections(p)
      /\ lock.proceed # lock.yield
  BY DEF Locks, StopLocks, FollowLocks, NoLock, GoodLock
<1>2. c.type \in ConflictTypes /\ c.sec \in PairSections(p)
  BY DEF Conflicts
<1>3. MergeSections(ag, c.sec, lock.sec) \in PairSections(p)
  BY <1>1, <1>2, MergeSectionsType
<1>4. /\ d.pair = p /\ d.type \in ConflictTypes \ {"FOLLOWING_ONLY"}
      /\ d.sec \in PairSections(p) /\ d.proceed = lock.proceed /\ d.yield = lock.yield
      /\ d \in Decisions(p)
  <2>1. CASE c.type = "FOLLOWING_ONLY"
    BY <1>1, <2>1 DEF HeldDecision, Decision, Kept, Decisions, Reasons
  <2>2. CASE c.type # "FOLLOWING_ONLY"
    BY <1>1, <1>2, <1>3, <2>2 DEF HeldDecision, Decision, Kept, Decisions, Reasons
  <2> QED
    BY <2>1, <2>2
<1> HIDE DEF d
<1>5. StopLock(d) \in Locks(p) /\ GoodLock(StopLock(d))
  BY <1>1, <1>4 DEF StopLock, Locks, StopLocks, GoodLock
<1>6. KeepsOrder(ag, lock, StopLock(d)) /\ Agrees(d, StopLock(d))
  BY <1>4 DEF KeepsOrder, Agrees, StopLock
<1> QED
  BY <1>4, <1>5, <1>6, UnlockedOutcome DEF d

(* A following pair: the roles it was locked with, else those detected. *)
LEMMA FollowStepSound ==
  ASSUME NEW ag, NEW p \in Pairs, NEW lock \in Locks(p), GoodLock(lock),
         ~(lock.state = "STOP" /\ ~Released(ag, lock)),
         NEW c \in Conflicts(p), c.type = "FOLLOWING_ONLY", c.lead # 0
  PROVE  LET d == FollowDecision(p, c, lock)
         IN  SoundStep(ag, p, lock, Outcome(d, FollowLock(d, 0)))
<1> DEFINE d == FollowDecision(p, c, lock)
<1>1. c.sec \in PairSections(p) /\ c.lead \in {p[1], p[2]}
  BY DEF Conflicts
<1>2. /\ d.pair = p /\ d.type = "FOLLOWING_ONLY" /\ d.sec = c.sec
      /\ d.proceed \in {p[1], p[2]} /\ d.yield \in {p[1], p[2]} /\ d.proceed # d.yield
      /\ lock.state = "FOLLOWING" => d.proceed = lock.proceed
      /\ d \in Decisions(p)
  <2>1. CASE lock.state = "FOLLOWING"
    <3>1. /\ lock.proceed \in {p[1], p[2]} /\ lock.yield \in {p[1], p[2]}
          /\ lock.proceed # lock.yield
      BY <2>1 DEF Locks, StopLocks, FollowLocks, NoLock, GoodLock
    <3> QED
      BY <1>1, <2>1, <3>1
         DEF FollowDecision, Decision, Kept, Decisions, Reasons, ConflictTypes
  <2>2. CASE lock.state # "FOLLOWING"
    <3>1. Other(c.lead, p) \in {p[1], p[2]} /\ Other(c.lead, p) # c.lead
      BY <1>1, PairMembers DEF Other
    <3> QED
      BY <1>1, <2>2, <3>1
         DEF FollowDecision, DetectedFollow, Decision, Decisions, Reasons, ConflictTypes
  <2> QED
    BY <2>1, <2>2
<1> HIDE DEF d
<1>3. FollowLock(d, 0) \in Locks(p) /\ GoodLock(FollowLock(d, 0))
  BY <1>1, <1>2, MissLimit DEF FollowLock, Locks, FollowLocks, GoodLock
<1>4. KeepsOrder(ag, lock, FollowLock(d, 0)) /\ Agrees(d, FollowLock(d, 0))
  BY <1>2 DEF KeepsOrder, Agrees, FollowLock
<1> QED
  BY <1>2, <1>3, <1>4, UnlockedOutcome DEF d

(* A newly ordered pair. *)
LEMMA RankedStepSound ==
  ASSUME NEW ag, NEW p \in Pairs, NEW lock \in Locks(p), NEW blocked,
         ~(lock.state = "STOP" /\ ~Released(ag, lock)),
         NEW c \in Conflicts(p), c.type # "FOLLOWING_ONLY"
  PROVE  LET d == Decision(p, c, Ranking(ag, p, c, blocked), c.sec, 0)
         IN  SoundStep(ag, p, lock, Outcome(d, StopLock(d)))
<1> DEFINE r == Ranking(ag, p, c, blocked)
           d == Decision(p, c, r, c.sec, 0)
<1>1. c.sec \in PairSections(p) /\ c.type \in ConflictTypes \ {"FOLLOWING_ONLY"}
  BY DEF Conflicts
<1>2. /\ r.proceed \in {p[1], p[2]} /\ r.yield \in {p[1], p[2]}
      /\ r.proceed # r.yield /\ r.reason \in RuleReasons
  BY RankingRoles
<1> HIDE DEF r
<1>3. /\ d.type = c.type /\ d.sec = c.sec /\ d.proceed = r.proceed /\ d.yield = r.yield
      /\ d \in Decisions(p)
  BY <1>1, <1>2 DEF Decision, Decisions, Reasons
<1> HIDE DEF d
<1>4. StopLock(d) \in Locks(p) /\ GoodLock(StopLock(d))
  BY <1>1, <1>2, <1>3 DEF StopLock, Locks, StopLocks, GoodLock
<1>5. KeepsOrder(ag, lock, StopLock(d)) /\ Agrees(d, StopLock(d))
  BY <1>1, <1>3 DEF KeepsOrder, Agrees, StopLock
<1> QED
  BY <1>3, <1>4, <1>5, UnlockedOutcome DEF d, r

(* A pair without an active conflict. *)
LEMMA MissedStepSound ==
  ASSUME NEW ag, NEW p \in Pairs, NEW lock \in Locks(p), GoodLock(lock),
         lock.state = "FOLLOWING"
  PROVE  SoundStep(ag, p, lock, Outcome(NoDecision, MissFollow(lock)))
<1>1. /\ lock \in FollowLocks(p) /\ lock.miss \in Nat /\ lock.proceed # lock.yield
      /\ lock.proceed \in {p[1], p[2]} /\ lock.yield \in {p[1], p[2]}
      /\ lock.type = "FOLLOWING_ONLY" /\ lock.sec \in PairSections(p)
  BY DEF Locks, StopLocks, FollowLocks, NoLock, GoodLock
<1>2. MissFollow(lock) \in Locks(p) /\ GoodLock(MissFollow(lock))
  <2>1. CASE lock.miss + 1 >= Max({1, ReleaseCount})
    BY <2>1 DEF MissFollow, Locks, GoodLock, NoLock
  <2>2. CASE ~(lock.miss + 1 >= Max({1, ReleaseCount}))
    <3>1. lock.miss + 1 \in Nat /\ lock.miss + 1 < Max({1, ReleaseCount})
      BY <1>1, <2>2, MissLimit
    <3>2. MissFollow(lock) = FollowLock(lock, lock.miss + 1)
      BY <2>2 DEF MissFollow
    <3> QED
      BY <1>1, <3>1, <3>2 DEF FollowLock, Locks, FollowLocks, GoodLock
  <2> QED
    BY <2>1, <2>2
<1>3. KeepsOrder(ag, lock, MissFollow(lock))
  BY <1>1 DEF KeepsOrder, MissFollow, FollowLock, NoLock
<1>4. NoDecision \in Decisions(p) /\ Agrees(NoDecision, MissFollow(lock))
  BY DEF Decisions, Agrees
<1> QED
  BY <1>2, <1>3, <1>4, UnlockedOutcome

(* A STOP lock that goes on without a detection keeps its order and agrees  *)
(* with the decision that is published for it.                              *)
LEMMA HoldStepSound ==
  ASSUME NEW ag, NEW p \in Pairs, NEW lock \in Locks(p), GoodLock(lock),
         lock.state = "STOP"
  PROVE  SoundStep(ag, p, lock, HoldStop(p, lock))
<1> DEFINE d == Decision(p, lock, Kept(lock, HoldReason), lock.sec, 0)
<1>1. /\ lock.type \in ConflictTypes \ {"FOLLOWING_ONLY"} /\ lock.sec \in PairSections(p)
      /\ lock.proceed \in {p[1], p[2]} /\ lock.yield \in {p[1], p[2]}
  BY DEF Locks, StopLocks, FollowLocks, NoLock
<1>2. d \in Decisions(p) /\ Agrees(d, lock)
  BY <1>1 DEF Decision, Kept, Decisions, Reasons, Agrees
<1>3. KeepsOrder(ag, lock, lock)
  BY DEF KeepsOrder
<1> HIDE DEF d
<1> QED
  BY <1>2, <1>3, UnlockedOutcome DEF HoldStop, d

(* A pair without a lock to hold is left without lock and decision.         *)
LEMMA DroppedStepSound ==
  ASSUME NEW ag, NEW p \in Pairs, NEW lock \in Locks(p), lock.state # "FOLLOWING",
         ~(lock.state = "STOP" /\ ~Released(ag, lock))
  PROVE  SoundStep(ag, p, lock, Outcome(NoDecision, NoLock))
<1>1. NoLock \in Locks(p) /\ GoodLock(NoLock) /\ KeepsOrder(ag, lock, NoLock)
  BY DEF Locks, GoodLock, KeepsOrder, NoLock
<1>2. NoDecision \in Decisions(p) /\ Agrees(NoDecision, NoLock)
  BY DEF Decisions, Agrees
<1> QED
  BY <1>1, <1>2, UnlockedOutcome

(* One cycle of one pair is sound, whoever else is already yielding. *)
LEMMA PairStepSound ==
  ASSUME NEW ag \in [Vehicles -> Agent], NEW p \in Pairs, NEW lock \in Locks(p),
         GoodLock(lock), NEW blocked
  PROVE  SoundStep(ag, p, lock, PairStep(ag, p, lock, blocked))
<1> DEFINE c == Detect(ag, p)
<1>1. PairReady(ag, p) /\ c # NoConflict =>
        /\ c \in Conflicts(p)
        /\ c.type = "FOLLOWING_ONLY" => c.lead # 0
  BY DetectType
<1> HIDE DEF c
<1> QED
  BY <1>1, PairStepCases, HeldStepSound, FollowStepSound, RankedStepSound,
     MissedStepSound, HoldStepSound, DroppedStepSound DEF c

-----------------------------------------------------------------------------
(* The inductive invariant: besides its type, a lock belongs to a pair its  *)
(* resolver looks after, and lives only while that resolver is ready (poses *)
(* and candidates, once heard, stay known).                                  *)
LocksBelong ==
  \A r \in Resolvers, p \in Pairs :
    /\ GoodLock(locks[r][p])
    /\ locks[r][p].state # "NONE" =>
         EnableLock /\ p \in MyPairs(r) /\ Ready(view[r], r)

IInv == TypeOK /\ LocksBelong

-----------------------------------------------------------------------------
(* What one decision cycle does to the pairs of its resolver. *)

(* Every pair of a cycle goes through a sound step, whoever yields already. *)
LEMMA OutcomesSound ==
  ASSUME TypeOK, LocksBelong, NEW r \in Resolvers, NEW p \in MyPairs(r)
  PROVE  SoundStep(view[r], p, locks[r][p], Outcomes(view[r], r, locks[r])[p])
<1>1. /\ view[r] \in [Vehicles -> Agent] /\ p \in Pairs
      /\ locks[r][p] \in Locks(p) /\ GoodLock(locks[r][p])
  BY DEF TypeOK, LocksBelong, MyPairs
<1> DEFINE blocked == AlreadyYielding(view[r], r, locks[r])[p]
<1>2. Outcomes(view[r], r, locks[r])[p] = PairStep(view[r], p, locks[r][p], blocked)
  BY Zenon DEF Outcomes
<1> HIDE DEF blocked
<1> QED
  BY <1>1, <1>2, PairStepSound

(* onTimer replaces the locks of its own pairs by the outcomes, or drops    *)
(* them all when data is missing.                                           *)
LEMMA TimerLocks ==
  ASSUME TypeOK, NEW r \in Resolvers, Timer(r), NEW q \in Resolvers, NEW p \in Pairs
  PROVE  /\ q # r => locks'[q] = locks[q]
         /\ ~Ready(view[r], r) => locks'[r][p] = NoLock
         /\ Ready(view[r], r) /\ p \in MyPairs(r) =>
              locks'[r][p] = Outcomes(view[r], r, locks[r])[p].lock
         /\ Ready(view[r], r) /\ p \notin MyPairs(r) => locks'[r][p] = locks[r][p]
BY DEF TypeOK, Timer, Conclude, NoLocks

-----------------------------------------------------------------------------
(* What is published. *)

(* Among decisions of different pairs one comes first in the double loop. *)
LEMMA FirstExists ==
  ASSUME NEW S, S # {},
         \A d \in S : d.pair \in Pairs,
         \A d, e \in S : d.pair = e.pair => d = e
  PROVE  \E d \in S : \A e \in S : e = d \/ Before(d.pair, e.pair)
<1> DEFINE A == {d.pair[1] : d \in S}
           T == {d \in S : d.pair[1] = Min(A)}
           B == {d.pair[2] : d \in T}
<1>1. \A d \in S : d.pair[1] \in Nat /\ d.pair[2] \in Nat /\ d.pair = <<d.pair[1], d.pair[2]>>
  <2> SUFFICES ASSUME NEW d \in S
               PROVE  d.pair[1] \in Nat /\ d.pair[2] \in Nat /\ d.pair = <<d.pair[1], d.pair[2]>>
    OBVIOUS
  <2>1. Vehicles \subseteq Nat
    BY CoordinationAssumption DEF Vehicles
  <2> QED
    BY <2>1, PairMembers
<1>2. Min(A) \in A /\ \A x \in A : Min(A) <= x
  <2>1. A \in SUBSET Nat /\ A # {}
    BY <1>1
  <2> HIDE DEF A
  <2> QED
    BY <2>1, MinOfNat
<1>3. Min(B) \in B /\ \A x \in B : Min(B) <= x
  <2>1. B \in SUBSET Nat /\ B # {}
    <3>1. PICK d \in S : d.pair[1] = Min(A)
      BY <1>2
    <3> HIDE DEF A
    <3> QED
      BY <1>1, <3>1
  <2> HIDE DEF B
  <2> QED
    BY <2>1, MinOfNat
<1>4. PICK d \in T : d.pair[2] = Min(B)
  BY <1>3
<1>5. ASSUME NEW e \in S  PROVE e = d \/ Before(d.pair, e.pair)
  <2>1. d.pair[1] = Min(A) /\ Min(A) <= e.pair[1]
    BY <1>2, <1>4
  <2>2. CASE e.pair[1] = Min(A)
    <3>1. d.pair[2] <= e.pair[2]
      BY <1>3, <1>4, <2>2
    <3>2. d.pair[2] = e.pair[2] => d.pair = e.pair
      BY <1>1, <2>1, <2>2
    <3>3. d.pair[2] \in Nat /\ e.pair[2] \in Nat /\ d \in S
      BY <1>1
    <3>4. d.pair[2] < e.pair[2] \/ d = e
      BY <3>1, <3>2, <3>3
    <3> HIDE DEF A, B, T
    <3> QED
      BY <2>1, <2>2, <3>4 DEF Before
  <2>3. CASE e.pair[1] # Min(A)
    <3>1. d.pair[1] \in Nat /\ e.pair[1] \in Nat
      BY <1>1
    <3> HIDE DEF A, B, T
    <3> QED
      BY <2>1, <2>3, <3>1 DEF Before
  <2> QED
    BY <2>2, <2>3
<1> QED
  BY <1>5

(* The decisions of a cycle: at most one for each pair. *)
PairDecisions(D) ==
  /\ \A d \in D : d.pair \in Pairs /\ d \in Decisions(d.pair) /\ d # NoDecision
  /\ \A d, e \in D : d.pair = e.pair => d = e

(* publishResult picks one of the decisions the vehicle takes part in.      *)
LEMMA FirstConflictIn ==
  ASSUME NEW D, PairDecisions(D), NEW v \in Vehicles, \E d \in D : In(v, d.pair)
  PROVE  FirstConflict(v, D) \in D /\ In(v, FirstConflict(v, D).pair)
<1> DEFINE C == {d \in D : In(v, d.pair)}
           A == {d \in C : IsActive(d)}
           S == IF A # {} THEN A ELSE C
<1>1. S # {} /\ S \subseteq C
  OBVIOUS
<1>2. \E d \in S : \A e \in S : e = d \/ Before(d.pair, e.pair)
  <2>1. (\A d \in S : d.pair \in Pairs) /\ \A d, e \in S : d.pair = e.pair => d = e
    BY <1>1 DEF PairDecisions
  <2> HIDE DEF S
  <2> QED
    BY <1>1, <2>1, FirstExists
<1>3. FirstConflict(v, D) \in S
  BY <1>2 DEF FirstConflict
<1> QED
  BY <1>1, <1>3

(* What a vehicle is told is a conflict of its own, in its own role. *)
LEMMA ConstraintType ==
  ASSUME NEW D, PairDecisions(D), NEW v \in Vehicles
  PROVE  /\ ConstraintFor(v, D) \in Constraints(v)
         /\ ConstraintFor(v, D).role = "YIELD" =>
              \E d \in D : /\ ConstraintFor(v, D).pair = d.pair
                           /\ d.yield = v
                           /\ ConstraintFor(v, D).strategy =
                                IF d.type = "FOLLOWING_ONLY" THEN "FOLLOW" ELSE "STOP_AND_WAIT"
<1>1. CASE ~\E d \in D : In(v, d.pair)
  BY <1>1 DEF ConstraintFor, Constraints, NoConstraint
<1>2. CASE \E d \in D : In(v, d.pair)
  <2> DEFINE d == FirstConflict(v, D)
  <2>1. d \in D /\ d.pair \in Pairs /\ In(v, d.pair) /\ d \in Decisions(d.pair) /\ d # NoDecision
    BY <1>2, FirstConflictIn DEF PairDecisions
  <2> HIDE DEF d
  <2>2. d.sec[v].in \in Pos /\ d.sec[v].out \in Pos
    BY <2>1 DEF Decisions, PairSections, Section, In
  <2>3. ConstraintFor(v, D) = Constraint(v, d)
    BY <1>2 DEF ConstraintFor, d
  <2> QED
    BY <2>1, <2>2, <2>3 DEF Constraint, Constraints
<1> QED
  BY <1>1, <1>2

(* The decisions of resolver r in this cycle. *)
CycleDecisions(r) ==
  IF Ready(view[r], r)
  THEN {Outcomes(view[r], r, locks[r])[p].decision : p \in MyPairs(r)} \ {NoDecision}
  ELSE {}

(* A cycle has one well-formed decision for each pair it reports, and the   *)
(* lock of that pair agrees with it.                                        *)
LEMMA CycleDecisionsSound ==
  ASSUME TypeOK, LocksBelong, NEW r \in Resolvers
  PROVE  /\ PairDecisions(CycleDecisions(r))
         /\ \A d \in CycleDecisions(r) :
              /\ Ready(view[r], r) /\ d.pair \in MyPairs(r)
              /\ EnableLock => Agrees(d, Outcomes(view[r], r, locks[r])[d.pair].lock)
<1> DEFINE out == Outcomes(view[r], r, locks[r])
<1>1. ASSUME NEW p \in MyPairs(r), out[p].decision # NoDecision
      PROVE  /\ out[p].decision.pair = p /\ p \in Pairs /\ out[p].decision \in Decisions(p)
             /\ EnableLock => Agrees(out[p].decision, out[p].lock)
  <2>1. SoundStep(view[r], p, locks[r][p], out[p])
    BY OutcomesSound
  <2> HIDE DEF out
  <2> QED
    BY <1>1, <2>1 DEF SoundStep, Decisions, MyPairs
<1>2. \A d \in CycleDecisions(r) :
        /\ Ready(view[r], r) /\ d # NoDecision
        /\ \E p \in MyPairs(r) : d = out[p].decision
  BY DEF CycleDecisions
<1> HIDE DEF out
<1>3. \A d \in CycleDecisions(r) :
        /\ d # NoDecision /\ d.pair \in Pairs /\ d \in Decisions(d.pair)
        /\ Ready(view[r], r) /\ d.pair \in MyPairs(r) /\ d = out[d.pair].decision
        /\ EnableLock => Agrees(d, out[d.pair].lock)
  BY <1>1, <1>2
<1> QED
  BY <1>3 DEF PairDecisions, out

(* Every vehicle the resolver speaks to gets its constraint of this cycle.  *)
LEMMA TimerMessages ==
  ASSUME TypeOK, NEW r \in Resolvers, Timer(r), NEW v \in Vehicles
  PROVE  msg'[v] = IF Publishes(r, v) THEN ConstraintFor(v, CycleDecisions(r)) ELSE msg[v]
BY DEF Timer, Conclude, Tell, CycleDecisions

-----------------------------------------------------------------------------
(* The invariant is inductive. *)

(* Nothing is locked or published initially.                                *)
LEMMA InitIInv == Init => IInv
<1> SUFFICES ASSUME Init PROVE IInv
  OBVIOUS
<1>1. 0 \in Pos /\ 0 \in 0..MaxSpeed /\ NoCandidate \in Candidate /\ NoAgent \in Agent
  BY CoordinationAssumption DEF Pos, NoCandidate, Candidate, NoAgent, Agent
<1>2. \A p \in Pairs : NoLock \in Locks(p)
  BY DEF Locks
<1>3. \A v \in Vehicles : NoConstraint \in Constraints(v)
  BY DEF Constraints
<1>4. \A r \in Resolvers, p \in Pairs : locks[r][p] = NoLock
  BY DEF Init, NoLocks
<1>5. TypeOK
  BY <1>1, <1>2, <1>3, <1>4, Zenon DEF Init, TypeOK, NoLocks
<1>6. LocksBelong
  BY <1>4 DEF LocksBelong, GoodLock, NoLock
<1> QED
  BY <1>5, <1>6 DEF IInv

(* A decision cycle keeps the invariant. *)
LEMMA TimerIInv ==
  ASSUME IInv, NEW r \in Resolvers, Timer(r)
  PROVE  IInv'
<1> USE DEF IInv
<1>1. ASSUME NEW q \in Resolvers, NEW p \in Pairs
      PROVE  /\ locks'[q][p] \in Locks(p)
             /\ GoodLock(locks'[q][p])
             /\ locks'[q][p].state # "NONE" =>
                  EnableLock /\ p \in MyPairs(q) /\ Ready(view'[q], q)
  <2>0. view' = view
    BY DEF Timer
  <2>1. /\ locks[q][p] \in Locks(p) /\ GoodLock(locks[q][p])
        /\ locks[q][p].state # "NONE" => EnableLock /\ p \in MyPairs(q) /\ Ready(view[q], q)
    BY DEF TypeOK, LocksBelong
  <2>2. CASE q # r
    BY <2>0, <2>1, <2>2, TimerLocks
  <2>3. CASE q = r /\ ~Ready(view[r], r)
    <3>1. locks'[q][p] = NoLock
      BY <2>3, TimerLocks
    <3> QED
      BY <3>1 DEF NoLock, Locks, GoodLock
  <2>4. CASE q = r /\ Ready(view[r], r) /\ p \notin MyPairs(r)
    BY <2>0, <2>1, <2>4, TimerLocks
  <2>5. CASE q = r /\ Ready(view[r], r) /\ p \in MyPairs(r)
    <3> DEFINE step == Outcomes(view[r], r, locks[r])[p]
    <3>1. locks'[q][p] = step.lock /\ SoundStep(view[r], p, locks[r][p], step)
      BY <2>5, TimerLocks, OutcomesSound
    <3> HIDE DEF step
    <3> QED
      BY <2>0, <2>5, <3>1 DEF SoundStep, NoLock
  <2> QED
    BY <2>2, <2>3, <2>4, <2>5

<1>2. ASSUME NEW v \in Vehicles
      PROVE  msg'[v] \in Constraints(v)
  <2>1. msg[v] \in Constraints(v)
    BY DEF TypeOK
  <2>2. ConstraintFor(v, CycleDecisions(r)) \in Constraints(v)
    BY CycleDecisionsSound, ConstraintType
  <2> QED
    BY <2>1, <2>2, TimerMessages
<1>3. /\ UNCHANGED <<pos, speed, cand, view>>
      /\ locks' \in [Resolvers -> [Pairs -> UNION {Locks(p) : p \in Pairs}]]
      /\ msg' \in [Vehicles -> UNION {Constraints(v) : v \in Vehicles}]
  <2>1. UNCHANGED <<pos, speed, cand, view>>
    BY DEF Timer
  <2>2. msg' = [v \in Vehicles |-> msg'[v]]
    BY DEF Timer, Conclude, Tell
  <2>3. msg' \in [Vehicles -> UNION {Constraints(v) : v \in Vehicles}]
    BY <1>2, <2>2
  <2>4. locks' = [q \in Resolvers |-> locks'[q]]
    BY DEF Timer, Conclude, TypeOK
  <2>5. ASSUME NEW q \in Resolvers
        PROVE  locks'[q] = [p \in Pairs |-> locks'[q][p]]
    <3>1. CASE q = r
      BY <3>1 DEF Timer, Conclude, TypeOK, NoLocks
    <3>2. CASE q # r
      BY <3>2 DEF Timer, Conclude, TypeOK
    <3> QED
      BY <3>1, <3>2
  <2>6. ASSUME NEW q \in Resolvers
        PROVE  locks'[q] \in [Pairs -> UNION {Locks(p) : p \in Pairs}]
    BY <1>1, <2>5
  <2>7. locks' \in [Resolvers -> [Pairs -> UNION {Locks(p) : p \in Pairs}]]
    BY <2>4, <2>6
  <2> QED
    BY <2>1, <2>3, <2>7
<1>4. TypeOK'
  BY <1>1, <1>2, <1>3 DEF TypeOK
<1>5. LocksBelong'
  BY <1>1 DEF LocksBelong
<1> QED
  BY <1>4, <1>5

(* What a callback adds to a view: everything that was known stays known. *)
Learns(r, v, a) ==
  /\ a \in Agent
  /\ view' = [view EXCEPT ![r][v] = a]
  /\ AgentReady(view[r][v]) => AgentReady(a)
  /\ UNCHANGED <<pos, speed, cand, locks, msg>>

(* Each callback copies one topic of one vehicle into the view.             *)
LEMMA HearLearns ==
  ASSUME TypeOK, NEW r \in Resolvers, NEW v \in Vehicles,
         OnLocalization(r, v) \/ OnChassis(r, v) \/ OnCandidate(r, v)
  PROVE  \E a : Learns(r, v, a)
<1>1. /\ view[r][v] \in Agent /\ pos[v] \in Pos /\ speed[v] \in 0..MaxSpeed
      /\ cand[v] \in Candidate
  BY DEF TypeOK
<1>2. \A x \in Pos : x # Unknown
  BY CoordinationAssumption DEF Pos, Unknown
<1>3. CASE OnLocalization(r, v)
  <2> DEFINE a == [view[r][v] EXCEPT !.pos = pos[v]]
  <2>1. a \in Agent /\ (AgentReady(view[r][v]) => AgentReady(a))
    BY <1>1, <1>2 DEF Agent, AgentReady
  <2>2. view' = [view EXCEPT ![r][v] = a]
    BY <1>3 DEF OnLocalization
  <2> QED
    BY <1>3, <2>1, <2>2 DEF Learns, OnLocalization
<1>4. CASE OnChassis(r, v)
  <2> DEFINE a == [view[r][v] EXCEPT !.speed = speed[v]]
  <2>1. a \in Agent /\ (AgentReady(view[r][v]) => AgentReady(a))
    BY <1>1 DEF Agent, AgentReady
  <2>2. view' = [view EXCEPT ![r][v] = a]
    BY <1>4 DEF OnChassis
  <2> QED
    BY <1>4, <2>1, <2>2 DEF Learns, OnChassis
<1>5. CASE OnCandidate(r, v)
  <2> DEFINE a == [view[r][v] EXCEPT !.cand = cand[v]]
  <2>1. a \in Agent /\ (AgentReady(view[r][v]) => AgentReady(a))
    BY <1>1, <1>5 DEF Agent, AgentReady, OnCandidate
  <2>2. view' = [view EXCEPT ![r][v] = a]
    BY <1>5 DEF OnCandidate
  <2> QED
    BY <1>5, <2>1, <2>2 DEF Learns, OnCandidate
<1> QED
  BY <1>3, <1>4, <1>5

(* A callback keeps the invariant. *)
LEMMA HearIInv ==
  ASSUME IInv, NEW r \in Resolvers, NEW v \in Vehicles,
         OnLocalization(r, v) \/ OnChassis(r, v) \/ OnCandidate(r, v)
  PROVE  IInv'
<1> USE DEF IInv
<1>1. PICK a : Learns(r, v, a)
  BY HearLearns
<1>2. /\ view \in [Resolvers -> [Vehicles -> Agent]]
      /\ view' = [view EXCEPT ![r][v] = a] /\ a \in Agent
      /\ UNCHANGED <<pos, speed, cand, locks, msg>>
  BY <1>1 DEF Learns, TypeOK
<1>3. view' \in [Resolvers -> [Vehicles -> Agent]]
  BY <1>2
<1>4. ASSUME NEW q \in Resolvers, NEW u \in Vehicles, AgentReady(view[q][u])
      PROVE  AgentReady(view'[q][u])
  <2>1. CASE q = r /\ u = v
    BY <1>1, <1>2, <1>4, <2>1 DEF Learns
  <2>2. CASE ~(q = r /\ u = v)
    <3>1. view'[q][u] = view[q][u]
      BY <1>2, <2>2
    <3> QED
      BY <1>4, <3>1
  <2> QED
    BY <2>1, <2>2
<1>5. \A q \in Resolvers : Ready(view[q], q) => Ready(view'[q], q)
  BY <1>4 DEF Ready
<1>6. TypeOK'
  BY <1>2, <1>3 DEF TypeOK
<1>7. LocksBelong'
  BY <1>2, <1>5 DEF LocksBelong
<1> QED
  BY <1>6, <1>7

(* So do the vehicles. *)
LEMMA VehicleIInv ==
  ASSUME IInv, NEW v \in Vehicles, Vehicle(v)
  PROVE  IInv'
<1> USE DEF IInv
<1>1. pos \in [Vehicles -> Pos] /\ speed \in [Vehicles -> 0..MaxSpeed] /\ cand \in [Vehicles -> Candidate]
  BY DEF TypeOK
<1>2. UNCHANGED <<view, locks, msg>>
  BY DEF Vehicle, Plan, Drive, Moves
<1>3. CASE Plan(v)
  <2>1. PICK len \in PlanLengths, w \in PlanSpeeds[v] :
          cand' = [cand EXCEPT ![v] =
                     [start |-> pos[v], end |-> Min({RouteEnd, pos[v] + len}), v |-> w]]
    BY <1>3 DEF Plan
  <2>2. Min({RouteEnd, pos[v] + len}) \in Pos
    <3>1. RouteEnd \in Nat /\ len \in Nat /\ pos[v] \in Pos
      BY <1>1, CoordinationAssumption, ResolverAssumption
    <3>2. pos[v] + len \in Nat
      BY <3>1 DEF Pos
    <3>3. Min({RouteEnd, pos[v] + len}) = IF RouteEnd <= pos[v] + len THEN RouteEnd ELSE pos[v] + len
      BY <3>1, <3>2, MinOfTwo
    <3> QED
      BY <3>1, <3>2, <3>3 DEF Pos
  <2>3. cand' \in [Vehicles -> Candidate]
    BY <1>1, <2>1, <2>2, ResolverAssumption DEF Candidate
  <2>4. UNCHANGED <<pos, speed>>
    BY <1>3 DEF Plan
  <2> QED
    BY <1>2, <2>3, <2>4 DEF TypeOK, LocksBelong
<1>4. CASE Drive(v)
  <2>1. PICK s \in 0..MaxSpeed : Moves(v, s)
    BY <1>4 DEF Drive
  <2>2. pos[v] + s \in Pos
    BY <1>1, <2>1, CoordinationAssumption DEF Moves, Candidate, Pos
  <2>3. pos' \in [Vehicles -> Pos] /\ speed' \in [Vehicles -> 0..MaxSpeed] /\ UNCHANGED cand
    BY <1>1, <2>1, <2>2 DEF Moves
  <2> QED
    BY <1>2, <2>3 DEF TypeOK, LocksBelong
<1> QED
  BY <1>3, <1>4 DEF Vehicle

(* Every step of the system keeps the invariant.                             *)
LEMMA NextIInv == IInv /\ [Next]_vars => IInv'
<1> SUFFICES ASSUME IInv, [Next]_vars PROVE IInv'
  OBVIOUS
<1>1. ASSUME NEW r \in Resolvers, Timer(r)  PROVE IInv'
  BY <1>1, TimerIInv
<1>2. ASSUME NEW r \in Resolvers, Hear(r)  PROVE IInv'
  BY <1>2, HearIInv DEF Hear
<1>3. ASSUME NEW v \in Vehicles, Vehicle(v)  PROVE IInv'
  BY <1>3, VehicleIInv
<1>4. CASE UNCHANGED vars
  BY <1>4 DEF IInv, TypeOK, LocksBelong, vars
<1> QED
  BY <1>1, <1>2, <1>3, <1>4 DEF Next, Resolver

(* The inductive invariant holds in every behaviour. *)
THEOREM Invariance == Spec => []IInv
BY InitIInv, NextIInv, PTL DEF Spec

(* Every variable keeps its type, whatever the geometry and the number of   *)
(* vehicles: sections stay on the route, and a lock never mixes stopping    *)
(* and following.                                                            *)
THEOREM TypeCorrect == Spec => []TypeOK
<1>1. IInv => TypeOK
  BY DEF IInv
<1> QED
  BY <1>1, Invariance, PTL

-----------------------------------------------------------------------------
(* The order of a pair. *)

(* Every lock orders its two vehicles, and a following lock is given up     *)
(* after following_release_count cycles without a detection.                 *)
THEOREM LocksAreSound == Spec => []LocksSound
<1>1. IInv => LocksSound
  BY DEF IInv, LocksBelong, GoodLock, LocksSound, Following
<1> QED
  BY <1>1, Invariance, PTL

(* A step changes a lock only as KeepsOrder allows. *)
LEMMA StepKeepsOrder ==
  ASSUME IInv, [Next]_vars, NEW r \in Resolvers, NEW p \in Pairs
  PROVE  KeepsOrder(view[r], locks[r][p], locks'[r][p])
<1>1. CASE locks' = locks
  BY <1>1 DEF KeepsOrder
<1>2. ASSUME NEW q \in Resolvers, Timer(q)
      PROVE  KeepsOrder(view[r], locks[r][p], locks'[r][p])
  <2>1. /\ TypeOK /\ LocksBelong
        /\ locks[r][p].state # "NONE" => EnableLock /\ p \in MyPairs(r) /\ Ready(view[r], r)
        /\ locks[r][p] \in Locks(p)
    BY DEF IInv, LocksBelong, TypeOK
  <2>2. CASE q # r
    <3>1. locks'[r] = locks[r]
      BY <1>2, <2>1, <2>2, TimerLocks
    <3> QED
      BY <3>1 DEF KeepsOrder
  <2>3. CASE locks[r][p].state = "NONE"
    BY <2>3 DEF KeepsOrder
  <2>4. CASE q = r /\ locks[r][p].state # "NONE"
    <3> DEFINE step == Outcomes(view[r], r, locks[r])[p]
    <3>1. locks'[r][p] = step.lock /\ SoundStep(view[r], p, locks[r][p], step)
      BY <1>2, <2>1, <2>4, TimerLocks, OutcomesSound
    <3> HIDE DEF step
    <3> QED
      BY <3>1 DEF SoundStep
  <2> QED
    BY <2>2, <2>3, <2>4
<1>3. \/ locks' = locks
      \/ \E q \in Resolvers : Timer(q)
  BY DEF Next, Resolver, Hear, OnLocalization, OnChassis, OnCandidate,
         Vehicle, Plan, Drive, Moves, vars
<1> QED
  BY <1>1, <1>2, <1>3

(* An order is kept until the vehicle it lets go has left the tracked exit, *)
(* for any number of vehicles, resolvers and any geometry (chooseOrder,      *)
(* appendHeldDecisionLocks).                                                 *)
THEOREM OrderIsHeld == Spec => StopOrderHeld
<1>1. ASSUME IInv, [Next]_vars, NEW r \in Resolvers, NEW p \in Pairs, Stopped(r, p)
      PROVE  \/ /\ Stopped(r, p)'
                /\ locks'[r][p].proceed = locks[r][p].proceed
                /\ locks'[r][p].yield = locks[r][p].yield
             \/ Released(view[r], locks[r][p])
  <2>1. EnableLock /\ locks[r][p].state = "STOP"
    BY <1>1 DEF IInv, LocksBelong, Stopped
  <2>2. KeepsOrder(view[r], locks[r][p], locks'[r][p])
    BY <1>1, StepKeepsOrder
  <2> QED
    BY <2>1, <2>2 DEF KeepsOrder, Stopped
<1>2. IInv /\ [Next]_vars =>
        [\A r \in Resolvers, p \in Pairs :
           Stopped(r, p) =>
             \/ /\ Stopped(r, p)'
                /\ locks'[r][p].proceed = locks[r][p].proceed
                /\ locks'[r][p].yield = locks[r][p].yield
             \/ Released(view[r], locks[r][p])]_vars
  BY <1>1
<1> QED
  BY <1>2, Invariance, PTL DEF Spec, StopOrderHeld

(* Lead and rear of a following pair are never swapped while it follows. *)
THEOREM RolesAreKept == Spec => FollowRolesKept
<1>1. ASSUME IInv, [Next]_vars, NEW r \in Resolvers, NEW p \in Pairs,
             Following(r, p), Following(r, p)'
      PROVE  locks'[r][p].proceed = locks[r][p].proceed
  BY <1>1, StepKeepsOrder DEF KeepsOrder, Following
<1>2. IInv /\ [Next]_vars =>
        [\A r \in Resolvers, p \in Pairs :
           Following(r, p) /\ Following(r, p)' =>
             locks'[r][p].proceed = locks[r][p].proceed]_vars
  BY <1>1
<1> QED
  BY <1>2, Invariance, PTL DEF Spec, FollowRolesKept

-----------------------------------------------------------------------------
(* One strategy for a pair. *)

(* One resolver speaks to each vehicle: either the central one alone runs,  *)
(* or only ego resolvers do.                                                 *)
OneSpeaker == Resolvers = {Central} \/ Central \notin Resolvers

(* When decisions are locked and one resolver speaks to each vehicle, a     *)
(* vehicle told to follow is the rear of a FOLLOWING lock and one told to    *)
(* stop the yielding vehicle of a STOP lock of that resolver.                *)
THEOREM OneStrategy ==
  ASSUME OneSpeaker, EnableLock
  PROVE  Spec => []OneStrategyPerPair
<1>1. Init => OneStrategyPerPair
  BY DEF Init, OneStrategyPerPair, NoConstraint
<1>2. IInv /\ OneStrategyPerPair /\ [Next]_vars => OneStrategyPerPair'
  <2> SUFFICES ASSUME IInv, OneStrategyPerPair, [Next]_vars,
                      NEW r \in Resolvers, NEW v \in Vehicles,
                      Publishes(r, v), msg'[v].role = "YIELD"
               PROVE  /\ locks'[r][msg'[v].pair].state =
                           IF msg'[v].strategy = "FOLLOW" THEN "FOLLOWING" ELSE "STOP"
                      /\ locks'[r][msg'[v].pair].yield = v
    BY DEF OneStrategyPerPair, Publishes
  <2>1. CASE locks' = locks /\ msg' = msg
    BY <2>1 DEF OneStrategyPerPair
  <2>2. ASSUME NEW q \in Resolvers, Timer(q), q = r
        PROVE  /\ locks'[r][msg'[v].pair].state =
                    IF msg'[v].strategy = "FOLLOW" THEN "FOLLOWING" ELSE "STOP"
               /\ locks'[r][msg'[v].pair].yield = v
    <3> DEFINE D == CycleDecisions(r)
               out == Outcomes(view[r], r, locks[r])
    <3>1. TypeOK /\ LocksBelong /\ Timer(r)
      BY <2>2 DEF IInv
    <3>2. msg'[v] = ConstraintFor(v, D)
      BY <3>1, TimerMessages
    <3>3. PICK d \in D : /\ msg'[v].pair = d.pair /\ d.yield = v
                         /\ msg'[v].strategy =
                              IF d.type = "FOLLOWING_ONLY" THEN "FOLLOW" ELSE "STOP_AND_WAIT"
      BY <3>1, <3>2, CycleDecisionsSound, ConstraintType
    <3>4. /\ Ready(view[r], r) /\ d.pair \in MyPairs(r) /\ d.pair \in Pairs /\ d # NoDecision
          /\ Agrees(d, out[d.pair].lock)
      BY <3>1, CycleDecisionsSound DEF PairDecisions
    <3>5. locks'[r][d.pair] = out[d.pair].lock
      BY <3>1, <3>4, TimerLocks
    <3> HIDE DEF D, out
    <3> QED
      BY <3>3, <3>4, <3>5 DEF Agrees
  <2>3. ASSUME NEW q \in Resolvers, Timer(q), q # r
        PROVE  locks'[r] = locks[r] /\ msg'[v] = msg[v]
    <3>1. TypeOK /\ ~Publishes(q, v)
      BY <2>3 DEF IInv, OneSpeaker, Publishes
    <3>2. locks'[r] = locks[r]
      BY <2>3, <3>1 DEF Timer, Conclude, TypeOK
    <3> QED
      BY <2>3, <3>1, <3>2, TimerMessages
  <2>4. \/ locks' = locks /\ msg' = msg
        \/ \E q \in Resolvers : Timer(q)
    BY DEF Next, Resolver, Hear, OnLocalization, OnChassis, OnCandidate,
           Vehicle, Plan, Drive, Moves, vars
  <2> QED
    BY <2>1, <2>2, <2>3, <2>4 DEF OneStrategyPerPair
<1> QED
  BY <1>1, <1>2, Invariance, PTL DEF Spec

-----------------------------------------------------------------------------
(* No STOP lock is kept from the vehicles. *)

(* A decision is never mistaken for the lack of one.                        *)
LEMMA DecisionIsOne ==
  ASSUME NEW p, NEW c, NEW roles, NEW sec, NEW lead
  PROVE  Decision(p, c, roles, sec, lead) # NoDecision
<1>1. DOMAIN NoDecision = {"type"}
  BY DEF NoDecision
<1>2. "pair" \in DOMAIN Decision(p, c, roles, sec, lead)
  BY DEF Decision
<1> QED
  BY <1>1, <1>2

(* A pair left with a STOP lock is in the result of the same cycle, be it    *)
(* detected again, newly ordered or held without a detection                 *)
(* (chooseOrder, appendHeldDecisionLocks).                                   *)
LEMMA StopIsReported ==
  ASSUME NEW ag, NEW p \in Pairs, NEW lock, NEW blocked,
         PairStep(ag, p, lock, blocked).lock.state = "STOP"
  PROVE  PairStep(ag, p, lock, blocked).decision # NoDecision
<1> DEFINE c == Detect(ag, p)
           held == HeldDecision(ag, p, c, lock)
           ranked == Decision(p, c, Ranking(ag, p, c, blocked), c.sec, 0)
           again == Decision(p, lock, Kept(lock, HoldReason), lock.sec, 0)
           step == PairStep(ag, p, lock, blocked)
<1>1. held # NoDecision /\ ranked # NoDecision /\ again # NoDecision
  BY DecisionIsOne DEF HeldDecision
<1>2. \/ \E new : step = Outcome(held, new)
      \/ \E new : step = Outcome(ranked, new)
      \/ \E new : step = Outcome(again, new)
      \/ \E d, new : step = Outcome(d, new) /\ new.state # "STOP"
  <2>1. \A d, n : FollowLock(d, n).state # "STOP"
    BY DEF FollowLock
  <2>2. MissFollow(lock).state # "STOP" /\ NoLock.state # "STOP"
    BY <2>1 DEF MissFollow, NoLock
  <2> QED
    BY <2>1, <2>2, PairStepCases DEF HoldStop
<1> HIDE DEF held, ranked, again
<1>3. \A d, new : /\ Outcome(d, new).decision = d
                  /\ Outcome(d, new).lock.state = "STOP" => new.state = "STOP"
  BY DEF Outcome, NoLock
<1> QED
  BY <1>1, <1>2, <1>3

(* Whom a STOP lock of its resolver concerns is told a conflict, and when it *)
(* is the conflict of that pair, whether to yield is what the lock says.     *)
StopIsTold ==
  \A r \in Resolvers, v \in Vehicles, p \in Pairs :
    Publishes(r, v) /\ Stopped(r, p) /\ In(v, p) =>
      /\ msg[v].role # "NONE"
      /\ msg[v].pair = p => (msg[v].role = "YIELD" <=> locks[r][p].yield = v)

(* For any number of vehicles, no STOP lock is kept from the vehicles it     *)
(* concerns: publishResult tells each of them that conflict, or one that     *)
(* comes before it in the result.                                            *)
THEOREM StopsAreTold ==
  ASSUME OneSpeaker
  PROVE  Spec => []StopIsTold
<1>1. Init => StopIsTold
  BY DEF Init, StopIsTold, Stopped, NoLocks, NoLock
<1>2. IInv /\ StopIsTold /\ [Next]_vars => StopIsTold'
  <2> SUFFICES ASSUME IInv, StopIsTold, [Next]_vars,
                      NEW r \in Resolvers, NEW v \in Vehicles, NEW p \in Pairs,
                      Publishes(r, v), locks'[r][p].state = "STOP", In(v, p)
               PROVE  /\ msg'[v].role # "NONE"
                      /\ msg'[v].pair = p => (msg'[v].role = "YIELD" <=> locks'[r][p].yield = v)
    BY DEF StopIsTold, Publishes, Stopped
  <2>1. CASE locks' = locks /\ msg' = msg
    BY <2>1 DEF StopIsTold, Stopped
  <2>2. CASE Timer(r)
    <3> DEFINE D == CycleDecisions(r)
               out == Outcomes(view[r], r, locks[r])
               blocked == AlreadyYielding(view[r], r, locks[r])[p]
               first == FirstConflict(v, D)
    <3>1. TypeOK /\ LocksBelong
      BY DEF IInv
    <3>2. EnableLock /\ p \in MyPairs(r) /\ Ready(view[r], r)
      <4>1. IInv' /\ view' = view
        BY <2>2, TimerIInv DEF Timer
      <4> QED
        BY <4>1 DEF IInv, LocksBelong
    <3>3. locks'[r][p] = out[p].lock /\ SoundStep(view[r], p, locks[r][p], out[p])
      BY <2>2, <3>1, <3>2, TimerLocks, OutcomesSound
    <3>4. out[p].decision # NoDecision
      <4>1. out[p] = PairStep(view[r], p, locks[r][p], blocked)
        BY <3>2, Zenon DEF Outcomes
      <4> HIDE DEF out, blocked
      <4> QED
        BY <3>3, <4>1, StopIsReported
    <3>5. out[p].decision \in D /\ out[p].decision.pair = p
      <4>1. out[p].decision \in D
        BY <3>2, <3>4 DEF CycleDecisions
      <4> HIDE DEF out
      <4> QED
        BY <3>3, <3>4, <4>1 DEF SoundStep, Decisions
    <3>6. msg'[v] = ConstraintFor(v, D)
      BY <2>2, <3>1, TimerMessages
    <3>7. PairDecisions(D)
      BY <3>1, CycleDecisionsSound
    <3>8. locks'[r][p].yield = out[p].decision.yield
      <4> HIDE DEF out
      <4> QED
        BY <3>2, <3>3, <3>4 DEF SoundStep, Agrees
    <3> HIDE DEF D, out
    <3>9. first \in D /\ msg'[v] = Constraint(v, first)
      BY <3>5, <3>6, <3>7, FirstConflictIn DEF ConstraintFor
    <3>10. first.pair = p => first = out[p].decision
      BY <3>5, <3>7, <3>9 DEF PairDecisions
    <3> HIDE DEF first
    <3>11. /\ msg'[v].role # "NONE" /\ msg'[v].pair = first.pair
           /\ msg'[v].role = "YIELD" <=> v = first.yield
      BY <3>9 DEF Constraint
    <3> QED
      BY <3>8, <3>10, <3>11
  <2>3. ASSUME NEW q \in Resolvers, Timer(q), q # r
        PROVE  locks'[r] = locks[r] /\ msg'[v] = msg[v]
    <3>1. TypeOK /\ ~Publishes(q, v)
      BY <2>3 DEF IInv, OneSpeaker, Publishes
    <3>2. locks'[r] = locks[r]
      BY <2>3, <3>1 DEF Timer, Conclude, TypeOK
    <3> QED
      BY <2>3, <3>1, <3>2, TimerMessages
  <2>4. \/ locks' = locks /\ msg' = msg
        \/ \E q \in Resolvers : Timer(q)
    BY DEF Next, Resolver, Hear, OnLocalization, OnChassis, OnCandidate,
           Vehicle, Plan, Drive, Moves, vars
  <2> QED
    BY <2>1, <2>2, <2>3, <2>4 DEF StopIsTold, Stopped
<1> QED
  BY <1>1, <1>2, Invariance, PTL DEF Spec

(* Two vehicles have one conflict at most, so the one a STOP lock makes      *)
(* yield is told to yield. (With three, a vehicle that goes first in one     *)
(* pair may be told only that.)                                              *)
THEOREM YieldIsTold ==
  ASSUME OneSpeaker, N = 2
  PROVE  Spec => []YieldIsPublished
<1>1. IInv /\ StopIsTold => YieldIsPublished
  <2> SUFFICES ASSUME IInv, StopIsTold,
                      NEW r \in Resolvers, NEW v \in Vehicles, NEW p \in Pairs,
                      Publishes(r, v), Stopped(r, p), locks[r][p].yield = v
               PROVE  msg[v].role = "YIELD"
    BY DEF YieldIsPublished
  <2>1. locks[r][p] \in Locks(p) /\ locks[r][p].state = "STOP" /\ msg[v] \in Constraints(v)
    BY DEF IInv, TypeOK, Stopped
  <2>2. In(v, p)
    BY <2>1 DEF Locks, StopLocks, FollowLocks, NoLock, In
  <2>3. msg[v].role # "NONE" /\ (msg[v].pair = p => msg[v].role = "YIELD")
    BY <2>2 DEF StopIsTold
  <2>4. msg[v].pair \in Pairs
    BY <2>1, <2>3 DEF Constraints, NoConstraint
  <2>5. \A q \in Pairs : q = <<1, 2>>
    <3> TAKE q \in Pairs
    <3>1. q[1] \in 1..2 /\ q[2] \in 1..2 /\ q[1] < q[2] /\ q = <<q[1], q[2]>>
      BY PairMembers DEF Pairs, Vehicles
    <3> QED
      BY <3>1
  <2> QED
    BY <2>3, <2>4, <2>5
<1> QED
  BY <1>1, Invariance, StopsAreTold, PTL

-----------------------------------------------------------------------------
(* The closed loop: vehicles that obey. *)

(* A shaped trajectory ends on the candidate it was made of. *)
LEMMA ShapedOnCandidate ==
  ASSUME NEW v, NEW c, c.start \in Pos, c.end \in Pos, c.start <= c.end,
         NEW m \in Constraints(v)
  PROVE  Shaped(v, c, m) \in Pos /\ c.start <= Shaped(v, c, m)
<1>0. c.start \in Int /\ c.end \in Int /\ \A x \in Int : c.start <= x /\ x <= c.end => x \in Pos
  BY CoordinationAssumption DEF Pos
<1>1. CASE m.role = "YIELD" /\ m.strategy = "STOP_AND_WAIT"
  <2>1. m.entry \in Int
    BY <1>1 DEF Constraints, NoConstraint, Pos
  <2>2. Project(c, m.entry) - PlannerMargin \in Int
    BY <1>0, <2>1, SystemAssumption DEF Project, ClampTo
  <2>3. StopPoint(c, m) \in Int /\ StopPoint(c, m) >= c.start
    BY <1>0, <2>2, MaxOfTwo DEF StopPoint
  <2>4. Min({c.end, StopPoint(c, m)}) \in Int /\ c.start <= Min({c.end, StopPoint(c, m)})
        /\ Min({c.end, StopPoint(c, m)}) <= c.end
    BY <1>0, <2>3, MinOfTwo
  <2>5. Shaped(v, c, m) = Min({c.end, StopPoint(c, m)})
    BY <1>1 DEF Shaped
  <2> QED
    BY <1>0, <2>4, <2>5
<1>2. CASE m.role = "YIELD" /\ m.strategy = "FOLLOW"
  <2>1. Shaped(v, c, m) = FollowPoint(v, c, m)
    BY <1>2 DEF Shaped
  <2>2. FollowPoint(v, c, m) = c.start \/ FollowPoint(v, c, m) = c.end
    BY DEF FollowPoint
  <2> QED
    BY <1>0, <2>1, <2>2
<1>3. CASE ~(m.role = "YIELD" /\ m.strategy \in {"STOP_AND_WAIT", "FOLLOW"})
  <2>1. Shaped(v, c, m) = c.end
    BY <1>3 DEF Shaped
  <2> QED
    BY <1>0, <2>1
<1> QED
  BY <1>1, <1>2, <1>3

SysIInv == IInv /\ SysTypeOK

LEMMA SysInitEstablishes == SysInit => SysIInv
<1> SUFFICES ASSUME SysInit PROVE SysIInv
  OBVIOUS
<1>1. IInv
  BY InitIInv DEF SysInit
<1>2. 0 \in Pos
  BY CoordinationAssumption DEF Pos
<1>3. \A v \in Vehicles : pos[v] = 0 /\ path[v] = 0
  BY DEF SysInit, Init
<1> QED
  BY <1>1, <1>2, <1>3 DEF SysIInv, SysTypeOK, SysInit, IInv

(* What a vehicle covers in a cycle is on its executed trajectory. *)
LEMMA AdvanceMoves ==
  ASSUME SysIInv, NEW v \in Vehicles, Advance(v)
  PROVE  \E s \in 0..MaxSpeed : Moves(v, s) /\ pos[v] + s <= path[v]
<1>1. cand[v] \in Candidate /\ pos[v] \in Pos /\ path[v] \in Pos /\ pos[v] < path[v]
  BY DEF SysIInv, IInv, TypeOK, SysTypeOK, Advance, Free
<1>2. cand[v].v \in 0..MaxSpeed /\ MaxSpeed \in Nat
  BY <1>1, CoordinationAssumption DEF Candidate
<1>3. path[v] - pos[v] \in Nat
  BY <1>1 DEF Pos
<1> DEFINE s == Min({cand[v].v, path[v] - pos[v]})
<1>4. s \in 0..MaxSpeed /\ s <= path[v] - pos[v]
  <2>1. s = IF cand[v].v <= path[v] - pos[v] THEN cand[v].v ELSE path[v] - pos[v]
    BY <1>2, <1>3, MinOfTwo
  <2> HIDE DEF s
  <2> QED
    BY <1>2, <1>3, <2>1
<1>5. Moves(v, s)
  BY DEF Advance
<1> HIDE DEF s
<1>6. pos[v] + s <= path[v]
  BY <1>1, <1>4 DEF Pos
<1> QED
  BY <1>4, <1>5, <1>6

(* Every step of the closed loop is one that vehicles may take anyway.       *)
LEMMA SysStepIsStep ==
  ASSUME SysIInv, [SysNext]_sysVars
  PROVE  [Next]_vars
<1>1. ASSUME NEW r \in Resolvers, Decide(r) PROVE Next
  BY <1>1 DEF Decide, Next, Resolver
<1>2. ASSUME NEW r \in Resolvers, NEW v \in Vehicles,
             HearPose(r, v) \/ HearSpeed(r, v) \/ HearCandidate(r, v)
      PROVE  Next
  BY <1>2 DEF HearPose, HearSpeed, HearCandidate, Next, Resolver, Hear
<1>3. ASSUME NEW v \in Vehicles, PlanAndShape(v) PROVE Next
  BY <1>3 DEF PlanAndShape, Next, Vehicle
<1>4. ASSUME NEW v \in Vehicles, Advance(v) PROVE Next
  BY <1>4, AdvanceMoves DEF Next, Vehicle, Drive
<1>5. ASSUME NEW v \in Vehicles, Halt(v) PROVE Next
  <2>1. 0 \in 0..MaxSpeed
    BY CoordinationAssumption
  <2> QED
    BY <1>5, <2>1 DEF Halt, Next, Vehicle, Drive
<1>6. CASE UNCHANGED sysVars
  BY <1>6 DEF sysVars, vars
<1> QED
  BY <1>1, <1>2, <1>3, <1>4, <1>5, <1>6 DEF SysNext

LEMMA PlanAndShapeKeeps ==
  ASSUME SysIInv, NEW v \in Vehicles, PlanAndShape(v)
  PROVE  path' \in [Vehicles -> Pos] /\ \A u \in Vehicles : pos'[u] <= path'[u]
<1>1. PICK len \in PlanLengths, w \in PlanSpeeds[v] :
        cand' = [cand EXCEPT ![v] =
                   [start |-> pos[v], end |-> Min({RouteEnd, pos[v] + len}), v |-> w]]
  BY DEF PlanAndShape, Plan
<1>2. /\ cand \in [Vehicles -> Candidate] /\ pos \in [Vehicles -> Pos] /\ msg[v] \in Constraints(v)
      /\ path \in [Vehicles -> Pos] /\ \A u \in Vehicles : pos[u] <= path[u]
  BY DEF SysIInv, IInv, TypeOK, SysTypeOK
<1>3. UNCHANGED pos /\ path' = [path EXCEPT ![v] = Shaped(v, cand'[v], msg[v])]
  BY DEF PlanAndShape, Plan
<1> DEFINE c == cand'[v]
<1>4. c.start = pos[v] /\ c.end = Min({RouteEnd, pos[v] + len})
  BY <1>1, <1>2
<1>5. c.start \in Pos /\ c.end \in Pos /\ c.start <= c.end
  <2>1. RouteEnd \in Nat /\ len \in Nat /\ pos[v] \in Pos
    BY <1>2, CoordinationAssumption, ResolverAssumption
  <2>2. pos[v] + len \in Nat /\ pos[v] <= RouteEnd /\ pos[v] \in Nat
    BY <2>1 DEF Pos
  <2>3. Min({RouteEnd, pos[v] + len}) = IF RouteEnd <= pos[v] + len THEN RouteEnd ELSE pos[v] + len
    BY <2>1, <2>2, MinOfTwo
  <2> HIDE DEF c
  <2> QED
    BY <1>4, <2>1, <2>2, <2>3 DEF Pos
<1> HIDE DEF c
<1>6. Shaped(v, c, msg[v]) \in Pos /\ pos[v] <= Shaped(v, c, msg[v])
  BY <1>2, <1>4, <1>5, ShapedOnCandidate
<1>7. path' = [path EXCEPT ![v] = Shaped(v, c, msg[v])]
  BY <1>3 DEF c
<1> QED
  BY <1>2, <1>3, <1>6, <1>7

LEMMA SysNextKeeps == SysIInv /\ [SysNext]_sysVars => SysIInv'
<1> SUFFICES ASSUME SysIInv, [SysNext]_sysVars PROVE SysIInv'
  OBVIOUS
<1>1. IInv'
  BY SysStepIsStep, NextIInv DEF SysIInv
<1>2. /\ pos \in [Vehicles -> Pos] /\ path \in [Vehicles -> Pos] /\ \A u \in Vehicles : pos[u] <= path[u]
      /\ seen \in [Resolvers -> SUBSET Vehicles] /\ tick \in [Resolvers -> {0, 1}]
  BY DEF SysIInv, IInv, TypeOK, SysTypeOK
<1> DEFINE Ok == /\ path' \in [Vehicles -> Pos] /\ \A u \in Vehicles : pos'[u] <= path'[u]
                 /\ seen' \in [Resolvers -> SUBSET Vehicles] /\ tick' \in [Resolvers -> {0, 1}]
<1>3. ASSUME NEW r \in Resolvers, Decide(r) PROVE Ok
  BY <1>2, <1>3 DEF Decide, Timer
<1>4. ASSUME NEW r \in Resolvers, NEW v \in Vehicles,
             HearPose(r, v) \/ HearSpeed(r, v) \/ HearCandidate(r, v)
      PROVE  Ok
  BY <1>2, <1>4 DEF HearPose, HearSpeed, HearCandidate, OnLocalization, OnChassis, OnCandidate
<1>5. ASSUME NEW v \in Vehicles, PlanAndShape(v) PROVE Ok
  BY <1>2, <1>5, PlanAndShapeKeeps DEF PlanAndShape
<1>6. ASSUME NEW v \in Vehicles, Advance(v) PROVE Ok
  <2>1. PICK s \in 0..MaxSpeed : Moves(v, s) /\ pos[v] + s <= path[v]
    BY <1>6, AdvanceMoves
  <2>2. pos' = [pos EXCEPT ![v] = pos[v] + s] /\ UNCHANGED <<path, tick>>
        /\ seen' = [r \in Resolvers |-> seen[r] \cup {v}]
    BY <1>6, <2>1 DEF Moves, Advance
  <2> QED
    BY <1>2, <2>1, <2>2
<1>7. ASSUME NEW v \in Vehicles, Halt(v) PROVE Ok
  <2>1. pos' = [pos EXCEPT ![v] = pos[v] + 0] /\ UNCHANGED <<path, seen, tick>>
    BY <1>7 DEF Moves, Halt
  <2>2. \A u \in Vehicles : pos[u] \in Int
    BY <1>2 DEF Pos
  <2>3. pos' = pos
    BY <1>2, <2>1, <2>2
  <2> QED
    BY <1>2, <2>1, <2>3
<1>8. ASSUME UNCHANGED sysVars PROVE Ok
  BY <1>2, <1>8 DEF sysVars
<1>9. Ok
  BY <1>3, <1>4, <1>5, <1>6, <1>7, <1>8 DEF SysNext
<1> QED
  BY <1>1, <1>9 DEF SysIInv, SysTypeOK, IInv

LEMMA SysInvariance == SysSpec => []SysIInv
BY SysInitEstablishes, SysNextKeeps, PTL DEF SysSpec

(* No trajectory that is executed ends behind its vehicle or beyond the      *)
(* route, wherever the stop line of a constraint falls: the clamp of the     *)
(* stop point (StopPoint) and that of the candidate.                        *)
THEOREM SystemTypes == SysSpec => []SysTypeOK
BY SysInvariance, PTL DEF SysIInv

(* Vehicles that obey do nothing that vehicles at large may not do: what is   *)
(* proved of the resolvers holds in the closed loop.                        *)
THEOREM LoopIsResolver == SysSpec => Spec
<1>1. SysInit => Init
  BY DEF SysInit
<1>2. SysIInv /\ [SysNext]_sysVars => [Next]_vars
  BY SysStepIsStep
<1> QED
  BY <1>1, <1>2, SysInvariance, PTL DEF SysSpec, Spec
=============================================================================
