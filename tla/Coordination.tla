----------------------------- MODULE Coordination -----------------------------
(***************************************************************************)
(* MultiVehicleCoordinator (conflict_prediction_resolution/src/             *)
(* coordination_core.cpp): pairwise prediction of footprint conflicts and   *)
(* the choice of who proceeds and who yields, as a pure function of the     *)
(* agents' states and of the decision locks the resolver carries from one   *)
(* cycle to the next.                                                       *)
(*                                                                         *)
(* Space.  Vehicle v drives along its own route, whose map points are the  *)
(* integers Pos; a pose, a conflict entry or exit (stored as map poses in  *)
(* the code) and the points of a candidate trajectory are such integers.   *)
(* Projecting a map point onto a candidate is clamping it to the stretch   *)
(* the candidate covers.  What the geometry of a pair of routes says about *)
(* two poses (do the inflated footprints overlap, at which class of        *)
(* relative heading, how far apart) is the constant Meet.                  *)
(* Time.  Elapsed times are integers, TimeUnit of them per unit of pace.   *)
(***************************************************************************)
EXTENDS Integers, FiniteSets, FiniteSetsExt

CONSTANTS
  N,              \* vehicle_count
  RouteEnd,       \* last map point of every route
  MaxSpeed,       \* largest measured speed
  Meet,           \* Meet[p][<<x, y>>]: geometry of p[1] at x and p[2] at y
  Priority,       \* static priority, smaller goes first
  Horizon,        \* prediction_horizon
  Clearance,      \* conflict_time_clearance
  Decel,          \* comfortable_deceleration
  StopMargin,     \* stop_margin
  Classify,       \* enable_conflict_type_classification
  MinLength,      \* angle_classification_min_length
  FollowExtension,\* conflict_follow_extension
  BackDistance,   \* divergence_conflict_back_distance
  FollowMaxGap,   \* following_detect_max_gap, between vehicle centres
  LeadTie,        \* following_lead_tie_epsilon
  ReleaseCount,   \* following_release_count
  EnableLock,     \* enable_decision_lock
  Weight,         \* score weights: [priority, speed, progress, ttc, delay]
  ScoreTie        \* score_tie_epsilon, in hundredths of the weighted score

Vehicles == 1..N
Pos == 0..RouteEnd
Pairs == {p \in Vehicles \X Vehicles : p[1] < p[2]}
In(v, p) == v = p[1] \/ v = p[2]

Angles == {"none", "small", "mid", "large"}

ASSUME CoordinationAssumption ==
  /\ N \in Nat \ {0}
  /\ RouteEnd \in Nat
  /\ MaxSpeed \in Nat \ {0}
  /\ Meet \in [Pairs -> [Pos \X Pos -> [angle : Angles, dist : Nat]]]
  /\ Priority \in [Vehicles -> Int]
  /\ {Clearance, StopMargin, MinLength, FollowExtension,
      BackDistance, FollowMaxGap, LeadTie, ScoreTie} \subseteq Nat
  /\ Horizon \in Nat \ {0}
  /\ Decel \in Nat \ {0}
  /\ ReleaseCount \in Int
  /\ Classify \in BOOLEAN
  /\ EnableLock \in BOOLEAN
  /\ Weight \in [{"priority", "speed", "progress", "ttc", "delay"} -> Nat]

(***************************************************************************)
(* Agents: what one resolver knows of one vehicle (VehicleAgent).          *)
(* A pose or a speed that never arrived is Unknown; a candidate that never *)
(* arrived covers no point.                                                *)
(***************************************************************************)
Unknown == -1

Candidate == [start : Pos, end : Pos \cup {-1}, v : 0..MaxSpeed]
NoCandidate == [start |-> 0, end |-> -1, v |-> 0]

Agent == [pos : Pos \cup {Unknown}, speed : 0..MaxSpeed \cup {Unknown},
          cand : Candidate]
NoAgent == [pos |-> Unknown, speed |-> Unknown, cand |-> NoCandidate]

AgentReady(a) == a.pos # Unknown /\ a.cand.start <= a.cand.end

ClampTo(x, lo, hi) == IF x < lo THEN lo ELSE IF x > hi THEN hi ELSE x

Project(cand, x) == ClampTo(x, cand.start, cand.end)

Progress(a) == Project(a.cand, a.pos)

(* A candidate has one pace: v = 0 is the floor of 0.1 the code divides by. *)
TimeUnit == 2
Elapsed(a, from, to) ==
  IF to <= from THEN 0
  ELSE IF a.cand.v = 0 THEN (to - from) * TimeUnit * 10
  ELSE ((to - from) * TimeUnit) \div a.cand.v

(* The points still ahead that the candidate reaches within the horizon. *)
Ahead(a) ==
  {s \in Progress(a)..a.cand.end :
     s = Progress(a) \/ Elapsed(a, Progress(a), s) <= Horizon}

-----------------------------------------------------------------------------
(***************************************************************************)
(* detectPairConflict: overlap sampling, classification, time windows.     *)
(***************************************************************************)
LocatedAt(p, x, y) == Meet[p][<<x, y>>]

Overlapping(ag, p, x) ==
  {y \in Ahead(ag[p[2]]) : LocatedAt(p, x, y).angle # "none"}

Samples(ag, p) == {x \in Ahead(ag[p[1]]) : Overlapping(ag, p, x) # {}}

(* The first of the closest overlapping samples of the second vehicle. *)
NearestSecond(ag, p, x) ==
  LET Y == Overlapping(ag, p, x)
      d(y) == LocatedAt(p, x, y).dist
  IN  CHOOSE y \in Y : \A z \in Y : d(y) < d(z) \/ (d(y) = d(z) /\ y <= z)

(* The projection of vehicle u's pose y on the candidate of the other. *)
ProjectPeer(ag, p, onFirst) ==
  LET c == ag[IF onFirst THEN p[1] ELSE p[2]].cand
      o == ag[IF onFirst THEN p[2] ELSE p[1]].pos
      d(x) == IF onFirst THEN LocatedAt(p, x, o).dist ELSE LocatedAt(p, o, x).dist
  IN  CHOOSE x \in c.start..c.end :
        \A z \in c.start..c.end : d(x) < d(z) \/ (d(x) = d(z) /\ x <= z)

(* findFirstStableAngleRange: the first long enough run of consecutive     *)
(* samples S that all belong to K, as its two end points.                   *)
StableRange(S, from, K) ==
  LET runs == {r \in K \X K :
                 /\ from <= r[1]
                 /\ r[2] - r[1] >= MinLength
                 /\ \A k \in S : r[1] <= k /\ k <= r[2] => k \in K}
      a == Min({r[1] : r \in runs})
  IN  IF runs = {} THEN <<>>
      ELSE <<a, Max({r[2] : r \in {q \in runs : q[1] = a}})>>

(* The type and the section of the first vehicle, from the first runs of   *)
(* samples at a small and at a large angle and the first small one after.  *)
Classified(S, follow, conf, after) ==
  LET section(t, a, b) == [type |-> t, in |-> a, out |-> b]
  IN  IF ~Classify THEN section("RAW_FOOTPRINT_OVERLAP", Min(S), Max(S))
      ELSE IF conf = <<>> /\ follow = <<>> THEN section("UNCLASSIFIED_OVERLAP", 0, 0)
      ELSE IF conf = <<>> THEN section("FOLLOWING_ONLY", follow[1], follow[2])
      ELSE IF follow # <<>> /\ follow[1] < conf[1] THEN
             section("DIVERGING_CONFLICT",
                     Max({follow[1], conf[1] - BackDistance}), conf[2])
      ELSE IF after # <<>> THEN
             section("MERGING_CONFLICT_THEN_FOLLOWING", conf[1],
                     Min({after[2], after[1] + FollowExtension}))
      ELSE section("CROSSING_OR_MERGING_CONFLICT", conf[1], conf[2])

(* classifyOverlapByRelativeAngle *)
ClassifiedSection(S, small, large) ==
  LET conf == StableRange(S, 0, large)
  IN  Classified(S, StableRange(S, 0, small), conf, StableRange(S, conf[2] + 1, small))

Window(a, s) == [tin |-> Elapsed(a, Progress(a), s.in),
                 tout |-> Elapsed(a, Progress(a), s.out)]

(* Who leads two vehicles on a common lane: 0 when the projections tie or *)
(* contradict each other, or when the gap is beyond following_detect_max_gap. *)
FollowLead(ag, p) ==
  LET onFirst == ProjectPeer(ag, p, TRUE) - Progress(ag[p[1]])
      onSecond == Progress(ag[p[2]]) - ProjectPeer(ag, p, FALSE)
      secondLeads == \/ onFirst > LeadTie /\ onSecond >= -LeadTie
                     \/ onSecond > LeadTie /\ onFirst >= -LeadTie /\ onFirst <= LeadTie
      firstLeads == \/ onFirst < -LeadTie /\ onSecond <= LeadTie
                    \/ onSecond < -LeadTie /\ onFirst >= -LeadTie /\ onFirst <= LeadTie
      gap == IF secondLeads THEN Max({onFirst, onSecond})
             ELSE Max({-onFirst, -onSecond})
  IN  IF secondLeads = firstLeads \/ (FollowMaxGap > 0 /\ gap > FollowMaxGap)
      THEN 0 ELSE IF secondLeads THEN p[2] ELSE p[1]

Other(v, p) == IF v = p[1] THEN p[2] ELSE p[1]

NoConflict == [type |-> "NONE"]

(* An active conflict: its type, the section of each vehicle as map points, *)
(* and the leading vehicle of a following pair (0 otherwise); hit are the   *)
(* samples of the second vehicle that belong to the section cls.            *)
ConflictIn(ag, p, S, cls, hit) ==
  LET sec == [v \in {p[1], p[2]} |->
                IF v = p[1] THEN [in |-> cls.in, out |-> cls.out]
                ELSE [in |-> Min(hit), out |-> Max(hit)]]
      w1 == Window(ag[p[1]], sec[p[1]])
      w2 == Window(ag[p[2]], sec[p[2]])
      lead == IF cls.type = "FOLLOWING_ONLY" THEN FollowLead(ag, p) ELSE 0
  IN  IF \/ S = {}
         \/ cls.type = "UNCLASSIFIED_OVERLAP"
         \/ hit = {}
         \/ w1.tin > w2.tout + Clearance
         \/ w2.tin > w1.tout + Clearance
         \/ cls.type = "FOLLOWING_ONLY" /\ lead = 0
      THEN NoConflict
      ELSE [type |-> cls.type, sec |-> sec, lead |-> lead]

Detect(ag, p) ==
  LET S == Samples(ag, p)
      class(c) == {x \in S : LocatedAt(p, x, NearestSecond(ag, p, x)).angle = c}
      cls == ClassifiedSection(S, class("small"), class("large"))
  IN  ConflictIn(ag, p, S, cls,
        {NearestSecond(ag, p, x) : x \in {z \in S : cls.in <= z /\ z <= cls.out}})

-----------------------------------------------------------------------------
(***************************************************************************)
(* Decision locks (LockedDecision).  A STOP lock fixes who proceeds and    *)
(* who yields until the proceeding vehicle has left the tracked exit; a    *)
(* FOLLOWING lock fixes lead and rear while the pair keeps following.      *)
(***************************************************************************)
Section == [in : Pos, out : Pos]
ConflictTypes == {"RAW_FOOTPRINT_OVERLAP", "FOLLOWING_ONLY", "DIVERGING_CONFLICT",
                  "MERGING_CONFLICT_THEN_FOLLOWING", "CROSSING_OR_MERGING_CONFLICT"}

NoLock == [state |-> "NONE"]

StopLock(c) == [state |-> "STOP", proceed |-> c.proceed, yield |-> c.yield,
                type |-> c.type, sec |-> c.sec]
FollowLock(c, misses) ==
  [state |-> "FOLLOWING", proceed |-> c.proceed, yield |-> c.yield,
   type |-> c.type, sec |-> c.sec, miss |-> misses]

NoDecision == [type |-> "NONE"]

(* The conflicts, locks and decisions a pair may carry. *)
PairSections(p) == [{p[1], p[2]} -> Section]

Conflicts(p) == [type : ConflictTypes, sec : PairSections(p), lead : {0, p[1], p[2]}]

StopLocks(p) ==
  [state : {"STOP"}, proceed : {p[1], p[2]}, yield : {p[1], p[2]},
   type : ConflictTypes \ {"FOLLOWING_ONLY"}, sec : PairSections(p)]
FollowLocks(p) ==
  [state : {"FOLLOWING"}, proceed : {p[1], p[2]}, yield : {p[1], p[2]},
   type : {"FOLLOWING_ONLY"}, sec : PairSections(p), miss : Nat]
Locks(p) == {NoLock} \cup StopLocks(p) \cup FollowLocks(p)

HoldReason == "hold_locked_order_until_proceed_exit"
RuleReasons == {"inside_conflict_interval", "cannot_stop_before_s_in",
                "already_yielding_in_central_order", "score_tie_priority_fallback",
                "weighted_score"}
Reasons == RuleReasons \cup
  {"hold_stop_before_follow", "following_gap_control", HoldReason}

Decisions(p) ==
  {NoDecision} \cup
  [pair : {p}, type : ConflictTypes, sec : PairSections(p), proceed : {p[1], p[2]},
   yield : {p[1], p[2]}, lead : {0, p[1], p[2]}, reason : Reasons]

(* hasVehiclePassedConflictExit, on map poses. *)
PassedExit(a, exit) == a.pos # Unknown /\ a.pos - exit >= StopMargin

(* Mutant: the exit of the vehicle that waits decides. *)
ReleasedByYield(ag, lock) == PassedExit(ag[lock.yield], lock.sec[lock.yield].out)

(* A STOP lock is released once its proceeding vehicle has left the exit. *)
Released(ag, lock) == PassedExit(ag[lock.proceed], lock.sec[lock.proceed].out)

(* mergeTrackedConflictWithCurrent: the section of the current detection   *)
(* extended by the tracked one, the latter projected on the candidate.      *)
MergeSection(a, cur, tracked) ==
  [in |-> Min({cur.in, cur.out, Project(a.cand, tracked.in), Project(a.cand, tracked.out)}),
   out |-> Max({cur.in, cur.out, Project(a.cand, tracked.in), Project(a.cand, tracked.out)})]

MergeSections(ag, cur, tracked) ==
  [v \in DOMAIN cur |-> MergeSection(ag[v], cur[v], tracked[v])]

-----------------------------------------------------------------------------
(***************************************************************************)
(* The rules of chooseOrder for a pair without a lock.                     *)
(***************************************************************************)
Inside(a, s) == s.in <= Progress(a) /\ Progress(a) <= s.out

CannotStop(a, s) ==
  LET d == s.in - Progress(a)
      speed == IF a.speed # Unknown THEN a.speed ELSE a.cand.v
  IN  d <= 0 \/ speed * speed + 2 * Decel * StopMargin >= 2 * Decel * d

(* decisionScore, in hundredths. *)
Score(a, otherPriority, prio, tin, delay) ==
  LET length == a.cand.end - a.cand.start
      share(x, whole) == IF x >= whole THEN 100 ELSE (100 * x) \div whole
      speed == IF a.speed = Unknown THEN 0 ELSE a.speed
  IN  Weight["priority"] * (IF prio <= otherPriority THEN 100 ELSE 0)
      + Weight["speed"] * Min({150, (100 * speed) \div MaxSpeed})
      + Weight["progress"] *
          (IF length > 0 THEN share(Progress(a) - a.cand.start, length) ELSE 0)
      + Weight["ttc"] * (100 - share(tin, Horizon))
      + Weight["delay"] * share(delay, Horizon)

(* Who goes first, and by which rule; blocked is already_yielding. *)
Ranking(ag, p, c, blocked) ==
  LET i == p[1]   j == p[2]
      w == [v \in {i, j} |-> Window(ag[v], c.sec[v])]
      delay(v, u) == Max({0, w[u].tout + Clearance - w[v].tin})
      score(v, u) == Score(ag[v], Priority[u], Priority[v], w[v].tin, delay(v, u))
      diff == score(i, j) - score(j, i)
      inside(v) == Inside(ag[v], c.sec[v])
      stuck(v) == CannotStop(ag[v], c.sec[v])
      rule(first, r) == [proceed |-> IF first THEN i ELSE j,
                         yield |-> IF first THEN j ELSE i, reason |-> r]
  IN  IF inside(i) # inside(j) THEN rule(inside(i), "inside_conflict_interval")
      ELSE IF stuck(i) # stuck(j) THEN rule(stuck(i), "cannot_stop_before_s_in")
      ELSE IF (i \in blocked) # (j \in blocked)
           THEN rule(j \in blocked, "already_yielding_in_central_order")
      ELSE IF diff <= ScoreTie /\ -diff <= ScoreTie
           THEN rule(Priority[i] <= Priority[j], "score_tie_priority_fallback")
      ELSE rule(diff > 0, "weighted_score")

-----------------------------------------------------------------------------
(***************************************************************************)
(* One pair through one cycle: the conflict it puts in the result, if any, *)
(* and the lock it leaves behind.                                          *)
(***************************************************************************)
Decision(p, c, roles, sec, lead) ==
  [pair |-> p, type |-> c.type, sec |-> sec, proceed |-> roles.proceed,
   yield |-> roles.yield, lead |-> lead, reason |-> roles.reason]

Outcome(d, lock) == [decision |-> d, lock |-> IF EnableLock THEN lock ELSE NoLock]

Kept(lock, why) == [proceed |-> lock.proceed, yield |-> lock.yield, reason |-> why]

(* Mutant: a held pair is reported with the type just detected. *)
HeldDecisionAsDetected(ag, p, c, lock) ==
  Decision(p, c, Kept(lock, "hold_stop_before_follow"), MergeSections(ag, c.sec, lock.sec), 0)

(* While a STOP lock holds, a pair now detected as following still gets    *)
(* the tracked conflict, any other detection extends it.                    *)
HeldDecision(ag, p, c, lock) ==
  LET roles == Kept(lock, "hold_stop_before_follow")
  IN  IF c.type = "FOLLOWING_ONLY" THEN Decision(p, lock, roles, lock.sec, 0)
      ELSE Decision(p, c, roles, MergeSections(ag, c.sec, lock.sec), 0)

DetectedFollow(p, c) ==
  [proceed |-> c.lead, yield |-> Other(c.lead, p), reason |-> "following_gap_control"]

(* Mutant: lead and rear are those of the current detection. *)
FollowDecisionAsDetected(p, c, lock) ==
  Decision(p, c, DetectedFollow(p, c), c.sec, c.lead)

(* Lead and rear of a following pair are those it was locked with. *)
FollowDecision(p, c, lock) ==
  LET roles == IF lock.state = "FOLLOWING" THEN Kept(lock, "following_gap_control")
               ELSE DetectedFollow(p, c)
  IN  Decision(p, c, roles, c.sec, roles.proceed)

StopWith(d) == Outcome(d, StopLock(d))
FollowWith(d) == Outcome(d, FollowLock(d, 0))

(* chooseOrder for an active conflict c. *)
ChooseOrder(ag, p, c, lock, blocked) ==
  IF lock.state = "STOP" /\ ~Released(ag, lock)
  THEN StopWith(HeldDecision(ag, p, c, lock))
  ELSE IF c.type = "FOLLOWING_ONLY" THEN FollowWith(FollowDecision(p, c, lock))
  ELSE StopWith(Decision(p, c, Ranking(ag, p, c, blocked), c.sec, 0))

(* Mutant: one cycle too many without a following detection. *)
MissFollowLate(lock) ==
  IF lock.miss + 1 > Max({1, ReleaseCount}) THEN NoLock ELSE FollowLock(lock, lock.miss + 1)

(* A following pair that was not detected in this cycle. *)
MissFollow(lock) ==
  IF lock.miss + 1 >= Max({1, ReleaseCount}) THEN NoLock ELSE FollowLock(lock, lock.miss + 1)

(* Mutant: the lock is kept, but its conflict is not put in the result. *)
HoldStopSilently(p, lock) == Outcome(NoDecision, lock)

(* Mutant: the lock lasts while the conflict is detected. *)
HoldStopBriefly(p, lock) == Outcome(NoDecision, NoLock)

(* A STOP lock goes on publishing its conflict. *)
HoldStop(p, lock) == Outcome(Decision(p, lock, Kept(lock, HoldReason), lock.sec, 0), lock)

(* appendHeldDecisionLocks for a pair without an active conflict. *)
HoldLock(ag, p, lock) ==
  CASE lock.state = "FOLLOWING" -> Outcome(NoDecision, MissFollow(lock))
    [] lock.state = "STOP" /\ ~Released(ag, lock) -> HoldStop(p, lock)
    [] OTHER -> Outcome(NoDecision, NoLock)

PairReady(ag, p) == AgentReady(ag[p[1]]) /\ AgentReady(ag[p[2]])

(* A decision of this cycle's detection, as opposed to a held one. *)
IsActive(d) == d.type # "NONE" /\ d.reason # HoldReason

ResolvePair(ag, p, c, lock, blocked) ==
  IF c.type # "NONE" THEN ChooseOrder(ag, p, c, lock, blocked)
  ELSE HoldLock(ag, p, lock)

PairStep(ag, p, lock, blocked) ==
  ResolvePair(ag, p, IF PairReady(ag, p) THEN Detect(ag, p) ELSE NoConflict, lock, blocked)

=============================================================================
