# A verification project for the UGV driving software

TLA+ models of the parts of this repository whose correctness depends on the order in which
several processes act, the TLC runs that check them on small instances, and TLAPS proofs of what
holds for every instance. Source paths are relative to the repository; `src/src/` is the catkin
source directory. `PROJECT.json` maps every definition to the lines it models and lists the runs,
the hazards of the code and the theorems.

## 1. The system

Every vehicle runs the same chain of ROS nodes; topics, and UDP between vehicles, connect them.

| part | state it keeps | operations | what is hard | what makes it correct |
|---|---|---|---|---|
| conflict resolver: `coordination_core.cpp`, `conflict_resolver_node.cpp` | last pose, speed and candidate of every vehicle; one decision lock per pair | three callbacks per vehicle; a timer that detects overlaps, orders each pair, holds the order and publishes one `ConflictConstraint` per vehicle | topics of different moments; detections that come and go; one resolver for all or one per vehicle | an order stands until the first vehicle is through; whoever must wait is told; nobody waits for ever |
| constraint processor: `conflict_constraint_processor.cpp`, in the planner | last constraint, the leader and its last place, age of the order to follow | shapes the trajectory that is executed: stop line, following speed, slow driving after a timeout, emergency stop | constraint, candidate and leader are of different cycles; no stop point on the trajectory; a resolver that falls silent | the vehicle waits outside the overlap; it never follows what it does not see; shaping never makes it faster |
| parking planner: `openSpacePlanner.cc`, parking part of `planning_node.cpp` | `ParkingState`, committed and cached segments, last execution status | a 100 ms cycle with a search of up to seconds; callbacks for goal, start, map, status | nothing but the search runs in the node meanwhile; the status names no segment | it and the controller agree on the segment; none is skipped; a task given up is not driven on; the task completes |
| parking controller: `controller_node.cpp` | `OpenSpaceExecutionState`, pending and active segment, handshake counters | stop, gear, wheels, drive, report the end; reset and straighten | gear feedback that lags; segments, resets and stops at any moment | drives only the latest segment, in its gear, after the handshake |
| simulated vehicle: `simulate.cpp` | gear and shift under way, wheels, speed, motion start | commands, a tick with a chassis report, reset | requests overtaken by reports and resets | never shifts while it moves |
| Lite back-end: `lite_parking_bridge_node.cpp` | gear request, last commands with their age, applied gear | command timeout, gear feedback | feedback that confirms itself, commands on separate topics | a silent controller stops the vehicle; a segment is released only to a vehicle that goes its way |
| platoon cooperation: `cooperation.cpp`, `platoon_common.cpp`, the platoon part of `planning_node.cpp` | role, list of vehicles, flags of two missions, last data of every member; a copy of list and role in the planner | build, join, leave, shape, gather, spread, run, dissolve; a timer | missions that overlap; two nodes with a copy each; flags that outlive the mission | all copies name the same vehicles, each once; only a member of a platoon is started by it |
| information hub: `info_hub.cpp` | one buffer for missions and its flag | callback, UDP thread, receiver | a buffer shared by two threads, lost datagrams | every mission arrives whole, once |
| task scheduler: `task_scheduler_node.cpp` | assignment, how often it was sent | one assignment by a genetic search, published again and again with the start poses | an assignment that comes again after the vehicle set off | a route that has begun goes on |
| route: `route.cpp` | the tasks, the legs between them, the current leg, the operator's confirmation | assignments from three sources, clicks, odometry, replans, orders to go on | replans that change legs and tasks in the middle of a route; orders given too early | the leg followed is the current one; tasks are not forgotten; legs change on an order |
| road longitudinal control: `lonControl` of `controller_node.cpp`, `lon_controller.cc`, `tank_controller.cc` | start order, last order of the terminal, index on the path, "stopped for good" | a 50 Hz cycle: stop, shift, follow, park | two channels of start and stop; members that outlive the trajectory; a shift of several steps | a stop lasts; the vehicle gets into the right gear and is parked at the end |
| reference line, road planner, speed planner, control laws, optimisers, map search, localisation, perception, cloud, pad, tools, common libraries | geometry, maps, sockets, widgets | one call per cycle, or I/O | numerical | numerical accuracy |

Interactions. *Road:* each planner publishes a **candidate**; the resolver copies pose, speed and
candidate of every vehicle in separate callbacks; its timer decides every pair from those copies
and publishes constraints; the planner's next cycle shapes its trajectory by the last constraint;
the vehicle drives along the shaped trajectory, which moves the poses everybody hears of later.
*Parking:* the planner publishes one **segment** of its result (a stretch in one gear) at a time;
the controller stages it, stops, shifts, turns the wheels and drives; the planner watches poses
and map, brakes by a stop trajectory, commits the next segment at the end or replans; task resets
and the reached goal travel on topics of their own. *Tasks:* the scheduler or the cloud assigns
tasks, the route node publishes one leg at a time and goes on to the next when the operator
orders it at the end; the planner asks for another way before an obstacle. *Platoon:* a pad
gives commands to one cooperation node, which publishes **missions**; cooperation nodes and
planners of all vehicles obey them, over a topic in a simulation and through the hubs otherwise.
*Control:* the planner's trajectory, the chassis report and the start orders of terminal and
remote control meet in the controller's cycle.

## 2. Modules

| module | models | relation |
|---|---|---|
| `Coordination` | `MultiVehicleCoordinator` as operators on agent records and locks: detection, classification, following, ranking, lock table | |
| `ConflictResolver` | `ConflictResolverNode` with vehicles that drive and replan as they please | EXTENDS `Coordination` |
| `ConflictSystem` | resolvers, constraint processor and vehicles that obey | EXTENDS `ConflictResolver` |
| `ConstraintProcessor` | `apply()` on a trajectory of points: validation, stop and following shape, every fallback | |
| `ShapedDriving` | planning cycles over it, with a resolver that may fall silent and a leader heard now and then | EXTENDS `ConstraintProcessor` |
| `SegmentExecution` | what the parking controller promises the planner | implemented by `ParkingControl`, used by `ParkingTask` |
| `ParkingControl` | the controller's execution state machine in an open environment | |
| `ParkingVehicle` | gearbox, wheels and speed of the simulated vehicle, as actions | |
| `ParkingBackEnd` | what both simulated back-ends have in common: no chassis of their own, orders that arrive within `Lag` reports | EXTENDS `ParkingControl` |
| `ParkingExecution` | controller, vehicle, the topics between them, any planner and operator | EXTENDS `ParkingBackEnd`, INSTANCE `ParkingVehicle` |
| `ParkingBridge` | the Lite bridge as actions: gear, drive, expiry, gear feedback | |
| `LiteExecution` | controller, bridge, the Lite vehicle behind it | EXTENDS `ParkingBackEnd`, INSTANCE `ParkingBridge` |
| `ParkingPlanner` | `OpenSpacePlanner::implement` and the node's callbacks, as actions | |
| `ParkingTask` | planner, controller (as `SegmentExecution`), a vehicle, the operator | EXTENDS `ParkingPlanner`, INSTANCE `SegmentExecution` |
| `PlatoonCommon` | missions and the helpers on the list of vehicles | |
| `Cooperation`, `PlatoonPlanner`, `InfoHub` | the cooperation node; the platoon part of the planner; the hub's buffer and radio | EXTEND `PlatoonCommon` |
| `Platoon` | all vehicles with a simulation's topic or radios between them | EXTENDS these three |
| `Route` | the route node's callbacks | |
| `TaskRoute` | route node, scheduler, cloud, planner, operator, vehicle | EXTENDS `Route` |
| `RoadControl` | a cycle of the road's longitudinal control and its inputs | |
| `RoadDriving` | it with a chassis, a driver, a planner, terminal and remote control | EXTENDS `RoadControl` |
| `ConflictResolverProofs`, `ParkingControlProofs`, `ParkingBackEndProofs`, `ParkingTaskProofs`, `PlatoonProofs`, `RouteProofs`, `ShapedDrivingProofs`, `RoadProofs` | lemmas and theorems | |
| `MC...` | geometry, gears and symmetry for TLC | |

Mutants: an operator whose comment says *Mutant* is a plausible bug in the definition that
follows it. No specification uses it; put in that definition's place it makes the property
`PROJECT.json` names fail.

### Conflict resolution

A route is the map points `0..RouteEnd`; a candidate is a stretch of it with one pace;
`Meet[p]` says for each two points of a pair's routes whether the footprints overlap there, at a
small or a large angle of the headings, and how far the centres are apart. That is all the
detection reads of trajectories: it samples both, compares footprints at each pair of samples,
keeps the nearest sample of the second vehicle and classifies by angle. Times are cycles at the
candidate's pace; scores are integers, weighted by `Weight`.

`Timer(r)` is `onTimer` whole: readiness, the double loop over the pairs with
`already_yielding`, held locks, `publishResult`. `OnLocalization`, `OnChassis` and `OnCandidate`
are the callbacks; `locks[r]` is `decision_locks_` with the tracked section in each lock.
Resolver 0 is the central one (`ego_index < 0`), resolver v the one of vehicle v. In
`ConflictSystem`, `PlanAndShape` is one cycle of `planning()`: the candidate is published before
it is shaped by the constraint received last; `Advance` and `Halt` are the vehicle.

`ConstraintProcessor` takes the same constraint point by point: a trajectory is a sequence of
places, speeds and times, of which a prefix is taken over from the one before. `Apply` is `apply()`
with all its ways out: the stop line projected and clamped behind the braking distance, the tail
of points without speed, retiming, the validation the controller's interpolation needs, the
emergency stop where that fails and the original where both fail; the caps of FOLLOW and of a
timeout. Lengths and speeds are scaled to small integers (`Eps` stands for 1e-4 m, `Tiny` for
1e-3 m). `ShapedDriving` hands it every trajectory of a small set, in every cycle, under whatever
was heard by then.

### Parking

Speeds are *moving* or *at rest*; front wheel angles are the start angle of a segment, straight,
or in between; a drive command holds the vehicle or drives it along a segment. The variables of
`ParkingControl` carry the controller's members (`state`, `pending`, `active`, `targetGear`, the
two counters, `endHold`), the last chassis report (`seen`) and one slot for each command topic.
`OnTrajectory` is `stageOpenSpaceTrajectory` with its three outcomes, `Cycle` a 50 Hz pass of
`run()`, one disjunct per state; the others are the callbacks of their names. `VehicleMode`
stands for `IsVehicleMode()`. The speed before the first report is either value:
`input_data_.vel` (`input_data.hpp:36`) has no initializer.

`ParkingVehicle` follows `simulate.cpp`: a shift takes place at rest after a delay that a
repeated request does not restart; wheels pass any angle on their way; commands are ignored
while the motion start order is withdrawn; driving starts a motion in the direction of the
command whatever gear is in, so that nothing but the handshake protects the gear.

In `ParkingPlanner` a search is two steps, `BeginSearch` and one of `SearchFinds`,
`SearchFails`, `LiomRefuses`; every callback is disabled in between, because the node has one
thread, while controller and vehicle go on. What a cycle reads of vehicle and map is its
parameter `in`. `feedback` holds the trajectory the stored status is really about, which the
code cannot know: the message does not name it. `ParkingTask` puts nothing in order between the
topics: an end may be reported in the middle of a search and is heard when the search is over and its result
committed, segments are released meanwhile, and a reset may be taken before the trajectory
published ahead of it.

`ParkingBridge` stands in for `ParkingVehicle` where the Lite simulator is driven. Lite is told
with every command whether to go backwards and reports nothing but that, so the bridge reports the
forward gear it applied last; drive orders expire after 0.5 s, gear orders never. `LiteExecution`
has the controller's three topics arrive independently and lets the controller die at any moment.
The launch files of Lite choose the pedal back-end, hence `VehicleMode = FALSE`.

### Platoons

`Cooperation` follows `cooperation.cpp`: `Command` and below it one action per button of the pad,
`Obey` the mission callback, `OnMember` the member messages of a simulation, `Timer` the 0.1 s
timer with its assignment in place of a comparison. A vehicle's list, role, flags and progress are
one record; where vehicles stand is a choice (`distance reached or not`). `PlatoonPlanner` keeps
the second copy of list and role in `planning_node.cpp`. An assertion that fails ends the node:
packages are built by plain `catkin_make`, without `NDEBUG`. `InfoHub` is the buffer that the mission
callback writes and the UDP thread sends, and the radio, which loses datagrams per receiver.

### Tasks and routes

`Route` has one action per callback of `route.cpp` on one record: the legs found (`results`), the
index of the leg published, `lastMultiPoints`, the confirmation of the operator, the last pose.
The search on the map is a function of its end points that may fail (`OffMap`); obstacles make it
fail too. A callback that reads past a vector or an empty map ends the node (`up`). `TaskRoute` adds
the sources of assignments, the operator, and a vehicle that follows what is published.

### Road control

`RoadControl!Cycle` is one pass of `run()` and `lonControl()`: the two channels of start and stop
(`Motion`), then the five cases of `ComputeControlCommand` (`Compute`). Speeds are zero, slow or
fast (above 0.5 m/s, which the code asks), distances are points. The closed loop chooses throttle,
nothing or, in motion, the brake. A report or trajectory that never came is all zeros (neutral, manual;
no points, backwards), but the terminal's order is *invalid* until one comes (`controller_node.cpp:124`):
it changes nothing (`lon_controller.cc:155`), and a vehicle in automatic mode that was never told to start
or stop keeps its gear, without throttle or brake (`tank_controller.cc:345`). `RoadDriving` adds a chassis that changes gear
at rest, comes to rest when held, and is taken over by a driver at will; the last report is at most
one change old. `started` is history: an order to start came since the last cycle that stopped.
The reading of a point past the end of the trajectory (`nearst_index` of a longer one) is any value.

## 3. Runs

| run | instance | shows |
|---|---|---|
| `EgoMerging` | resolver of vehicle 1, merging routes, candidates of length 2, lag 1, one record out of date | `LocksSound`, `OneStrategyPerPair` while a pair alternates between crossing and following; `StopOrderHeld`, `YieldIsPublished`: an order is dropped only by a cycle that sees the first vehicle past the exit, and the yielding vehicle is told in every cycle, also where detection finds nothing; `FollowRolesKept` |
| `LoopMerging` | closed loop, central resolver, stop line 3 before the entry | `NoOverlap` of footprints, `EveryoneArrives`, `SysTypeOK` (a shaped trajectory never ends behind the vehicle) |
| `Shaped` | every small trajectory, with an entry from behind it to beyond it, two leaders | `TypeOK` (what the controller's interpolation needs), `StopIsFinal`, `NeverFaster`, `BlindFollower`, `SilentResolver` |
| `ControllerAlone` | real chassis, one segment that ends rolling and one that does not | `PendingFits`, the refinement `ExecutesLatestSegment` |
| `Handshake` | controller and simulator, a segment backwards, any number of segments, resets, stops, orders | `MovesInGear`; `ReleasedWhenReady`: gear in and no shift to come, wheels in place, vehicle at rest; `HandshakeEnds`: no handshake hangs while motion is allowed, and wheels are straightened after the goal |
| `Lite` | controller and bridge, segments of both directions, a controller that may die | `ReleasedInGear`, `SilentControllerStops` |
| `Parking` | three goals or starts, up to 3 segments per search, 3 alarms, with and without LIOM | `PlannerTypeOK`; `SegmentsAgree`: a committed segment is the one the controller works on, also after a reset has overtaken a trajectory; `NoDrivingOn`: what was released while the planner searched or decided is given up when it brakes or sees the goal; `SegmentsInSequence`: stale feedback does not skip a segment; `ParkingCompletes` |
| `Platoon` | two vehicles and the number of a third, one pad, three commands, over a topic or radios | `DissolvedIsEmpty`, `NobodyTwice`, `CopiesAgree` and `ListsAgree` (planner and cooperation node of a vehicle, and two vehicles, name the same platoon unless a message is under way or lost), `OnlyPlatoonStarts` |
| `TaskRoute` | three tasks, one off the map, scheduler, cloud, clicks, three requests | `RouteTypeOK`, `PublishedIsCurrent`, `AgendaRemembered`, `AdvanceOnlyOnOrder`, `RouteEnds` |
| `Road` | a trajectory of three points forwards, one of two backwards, terminal, a remote control that stops, a driver | `StopLasts`: a stop is only undone by an order given after it; `StopParks`, `GearReached`, `ParksAtEnd`: no stop, shift or end of a path leaves the vehicle in the wrong gear for good |
| `DistributedDeadlock` *(violation)* | one resolver per vehicle, crossing | both hold the pair, the opposite way round, and both vehicles stop for good |
| `PlatoonAsserts` *(violation)* | as `Platoon` | the leader's DISSOLVE empties its list, the timer asks for its last vehicle all the same, and the assertion ends the node |

Types of `ConflictResolver`, `ParkingControl`, `Platoon` and `RoadDriving` are proved (section 4) and
need no run; the other modules' are checked with their properties.

### Bounds, and why they are enough

- `MaxLag`, `MaxStale` (conflict): map points a topic may be behind, and records out of date at
  once. One vehicle a point behind suffices for two snapshots of one pair that name different
  leaders or disagree on *inside*, which is what the locks are there for. The closed loop has
  `MaxStale = 0`: a vehicle does not move on before its last message has been taken, which the
  ratio of message and planning rates justifies.
- `RouteEnd` 4 to 7, `PlanLengths`, `MaxSpeed = 1`: long enough for a vehicle to be before, in
  and past the section and to see it appear and disappear; unequal paces come from vehicles that
  stand still.
- Two vehicles suffice for properties of one pair; a third one is needed where pairs compete for
  one message, and there the property fails.
- `Due`: between two decisions a vehicle that may move does so. Without pace a resolver could
  decide infinitely often between two steps of a vehicle, or never.
- `Lag < GearStable`, `SteerStable`: reports published before the vehicle has received a gear
  request or reset. The configured 3 to 5 confirmations (`open_space_gear_confirm_stable_cycles`) outlast it; with `Lag >= GearStable`
  `MovesInGear` fails, which is what the count is for.
- `MaxSegments`, `MaxTasks`, `MaxAlarms` (parking task): three segments have a first, a middle
  and a last one; three tasks let a second and a third one overtake the first in any phase; alarms (bad maps,
  refused searches, missed ends, and reports that cross a search or what was published after their segment, and so are heard
  too late) may each happen in any phase and return, and end for liveness.
- `PlannerCycle` begins when what was published before has been taken and reports have been heard: the cycle
  is 100 ms, the controller's 20 ms. Within that time, and during a search, the messages come in any order.
- `Behind`, `MaxPrefix`, `Stations` (shaped trajectories): up to three points taken over and four
  planned, so that a line may lie in the prefix, at it, between two points, right behind one (a
  duplicate) and past the end; entries reach from far behind to beyond the end. Any prefix may be
  taken over: to take it from the trajectory published before needs more states than TLC can
  visit, and contains nothing that the free choice does not.
- `MaxCommands = 3`, `QueueLen = 1` (platoon): BUILD and two more commands that may overlap with it.
  `CopiesAgree` and `ListsAgree` are about one pad whose commands wait for the missions of the last
  ones, for which they are proved with any bounds (section 4): with a second pad, a longer queue or a
  fourth command they do not hold, nor does the code claim it (see *Commands faster than their echoes*).
- `MaxRequests = 3` (route): assignments of the cloud, clicks and replans together, in any phase.
- `Lag = 1` (Lite): with `Lag >= GearStable` `ReleasedInGear` fails, for a segment that replaces
  one whose gear order is under way: the forward gear confirms itself.
- `MinPoints`, `StopPoints`, `HaltPoints` (road): a path of three points has one at speed, one near
  the end and the end; the index kept from it lies past the other path. The remote control only
  stops there; the proof of `StopLasts` is for both buttons.
- Names of trajectories are reused once nothing refers to them; `MCNames` makes them symmetric
  where no liveness is checked.

### Fairness, and why the code justifies it

Timers and subscribers of a running node are weakly fair. *Conflict:* a resolver whose pace
condition lasts decides again and again (`<>[]Due(r) => []<><<Decide(r)>>`), every topic is
heard, planners and vehicles go on. *Handshake:* strong fairness for what the vehicle can do
only between other steps: a braked vehicle comes to rest, a shift at rest takes place, wheels
arrive. *Parking:* strong fairness for a planner cycle with a good map, a successful search and
an arrival within tolerance: if they may happen again and again they do. No fairness is assumed
of operator, alarms (stale reports among them) and emergency stops. *Shaped:* the planner's cycles end. *Lite:* messages are
delivered, the bridge's timer ticks, the brake brings the vehicle to rest. *Route:* odometry, the
subscribers and the vehicle go on, and the operator presses the button again and again: `RouteEnds`
says nothing of an operator who does not. *Road:* the 50 Hz cycle and the reports go on, a gearbox at
rest shifts as ordered, a held vehicle comes to rest; `StopParks` is about a controller that is
not silenced (see below).

### Divergences found while modelling

Two are runs above. The others are described with the instance that shows them.

- *A tracked section shrinks.* `coordination_core.cpp:1280` says it does not shrink when a
  prediction gets shorter; `:1282` projects it onto the present candidate, which clips it.
  (`EgoMerging` with `PlanLengths = {2, 4}`: from a long to a short candidate `sec[v].out` falls.)
- *An entry inside the overlap.* Only the nearest overlapping sample of the second vehicle is
  kept for each sample of the first (`:557`); its published entry lies inside the overlap that
  `ConflictConstraint.msg:38` says it enters there. A stop margin that exceeds the overlap covers it on a
  crossing (`LoopMerging` with `Crossing(4, 1)` for each pair); with `PlannerMargin = 1` `NoOverlap` fails
  there. The configured margins are 1.0 m (`conflict_prediction.yaml:27`, `conflict_resolution.yaml:21`),
  less than any overlap of vehicles of 3.7 m with a border of 0.7 m.
- *Both proceed.* With a resolver per vehicle (`DistributedDeadlock`'s instance) both
  vehicles can be told PROCEED, although `:465` keeps local history out of that mode for this
  very reason; the locks are such a history.
- *A third vehicle breaks the publication.* A vehicle in several pairs is sent the constraint of
  the first (`conflict_resolver_node.cpp:491`). With `N = 3` in `EgoMerging` `YieldIsPublished` fails:
  a vehicle that a lock makes yield is told to proceed.
- *A circle of three.* Locks taken in different cycles ignore `already_yielding` (`:676`); the
  central resolver can make three vehicles wait in a circle (`EgoMerging` with
  `N = 3`, `Resolvers = {0}` and `Crossing(3, 1)` for each pair), which `:795` means to exclude.
- *Stale feedback.* `openSpacePlanner.cc:505` drops late messages by the planner's state only. A
  segment end that was reported during a search is heard after it and taken for feedback about the
  segment committed meanwhile: in `Parking`, the invariant `feedback \in {NoTrajectory, committed}` fails.
  With reports stale again and again a task can replan for ever, which `MaxAlarms` ends. While the
  planner searches because of such a report the controller goes on to release and drive the segment it gave up, though
  `OPEN_SPACE_PARKING_HANDOFF.md:392` has every cycle check the rest of the segment (in `Parking`, with
  `mode = "EXECUTING"` and `moving` in phase `PLANNING`).
- *A reset that overtakes.* Trajectory and reset are two topics: the controller may take the reset, then the
  trajectory published before it, and drive the old task while no goal is set (in `Parking`, `moving` in
  phase `WAITING_FOR_INPUT` with `resetSent` false), until a new segment is committed.
- A refused segment (`controller_node.cpp:388`) leaves HOLD_STOP without a gear to ask for; the
  controller then waits in SHIFT_GEAR for another trajectory.
- *The last resort is the fast trajectory.* If stop line and emergency stop both fall within 1e-4 m
  behind a path point, both shaped trajectories are rejected and the original is driven, though
  `conflict_constraint_processor.cpp:793` excludes that; `StopIsFinal` names the exception.
- *Creeping over the line.* The prefix taken over is planned anew by the velocity planner and never
  shaped, and the points of a stopped tail, 0.1 s apart, are taken over like others; `:570` says that
  the vehicle waits at the stop point.
- *An entry just passed.* An entry further behind than the tolerance of 1 m, or further ahead of the
  trajectory's end, is an immediate stop.
- *Times that go back.* Where FOLLOW changes nothing the prefix keeps shaped times and the rest the
  planner's (`:389`), so that times need not increase; `TypeOK` asks for it only under a stop.
- *Motion start of the Lite bridge.* The bridge publishes it (`lite_parking_bridge_node.cpp:544`), and
  in this deployment nobody takes it: the controller listens in vehicle mode only.
- *Brake and gear on two topics.* The gear of the next segment may be applied with the throttle of the
  last one for one tick of the bridge, against what `controller_node.cpp:1099` intends; the vehicle
  sets off backwards in SHIFT_GEAR. It is braked one tick later, and `ReleasedInGear` holds.
- *Missions.* The timer's comparison of the mission type is an assignment (`cooperation.cpp:186`, run
  `PlatoonAsserts`). MASS fails the assertion of the first follower, a platoon of one that of its
  leader; LEAVE of the leader or a second LEAVE fails that of every planner. A vehicle that has
  left keeps its flag and obeys RUNNING. The leader's timer repeats RUNNING every 0.1 s and may replace
  an operator's mission in the hub's buffer of one. A datagram carries no `distributePoints`.
- *Commands faster than their echoes.* A leader applies a command at once and obeys its own mission once
  more when it comes back over the topic (`callbackPlatoonMission`, `cooperation.cpp:633`). Commands given
  faster than that reorder its list: a BUILD, then LEAVE and JOIN of vehicle 2 and JOIN of vehicle 3 leave
  `<<1, 2, 3>>` in the cooperation node and `<<1, 3, 2>>` in the planner: the same vehicles, in another
  order on the road. (`Platoon` with `Running = {1}`, `QueueLen = 2` and `MaxCommands = 4`.) With a member
  message that makes the vehicle a leader between two echoes (`callbackPlatoonMember`) not even the vehicles
  need be the same: BUILD, DISSOLVE, JOIN of vehicle 2 between their echoes and BUILD again leave vehicle 2
  in the leader's list alone (`QueueLen = 1`).
- *A replan before the first leg.* With no leg published yet only the last task is planned for
  (`route.cpp:678`): the others are forgotten. After a replan that fails the legs are cleared, while the
  vehicle goes on along the leg that was published. Replans and clicks at unlucky moments read
  past a vector or an empty map (`:781`, `:1008`, `:1026`, `:1175`) and end the node.
- *A start that comes again.* The scheduler's repeated assignment restarts a route that is being driven,
  and puts a simulated vehicle back to its start.
- *A lost press.* The controller looks at the last report once per cycle; a press of the remote
  control that the next report replaces is never answered (`lon_controller.cc:168` says that every
  press is one order, answered first). In `RoadDriving` `Report` may follow `Report`.
- *A swallowed stop.* A stop of the terminal that is taken while the last report still shows the remote
  start is remembered as answered and overruled; repeating it has no effect.
- *The wrong gear at the start.* After a stop at the end of a path the gears are compared only if the
  next trajectory is fast at an index kept from the last one (`tank_controller.cc:397`), possibly past
  its end: a slow one in the other direction is driven in the gear that is in, and the throttle is
  opened in P. `:396` says that another gear is always shifted first. (`Road`: `Follow` with
  `seen.gear # trajectory.gear`; `GearReached` is therefore about trajectories that are fast where
  the vehicle stands.)
- *Parked by accelerating.* `tank_controller.cc:794` negates a deceleration that is configured negative
  (`-0.9`): while P is being shifted into the brake is not on. In `Halt` the drive is *free*.
- *Creeping in a platoon.* The trajectory of a vehicle that is to stay where it is has 3.8 m without
  speed (`planning_node.cpp:1515`, "holding vehicle stopped"); `tank_controller.cc:776` raises a reference
  below 1.5 m/s to at least 0.8 m/s before the last metre, and the vehicle is driven.
- *A silenced controller.* A mission changes the type of trajectory the road controller accepts; until
  one of that type comes `run()` returns first thing (`controller_node.cpp:1085`), the last order stands
  and orders to stop are not heard. `StopParks` therefore asks for `fits`.
- `enable_conflict_resolution` is read (`conflict_resolver_node.cpp:315`) and used nowhere;
  `CHAT_CONTEXT.md:186` gives a constraint timeout of 1.5 s, the configuration 2.1 s.

## 4. What is proved

For every value of the constants that satisfies the assumptions of the modules.

**Conflict resolution** (`ConflictResolverProofs`, from `CoordinationAssumption`,
`ResolverAssumption` and, for the closed loop, the assumption of `ConflictSystem`). The inductive
invariant is `TypeOK /\ LocksBelong`: types alone are not inductive, because a cycle reads its
locks; `LocksBelong` adds that a lock exists only with `EnableLock`, for a pair of its resolver that
has been heard of, and orders two different vehicles within its miss count. The argument is
`SoundStep`: whatever is detected, one pair goes through one cycle from a good lock to a good lock,
a STOP lock that is not released keeps its roles, a FOLLOWING lock keeps its roles or goes, and the
decision agrees with the lock. From it follow `TypeCorrect`, `LocksAreSound`, `OrderIsHeld`,
`RolesAreKept` and `OneStrategy` (where no vehicle hears two resolvers and locks are enabled).

What is published is a step further: `publishResult` sends each vehicle the first conflict of the
result that names it. `StopsAreTold` says for any number of vehicles, where no vehicle hears two
resolvers (`OneSpeaker`), that both vehicles of a STOP lock are told a conflict, and which of them
yields if it is theirs. With two vehicles there is no other conflict to be told instead, and
`YieldIsTold` proves `YieldIsPublished`; with three it is false (*A third vehicle breaks the
publication*), so that `N = 2` is a condition of the code and not of the proof.

*Closed loop.* `SystemTypes` proves `SysTypeOK` for any geometry: shaping cuts a trajectory at a stop
point that is never behind the vehicle, whatever constraint is in force. `LoopIsResolver` proves that
every behaviour of `ConflictSystem` is one of `ConflictResolver`: shaping only shortens the candidate
a vehicle drives along, which the open environment allows. All theorems on resolvers hold in the closed
loop with it. Geometry, scores and lags play no part in any of these theorems.

**Parking controller** (`ParkingControlProofs`, from `ParkingAssumption`). The inductive
invariant adds to `ControlTypeOK` and `PendingFits` that a steering count in use is below its
threshold (the cycle that reaches it leaves the state) and that without a pending segment no gear
is asked for and no confirmation counted: this is why SHIFT_GEAR cannot be left for
PREPARE_STEERING without a segment. `ControlTypes` and `PendingAlwaysFits` follow, and
`ControlRefines`: every step is a step of `SegmentExecution` or changes neither `Mode` nor `Doing`.

**Handshake** (`ParkingBackEndProofs`, from `ParkingAssumption` and `BackEndAssumption`, for any segments
and thresholds; with `Lag < GearStable`, without which the properties are false). Both invariants count
the reports that may still be old. For the simulated vehicle (`ExecutionInv`) `Handshake` says: in each
state that drives or is about to, the vehicle stays in the gear (`GearIn`): it is in, and no shift out of it
is pending or under way; while a gear is asked for and its order under way, the confirmations counted are
at most the reports published since it went out, so that `GearStable` of them outlast the order
(`OrderCounted`); a reset that has reached one side only finds the other in a state where it does no harm
(`HalfReset`). `AlwaysInGear` and `ReleasesWhenReady` follow. Behind the Lite bridge (`LiteInv`)
`CommandFits` relates the last command to the gear applied and `OrderGoesThrough` counts in the same way,
although the forward gear confirms itself; `LiteReleasesInGear` follows. `LoopRefines` and `LiteRefines`
carry `ControlRefines` over: each composition implements `SegmentExecution`, since neither back-end
touches what the refinement reads; that needs no condition on `Lag`.

**Parking task** (`ParkingTaskProofs`, from `PlannerAssumption`). For any trajectories, any
`MaxSegments`, `MaxTasks` and `MaxAlarms`: `PlannerTypes`, `SegmentsStayAgreed`, `NothingDrivesOn`,
`SequenceIsKept`. The invariant follows what the planner published last from its topic into the controller and
relies on nothing the planner hears back: a committed segment waits on its topic, with no reset or goal
beside it that could undo it, or is what the controller works on (`CommittedIsSent`); the same holds of the stop
of a planner that brakes (`BrakingIsSent`) and of the goal reached (`ReachedIsSent`); at a cusp the vehicle
stands at the end of the committed segment (`AtCusp`), which is why the next one can be committed; a search begins with
empty topics and publishes nothing (`SearchWaits`). A report, however old, changes the feedback and nothing
else (`HearStatusKeeps`), and feedback alone moves no segment: the vehicle's place is asked too (`TrackKeeps`).
An overtaken reset clears the controller while nothing is committed, and so undoes no segment (`TakeOrderKeeps`).

**Platoon** (`PlatoonProofs`, from `VehiclesAssumption`, `CooperationAssumption` and `PlatoonAssumption`, for
any set of vehicles, pads and commands). The invariant types every node, queue and buffer by sets
that carry the property: `Members` are lists that name nobody twice, `Ordered` the missions with such
a list, `CoopOrdered` and `PlanOrdered` the nodes with one that is empty where no platoon is built.
Lemmas about `AddNum`, `EraseNum` and the queues stay within these sets, one lemma per command,
callback and cycle follows, and from them `PlatoonTypes`, `DissolvedForgets`, `NobodyIsTwice` and
`StartsOnlyInPlatoon`.

That the copies agree is proved of one leader (`OnePad`) which, in a simulation, gives a command only
when its own missions have come back (`Patient`; nothing is asked of it on real vehicles, nor of the
radio). Both are conditions of the code: with two pads, or without waiting, the copies differ. The
missions of one leader are one sequence. `Effect(k, m)` is what mission `m` makes of a platoon `k`;
`CoopKnows` and `PlanKnows` show that the code of the cooperation node and that of the planner, which
differ in everything else, both make this of it or stop. `Brings(k, queue, l)` says that a node that
knows `k` knows `l` after a queue (a function on `0..Len(queue)` instead of a recursion). `OneSequence`,
the invariant: in a simulation there is a point `k` of the sequence, what has been broadcast, to which
the queue of every node brings it, the leader being ahead by what it has yet to send, with nothing left to do
for any mission on its way back to it (`EffectOnce`: a mission obeyed twice changes nothing); on real vehicles
each vehicle has a point of its own, since the radio loses missions, but the same for both of its nodes, and a mission the
hub's buffer lost still reached the leader's planner. `CopiesOfOneLeaderAgree` and `ListsOfOneLeaderAgree` follow.

**Route** (`RouteProofs`, from `RouteAssumption` and `TaskRouteAssumption`). `Planned` says that each
leg's end is found in `lastMultiPoints` behind the leg's index, whatever points replans added in front;
`Sound` adds that the index published is one of a leg, `Waiting` that no order to go on is remembered
from one callback to the next, `Shown` that the leg published is the current one. A replan takes its
targets from `lastMultiPoints` by the index of a leg, which is why `Planned` is needed. From it
`RouteTypes`, `CurrentIsPublished`, `ReplanKeepsAgenda`, `OrdersOnly`.

**Shaped driving** (`ShapedDrivingProofs`, from `ProcessorAssumption` and `DrivingAssumption`, for any
peers, constraints, trajectories and parameters; `DrivingAssumption` asks that a constraint is one the
resolver can send: a role that changes nothing, a stop with an entry, or a following order with a peer). The
invariant has three parts. `MemoryOK` types what is remembered from one cycle to the next. `Leader`: the
leader is the peer of the order in force and subscribed to, the place known is that peer's and the time
of grace is that of its order. `Shaping`: what is driven came from what was planned by the code's own ways
out, `Driving(planned, taken, driven)`: it takes over the prefix, is nowhere faster, obeys a stop in
force, and under a following order keeps its cap. The argument goes along `apply()`. A stop cuts the
trajectory at a line not before the first new point, scales speeds down to a profile that reaches zero there, and
computes times anew; each of these steps is a lemma. If the result passes the validation the controller needs, it
is what `TypeOK` and `StopIsFinal` ask for; if not, the emergency stop is tried, which is a stop of the same
kind, at a line not farther than the first where that lies ahead; if that is refused, both lines lie right behind a path point, the exception
`StopIsFinal` names. A cap needs no emergency stop: the capped trajectory differs in nothing the
validation rejects. Times are functions defined by recursion along the trajectory; that they exist and have integers as values is shown by a least counterexample among the
natural numbers (`LeastElement`), because the library's induction is out of reach. `TypeCorrect`,
`SlowsOnly` and `StopsFinally` follow. `FollowerSees` adds that a blind follower is planned nothing that
moves (`FollowStops`, `NothingPlannedMoves`).

**Road** (`RoadProofs`, from `RoadAssumption` and `DrivingAssumption`). Types, and `Quiet`: while the vehicle
is stopped and no order to start came since, the last report shows no start and a start that the
terminal shows has been answered, so that it does not count as a change. `RoadTyped` and `Restart`
follow, for any trajectories, distances and buttons.

**Only model-checked:** all liveness (out of the prover's reach), and `NoOverlap` (run `LoopMerging`). It
depends on the geometry, on fresh states and on a stop margin larger than the depth at which the published entry
may lie in an overlap, which the shipped configuration does not have (*An entry inside the overlap*); what
is proved of the closed loop for every instance is what does not: locks, orders, publication, types.

## 5. Not modelled, and why

Geometry and numerical optimisation (search, LIOM, MPC, speed and path planning, detection of
polygons, the route's graph search) appear as inputs or through `Meet`. Parking: turning the wheels at
rest in the middle of a segment, the parking brake, lost messages. Shaping: the leader's speed, lateral
errors, returns of a disabled processor. Lite: steering, of which any is reported. Platoon: driving
modes, goals, the followers' geometry, torn copies of the hub's buffer. Route: the display, the cloud
map, obstacle memory. Road: the closed loop (PID, slope, throttle tables), the calibration, simulation
and escape modes, sequence numbers. The velocity optimiser, reference line, localisation and perception
compute one result per call; cloud, pad and tools are I/O and user interface around vendored or
generated code, which is most of the repository.

## 6. Plan

1. `ParkingLink`: `Parking` with trajectories and end reports that may be lost (queues of length one);
   the stop trajectory that is published once.
2. `ShapedDriving` with `ConflictSystem`: an expired constraint meets a resolver that still counts on
   the vehicle to wait.
3. `Platoon` with `RoadDriving`: missions that silence a controller until a trajectory of their type.
4. `ConflictSystem` with `MaxStale > 0` and a section narrowed by the detection: which margins keep the
   footprints apart there, and a proof for them.

The runs stay one per question: a module of the plan that extends an existing composition takes
over its run.
