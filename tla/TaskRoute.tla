------------------------------ MODULE TaskRoute ------------------------------
(***************************************************************************)
(* A vehicle and its tasks: the task scheduler repeats its assignment, the   *)
(* cloud sends others, the route node plans and publishes the legs, the      *)
(* vehicle drives the leg that is published, the operator confirms at its    *)
(* end, and the planner of a vehicle that stands before an obstacle, or the   *)
(* cloud, asks for another way.  Every topic holds the newest message.        *)
(***************************************************************************)
EXTENDS Route

CONSTANTS
  Solutions,         \* what the genetic scheduler may assign to the vehicle
  CloudTasks,        \* what the cloud may assign
  Clicked,           \* points that are clicked in rviz
  PublishRepeat,     \* publish_repeat_count
  MaxRequests        \* bound: what the cloud, the planner and rviz ask for

ASSUME TaskRouteAssumption ==
  /\ Solutions \cup CloudTasks \subseteq Seq(Tasks) /\ Clicked \subseteq Tasks
  /\ PublishRepeat \in Nat \ {0}
  /\ MaxRequests \in Nat

VARIABLES
  solution,    \* the assignment of the scheduler
  started,     \* the start command was given
  sent,        \* times the solution was published
  initBox,     \* /init_point, for the simulated vehicle
  multiBox,    \* /multi_point_planning
  replanBox,   \* /replan
  nextBox,     \* next_route_segment
  at,          \* where the vehicle is
  requests     \* how many requests were made

boxes == <<initBox, multiBox, replanBox, nextBox>>
scheduler == <<solution, started, sent>>
vars == <<routeVars, scheduler, boxes, at, requests>>

None == <<ORIGIN>>
RangeOf(seq) == {seq[i] : i \in DOMAIN seq}

Init ==
  /\ RouteInit
  /\ solution \in Solutions /\ started = FALSE /\ sent = 0
  /\ initBox = FALSE /\ multiBox = None /\ replanBox = FALSE /\ nextBox = FALSE
  /\ at = ORIGIN
  /\ requests = 0

Request == requests < MaxRequests /\ requests' = requests + 1

-------------------------------------------------------------------------------
(* wait_for_start_command *)
StartCommand ==
  /\ ~started /\ started' = TRUE
  /\ UNCHANGED <<routeVars, solution, sent, boxes, at, requests>>

(* publish_solution: again and again, whatever the vehicle has done meanwhile *)
PublishSolution ==
  /\ started /\ sent < PublishRepeat
  /\ sent' = sent + 1
  /\ initBox' = TRUE /\ multiBox' = solution
  /\ UNCHANGED <<routeVars, solution, started, replanBox, nextBox, at, requests>>

(* The cloud's assignments and blocked points (cloud_comm.cpp). *)
CloudAssign ==
  /\ \E tasks \in CloudTasks : multiBox' = tasks
  /\ Request
  /\ UNCHANGED <<routeVars, scheduler, initBox, replanBox, nextBox, at>>

RequestReplan ==
  /\ ~replanBox /\ replanBox' = TRUE
  /\ Request
  /\ UNCHANGED <<routeVars, scheduler, initBox, multiBox, nextBox, at>>

PressNext ==
  /\ ~nextBox /\ nextBox' = TRUE
  /\ UNCHANGED <<routeVars, scheduler, initBox, multiBox, replanBox, at, requests>>

-------------------------------------------------------------------------------
Odometry ==
  /\ OnPose(at)
  /\ UNCHANGED <<scheduler, boxes, at, requests>>

TakeAssignment ==
  /\ multiBox # None
  /\ OnMultiPoint(multiBox)
  /\ multiBox' = None
  /\ UNCHANGED <<scheduler, initBox, replanBox, nextBox, at, requests>>

TakeReplan ==
  /\ replanBox
  /\ OnReplan
  /\ replanBox' = FALSE
  /\ UNCHANGED <<scheduler, initBox, multiBox, nextBox, at, requests>>

TakeNext ==
  /\ nextBox
  /\ OnNextSegment
  /\ nextBox' = FALSE
  /\ UNCHANGED <<scheduler, initBox, multiBox, replanBox, at, requests>>

(* Simulate::callBackInitPoint: the simulated vehicle is put back to its start *)
(* each time.                                                                *)
PlaceVehicle ==
  /\ initBox
  /\ at' = ORIGIN
  /\ initBox' = FALSE
  /\ UNCHANGED <<routeVars, scheduler, multiBox, replanBox, nextBox, requests>>

(* Clicks in rviz: a first point, then the goal. *)
Click ==
  /\ \E point \in Clicked :
       OnInitialPose(point) \/ OnGoal(point)
  /\ Request
  /\ UNCHANGED <<scheduler, boxes, at>>

-------------------------------------------------------------------------------
(* The vehicle follows the leg published last, to its end. *)
Depart ==
  /\ published # NoLeg /\ at \notin {ROAD, published.to}
  /\ at' = ROAD
  /\ UNCHANGED <<routeVars, scheduler, boxes, requests>>

Arrive ==
  /\ published # NoLeg /\ at = ROAD
  /\ at' = published.to
  /\ UNCHANGED <<routeVars, scheduler, boxes, requests>>

Next ==
  \/ StartCommand \/ PublishSolution \/ CloudAssign \/ RequestReplan \/ PressNext
  \/ Odometry \/ TakeAssignment \/ TakeReplan \/ TakeNext
  \/ PlaceVehicle \/ Click \/ Depart \/ Arrive

Spec == Init /\ [][Next]_vars

(* Odometry keeps coming, messages are taken, the vehicle drives and the       *)
(* operator confirms again and again.                                        *)
Fairness ==
  /\ WF_vars(Odometry) /\ WF_vars(TakeAssignment) /\ WF_vars(TakeReplan)
  /\ WF_vars(TakeNext) /\ WF_vars(PressNext) /\ WF_vars(Depart) /\ WF_vars(Arrive)

FairSpec == Spec /\ Fairness

-------------------------------------------------------------------------------
(* Every variable has its type, and a current leg is one of the planned ones. *)
RouteTypeOK ==
  /\ node \in RouteNode /\ node.pubIndex < Len(node.results)
  /\ published \in LegSet \cup {NoLeg}
  /\ multiBox \in Seq(Tasks) \cup {None}
  /\ {started, initBox, replanBox, nextBox} \subseteq BOOLEAN
  /\ at \in Points \cup {ROAD}

(* The leg that counts as current is the one the vehicle was given, whatever    *)
(* assignments and replans replaced the route meanwhile.                       *)
PublishedIsCurrent ==
  node.pubIndex >= 0 => Active(node) /\ published = CurrentLeg(node)

(* Ends of the legs still to be driven *)
Ahead(n) == {n.results[i].to : i \in {j \in DOMAIN n.results : j > n.pubIndex}}

(* A request for another way plans for all that is still ahead: lastMultiPoints  *)
(* keeps step with the legs, though a replan removes legs and adds points.       *)
AgendaRemembered == node.pubIndex >= 0 => Ahead(node) \subseteq RangeOf(Targets(node))

(* The route goes on to its next leg only at an order taken where the current    *)
(* leg ends, never by itself.                                                  *)
AdvanceOnlyOnOrder ==
  [][node.pubIndex >= 0 /\ node'.pubIndex > node.pubIndex
       => nextBox /\ ~nextBox' /\ node.pose = CurrentLeg(node).to]_vars

(* A planned route is not left standing: it is driven to its end or given up.    *)
RouteEnds == node.results # <<>> /\ node.up ~> node.results = <<>> \/ ~node.up
===============================================================================
