SPECIFICATION FairSpec
CONSTANTS
  Tasks = {1, 2, 3}
  OffMap = {3}
  Solutions <- MCSolutions
  CloudTasks <- MCCloudTasks
  Clicked = {2}
  PublishRepeat = 2
  MaxRequests = 3
INVARIANTS RouteTypeOK PublishedIsCurrent AgendaRemembered
PROPERTIES AdvanceOnlyOnOrder RouteEnds
CHECK_DEADLOCK FALSE
