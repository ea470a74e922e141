SPECIFICATION Spec
CONSTANTS
  Vehicles = {1, 2, 3}
  QueueLen = 1
  Lists <- MCLists
  Pads = {1}
  Running = {1, 3}
  MaxCommands = 3
INVARIANTS DissolvedIsEmpty NobodyTwice CopiesAgree ListsAgree
PROPERTIES OnlyPlatoonStarts
CHECK_DEADLOCK FALSE
