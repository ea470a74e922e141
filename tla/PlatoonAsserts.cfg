SPECIFICATION Spec
CONSTANTS
  Vehicles = {1, 2, 3}
  QueueLen = 1
  Lists <- MCLists
  Pads = {1}
  Running = {1, 3}
  MaxCommands = 3
INVARIANTS AssertionsHold
CHECK_DEADLOCK FALSE
