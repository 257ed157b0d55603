\* Three requests over two tasks and one that is created.
SPECIFICATION LiveSpec
CONSTANTS
  Calls = {1, 2, 3}
  Tasks = {1, 2, 3}
  Keys <- MCKeys
  MaxTurns = 9
  Starts <- MCStarts
  NextTask = 3
  Plans <- MCPlans
  MaxFaults = 1
INVARIANTS
  TypeOK
  NoDangling
  NoShortCycle
  IndexAgrees
PROPERTIES
  PromiseHolds
  SavesFit
  EachCallAnswers
CHECK_DEADLOCK FALSE
