\* Tasks 2 and 4 have the parents 3 and 1, two updates make 2 the parent of 1 and 4 of 3.
SPECIFICATION Spec
CONSTANTS
  Calls = {1, 2}
  Tasks = {1, 2, 3, 4}
  Keys <- MCKeys
  MaxTurns = 9
  Starts <- MCChainStarts
  NextTask = 5
  Plans <- MCChainPlans
  MaxFaults = 0
INVARIANTS
  NoParentCycle
CHECK_DEADLOCK FALSE
