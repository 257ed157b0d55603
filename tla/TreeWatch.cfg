\* Two projects, three watches.
CONSTANTS
  Tags = {2, 3}
  Limit = 3
  Budgets <- MCBudgets
SPECIFICATION Spec
CHECK_DEADLOCK FALSE
INVARIANTS
  NothingMissed
  RescanTold
