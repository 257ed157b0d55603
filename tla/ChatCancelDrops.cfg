\* A cancel while two messages join a start that fails.
CONSTANTS
  Texts = {t1, t2}
  Requests = {}
  t1 = t1
  t2 = t2
  q1 = q1
  MaxRuns = 2
  MaxPicks = 1
  MaxWrites = 2
  Budgets <- LostBudgets
SPECIFICATION Spec
CHECK_DEADLOCK FALSE
SYMMETRY MCSymmetry
PROPERTIES
  CancelDropsEachText
