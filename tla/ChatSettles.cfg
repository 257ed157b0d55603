\* What must happen in the end, with no help of the agent.
CONSTANTS
  Texts = {t1, t2}
  Requests = {}
  t1 = t1
  t2 = t2
  q1 = q1
  MaxRuns = 2
  MaxPicks = 0
  MaxWrites = 1
  Budgets <- SettleBudgets
SPECIFICATION LiveSpec
CHECK_DEADLOCK FALSE
PROPERTIES
  MessageSettles
  EndSettles
