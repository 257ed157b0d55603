\* Two messages or own turns, a request, a cancel, an exit of the agent and a failing write.
CONSTANTS
  Texts = {t1, t2}
  Requests = {q1}
  t1 = t1
  t2 = t2
  q1 = q1
  MaxRuns = 2
  MaxPicks = 0
  MaxWrites = 2
  Budgets <- WorkBudgets
SPECIFICATION Spec
CHECK_DEADLOCK FALSE
SYMMETRY MCSymmetry
INVARIANTS
  NoTextTwice
  NoTextForgotten
  RunMirrorsLog
  NoOrphanTurn
PROPERTIES
  CancelHolds
  EventsFit
