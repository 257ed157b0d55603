\* Messages and a pick against an end, the daemon stop and a failing write.
CONSTANTS
  Texts = {t1, t2}
  Requests = {}
  t1 = t1
  t2 = t2
  q1 = q1
  MaxRuns = 2
  MaxPicks = 1
  MaxWrites = 2
  Budgets <- EndBudgets
SPECIFICATION Spec
CHECK_DEADLOCK FALSE
SYMMETRY MCSymmetry
INVARIANTS
  TypeOK
  OneProcess
  NoStrayAgent
  PickHasOwner
  ClosedIsAtRest
PROPERTIES
  StopHolds
  EndMeansEnded
