\* Three starts over one tree.
CONSTANTS
  Procs = {d1, d2, d3}
  Nobody = nobody
  Ports = {1, 2}
  Rounds = 3
  Budgets <- MCBudgets
SPECIFICATION Spec
SYMMETRY MCSymmetry
CHECK_DEADLOCK FALSE
INVARIANTS
  TypeOK
  OneServes
  RecordStands
  RefusedForOne
