\* Three starts over one tree and a record that a dead daemon left; nothing stops, dies or fails.
CONSTANTS
  Procs = {d1, d2, d3}
  Nobody = nobody
  Ports = {1, 2, 3}
  Rounds = 3
  Budgets <- NoBudgets
SPECIFICATION Spec
SYMMETRY MCSymmetry
CHECK_DEADLOCK FALSE
INVARIANTS
  OneDaemonPerTree
