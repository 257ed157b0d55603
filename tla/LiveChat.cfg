\* A chat, its log and one page that follows it.
CONSTANTS
  Texts = {t1}
  Requests = {q1}
  t1 = t1
  q1 = q1
  Tags = {a, b, c}
  Home = a
  a = a
  b = b
  c = c
  Events <- MCEvents
  MaxJobs = 2
  Budgets <- MCBudgets
SPECIFICATION LiveSpec
CHECK_DEADLOCK FALSE
INVARIANTS
  TypeOK
  FoldIsLog
  LogKeepsCalls
  StatusTold
  ViewIsLog
PROPERTIES
  NewIsUnseen
  LoadedRests
  KeptWhileThere
  ReaderCatchesUp
