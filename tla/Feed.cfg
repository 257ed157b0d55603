\* The change feed, the long poll of one page and two of its queries.
CONSTANTS
  Kinds <- MCKinds
  Queries <- MCQueries
  Tells <- MCTells
  Watched <- MCWatched
  Size = 1
  Budgets <- MCBudgets
SPECIFICATION FairSpec
CHECK_DEADLOCK FALSE
INVARIANTS
  TypeOK
  NoSilentStale
PROPERTIES
  CatchesUp
