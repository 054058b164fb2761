\* Five jobs for a pool and a second backlog of two places each.
CONSTANTS
  Jobs = {j1, j2, j3, j4, j5}
  Submitters = {t1, t2}
  Workers = {w1}
  MaxSize = 2
  MaxSubmits = 5
  CanShutdown = TRUE
  None = None
SPECIFICATION FairSpec
INVARIANTS
  OneRunPerJob
  BooksBalance
PROPERTIES
  Finishes
\* The bounded calls of submit end.
CHECK_DEADLOCK FALSE
