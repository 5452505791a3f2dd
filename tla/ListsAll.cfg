SPECIFICATION ListsSpec
CONSTANTS
  t1 = t1
  t2 = t2
  Callers <- MCThreads
  Indices <- MCIndices
  Cleaning = TRUE
  MaxPushes = 3
SYMMETRY Symmetry
INVARIANT OrphansBounded
PROPERTY SlicesLikeRedis
\* Once closed, the storage refuses every operation.
CHECK_DEADLOCK FALSE
