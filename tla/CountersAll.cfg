SPECIFICATION Spec
CONSTANTS
  t1 = t1
  t2 = t2
  Threads <- MCThreads
  Keys <- MCKeys
  Ops <- AllOps
  TTLs <- MCTTLs
  MaxTime = 4
  MaxUpdates = 3
SYMMETRY Symmetry
INVARIANT OnlyStaleEvictionsOverlap
PROPERTY DeadlinesStand
