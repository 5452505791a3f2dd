SPECIFICATION Spec
CONSTANTS
  t1 = t1
  t2 = t2
  None = None
  Threads <- MCThreads
  Limit = 2
  Window = 1
  MaxTime = 3
  MaxReloads = 1
  MaxFaults = 1
SYMMETRY Symmetry
INVARIANTS BucketBound WindowBound
PROPERTIES FreshEntriesStand DenialsEnd
