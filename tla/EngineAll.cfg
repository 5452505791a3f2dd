SPECIFICATION Spec
CONSTANTS
  t1 = t1
  t2 = t2
  guest = guest
  Threads = {t1, t2}
  Requests <- MCRequests
  RuleSets <- MCRuleSets
  Ceiling <- MCCeiling
  MaxFaults = 1
  MaxElapses = 1
  MaxReloads = 1
SYMMETRY Symmetry
INVARIANTS TypeOK CounterBound GrantBound BaseBound
PROPERTY ImplementsRateBudget
