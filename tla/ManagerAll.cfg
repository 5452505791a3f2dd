SPECIFICATION FairSpec
CONSTANTS
  c1 = c1
  c2 = c2
  Health = Health
  None = None
  Callers = {c1, c2}
  Ops <- MCBoth
  Cancels = TRUE
  MaxFailures = 2
  MaxOutages = 1
INVARIANTS ModeAgrees StraysBounded DegradedForCause
PROPERTIES ImplementsFailoverCycle RecoversEventually CloseReturns
