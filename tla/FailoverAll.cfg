SPECIFICATION Spec
CONSTANTS
  c1 = c1
  c2 = c2
  c3 = c3
  None = None
  Callers = {c1, c2, c3}
  Limit = 2
  MaxMoves = 5
  MaxElapses = 1
SYMMETRY Symmetry
INVARIANT FailoverBound
