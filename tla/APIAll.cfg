SPECIFICATION RateLimitSpec
CONSTANTS
  t1 = t1
  t2 = t2
  t3 = t3
  NoCounter = NoCounter
  Handlers <- MCThreads
  IPs <- MCOneIP
  RequestLimit = 2
  RequestWindow = 2
  MaxClock = 4
SYMMETRY Symmetry
INVARIANT ServedBound
