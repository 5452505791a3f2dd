SPECIFICATION FairSpec
CONSTANTS
  r1 = r1
  r2 = r2
  Requests = {r1, r2}
  Kinds <- MCKinds
  MaxBatch = 2
  MaxRequests = 2
  MaxPanics = 1
  MaxReloads = 1
CHECK_DEADLOCK FALSE
INVARIANTS BatchJoined NoStaleVerdict MetricsAccount GracefulShutdown
PROPERTIES RequestsEnd SignalEnds
