SPECIFICATION FairStartupSpec
CONSTANTS
  Checkers <- MCCheckers
  Name <- MCName
  MaxRetries = 2
  Changes = 1
  Cancels = TRUE
INVARIANT ReadyMeansReported
PROPERTIES RefusedForCause ReadyOnceHealthy
\* WaitForReady returns and is not called again.
CHECK_DEADLOCK FALSE
