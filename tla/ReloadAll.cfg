SPECIFICATION FairSpec
CONSTANTS
  Partial = Partial
  SaveKinds <- MCBothKinds
  Directory <- MCOneDirectory
  Debounce = 2
  MaxTime = 5
  MaxVersion = 4
INVARIANT ReadersAgree
PROPERTIES EngineMovesForward UnhurriedSavesTakeEffect StopReturns
\* Stopped, with all its saves made, nothing is left to happen.
CHECK_DEADLOCK FALSE
