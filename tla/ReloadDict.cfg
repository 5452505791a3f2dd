SPECIFICATION Spec
CONSTANTS
  Partial = Partial
  SaveKinds <- MCReplace
  Directory <- MCDirectories
  Debounce = 2
  MaxTime = 4
  MaxVersion = 3
INVARIANTS DictSavesTakeEffect
\* Stopped, with all its saves made, nothing is left to happen.
CHECK_DEADLOCK FALSE
