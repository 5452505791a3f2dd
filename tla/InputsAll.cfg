SPECIFICATION InputsSpec
CONSTANTS
  Settings <- MCSettings
  Multiplier <- MCMultiplier
  MaxInt64 = 127
  DefaultMaxSize = 64
  RestingSettings <- SoundSettings
  NotToml = NotToml
  Configs <- MCConfigs
  SemVers <- MCSemVers
  RestingText <- MCNoText
  Patterns <- MCPatterns
  Values <- MCValues
  Dicts <- MCDicts
  MaxInt = 5
INVARIANTS RulesWellFormed LoadedRulesBuild ValidatedRulesLoad
INVARIANTS ValidatedConfigStarts VerdictAsDocumented RangesRecognised
\* One start or one call of Match per behaviour.
CHECK_DEADLOCK FALSE
