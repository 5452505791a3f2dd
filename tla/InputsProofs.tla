----------------------------- MODULE InputsProofs -----------------------------
(***************************************************************************)
(* Proofs about what the process reads, whatever it holds: the thorough    *)
(* validators promise no more than start-up and reloads keep, the engine   *)
(* gets only rules its algorithms can work with, the one dash that         *)
(* FindRangeDash considers is enough to recognise a range, and a matcher   *)
(* accepts what the documented syntax gives its pattern.                   *)
(***************************************************************************)
EXTENDS Inputs, FiniteSetTheorems, SequenceTheorems, TLAPS

-------------------------------------------------------------------------------
(* The settings file.                                                      *)

\* What the defaults leave alone, and what they set.
LEMMA Defaults ==
  ASSUME NEW c \in SettingsFile
  PROVE  /\ ApplyDefaults(c).listen = c.listen
         /\ ApplyDefaults(c).maxSize = c.maxSize
         /\ ApplyDefaults(c).numCounters = c.numCounters
         /\ ApplyDefaults(c).rulesFile = c.rulesFile
         /\ ApplyDefaults(c).type = Or(c.type, "", "local")
         /\ ApplyDefaults(c).level = Or(c.level, "", "info")
         /\ ApplyDefaults(c).format = Or(c.format, "", "console")
         /\ ApplyDefaults(c).readTimeout = Or(c.readTimeout, 0, 5 * Second)
         /\ ApplyDefaults(c).reloadInterval = Or(c.reloadInterval, 0, 30 * Second)
BY DEF SettingsFile, ApplyDefaults

\* validateConfig finds nothing in a file that ValidateConfig passes.
LEMMA ValidatedIsAccepted ==
  ASSUME NEW c \in SettingsFile, ValidateConfig(c)
  PROVE  Accepted(ApplyDefaults(c)) /\ ApplyDefaults(c).type = c.type
<1>1. c.listen.form # "" BY DEF ValidateConfig, ValidServer, ValidListen
<1>2. c.type \in StorageTypes /\ c.level \in Levels /\ c.format \in Formats
  BY DEF ValidateConfig, ValidStorage, ValidLogging
<1>3. c.type # "" /\ c.level # "" /\ c.format # ""
  BY <1>2 DEF StorageTypes, Levels, Formats
<1> QED BY <1>1, <1>2, <1>3, Defaults DEF Accepted, Or

\* A product is taken into the range of an int64, and left alone if it is in there.
LEMMA ProductsWrap ==
  ASSUME NEW n \in Nat
  PROVE  /\ Wrapped(n) \in Int /\ Wrapped(n) <= MaxInt64
         /\ n <= MaxInt64 => Wrapped(n) = n
<1> DEFINE m == 2 * (MaxInt64 + 1)
<1>1. MaxInt64 \in Nat /\ m \in Nat \ {0} BY SettingsAssumption
<1>2. (n + MaxInt64 + 1) % m \in 0..(m - 1)
  <2> HIDE DEF m
  <2> QED BY <1>1
<1>3. n <= MaxInt64 => (n + MaxInt64 + 1) % m = n + MaxInt64 + 1
  <2> SUFFICES ASSUME n <= MaxInt64 PROVE (n + MaxInt64 + 1) % m = n + MaxInt64 + 1
    OBVIOUS
  <2>1. n + MaxInt64 + 1 \in 0..(m - 1) BY <1>1
  <2> HIDE DEF m
  <2> QED BY <1>1, <2>1
<1> DEFINE r == (n + MaxInt64 + 1) % m
<1>4. r \in Int /\ r <= 2 * (MaxInt64 + 1) - 1 BY <1>1, <1>2
<1>5. n <= MaxInt64 => r = n + MaxInt64 + 1 BY <1>3
<1>6. Wrapped(n) = r - (MaxInt64 + 1) BY DEF Wrapped
<1> HIDE DEF r, m
<1> QED BY <1>1, <1>4, <1>5, <1>6

\* GetMaxSizeBytes: the cache is of the size asked for when that fits, and then only;
\* it is refused as too small only for a size that does not fit.
LEMMA SizeAsRequested ==
  ASSUME NEW c \in SettingsFile
  PROVE  LET size == c.maxSize
             cost == MaxSizeBytes(c.maxSize)
         IN  /\ cost \in Int
             /\ cost <= 0 => size.form = "size" /\ ~SizeFits(size)
             /\ cost # 0 /\ ParseSize(size) # {} => (cost = Requested(size) <=> SizeFits(size))
<1> DEFINE size == c.maxSize  cost == MaxSizeBytes(c.maxSize)  n == Requested(size)
<1>1. MaxInt64 \in Nat /\ DefaultMaxSize \in 1..MaxInt64 BY SettingsAssumption
<1>2. n \in Nat
  <2>1. size.value \in Nat /\ size.unit \in DOMAIN Multiplier BY DEF SettingsFile
  <2>2. Multiplier[size.unit] \in Nat BY <2>1, SettingsAssumption
  <2> QED BY <2>1, <2>2 DEF Requested
<1>3. CASE ParseSize(size) = {}
  <2>1. cost = DefaultMaxSize BY <1>3 DEF MaxSizeBytes
  <2> HIDE DEF cost
  <2>2. cost \in Int /\ ~(cost <= 0) BY <1>1, <2>1
  <2> QED BY <1>3, <2>2, Zenon DEF cost
<1>4. CASE ParseSize(size) # {}
  <2>1. size.form = "size" /\ ParseSize(size) = {Wrapped(n)} BY <1>4 DEF ParseSize, Requested
  <2>2. cost = Wrapped(n) BY <2>1 DEF MaxSizeBytes
  <2>3. Wrapped(n) \in Int /\ Wrapped(n) <= MaxInt64 /\ (n <= MaxInt64 => Wrapped(n) = n)
    BY <1>2, ProductsWrap
  <2>4. SizeFits(size) <=> n \in 1..MaxInt64 BY DEF SizeFits
  <2> HIDE DEF cost, n
  <2>5. cost \in Int /\ (cost <= 0 => ~SizeFits(size)) BY <1>1, <1>2, <2>2, <2>3, <2>4
  <2>6. cost # 0 => (cost = n <=> SizeFits(size)) BY <1>1, <1>2, <2>2, <2>3, <2>4
  <2> QED BY <2>1, <2>5, <2>6 DEF cost, n
<1> QED BY <1>3, <1>4

\* A default replaces zeros only.
LEMMA DefaultsArePositive ==
  ASSUME NEW n \in Nat, NEW bound \in Nat, n <= bound, NEW default \in 1..bound
  PROVE  Or(n, 0, default) \in 1..bound
BY DEF Or

-------------------------------------------------------------------------------
\* Where main is, and what it has by then.
IInv ==
  /\ config \in Settings
  /\ boot \in {"config", "storage", "rules", "watcher", "up", "failed"}
  /\ boot \in {"config", "storage"} => store = "none"
  /\ boot \in {"storage", "rules", "watcher", "up"} => loaded = ApplyDefaults(config)
  /\ store # "none" => maxCost = MaxSizeBytes(config.maxSize) /\ maxCost # 0
  /\ boot \in {"rules", "watcher", "up"} =>
       store = IF loaded.type = "redis" THEN "manager" ELSE "local"
  /\ boot = "up" =>
       /\ loaded.reloadInterval > 0 => watching # "off"
       /\ requestTimeout = loaded.readTimeout
  /\ boot = "failed" =>
       \/ ~Accepted(ApplyDefaults(config))
       \/ NewCacheFails(MaxSizeBytes(config.maxSize), Or(config.numCounters, 0, 100000))
       \/ config.rulesFile # "loads"

LEMMA IInvHolds == SettingsSpec => []IInv
<1>1. SettingsInit => IInv BY DEF SettingsInit, IInv
<1>2. IInv /\ [SettingsNext]_settingsVars => IInv'
  <2> SUFFICES ASSUME IInv, [SettingsNext]_settingsVars PROVE IInv' OBVIOUS
  <2>0. config \in SettingsFile BY SettingsAssumption DEF IInv
  <2>1. CASE LoadConfig BY <2>1 DEF IInv, LoadConfig, cache
  <2>2. CASE InitStorage
    <3>1. loaded = ApplyDefaults(config) BY <2>2 DEF IInv, InitStorage
    <3>2. loaded.maxSize = config.maxSize /\ loaded.numCounters = config.numCounters
      BY <2>0, <3>1, Defaults
    <3> QED BY <2>2, <3>1, <3>2 DEF IInv, InitStorage, NewCacheWorks
  <2>3. CASE LoadRulesFile
    <3>1. loaded = ApplyDefaults(config) BY <2>3 DEF IInv, LoadRulesFile
    <3>2. loaded.rulesFile = config.rulesFile BY <2>0, <3>1, Defaults
    <3> QED BY <2>3, <3>1, <3>2 DEF IInv, LoadRulesFile, cache
  <2>4. CASE StartWatcher BY <2>4 DEF IInv, StartWatcher, cache
  <2>5. CASE UNCHANGED settingsVars BY <2>5 DEF IInv, settingsVars, cache
  <2> QED BY <2>1, <2>2, <2>3, <2>4, <2>5 DEF SettingsNext
<1> QED BY <1>1, <1>2, PTL DEF SettingsSpec

\* A settings file of any content that ValidateConfig (validate.go:77) passes gets
\* through start-up as ValidatedConfigStarts says.
THEOREM ValidatedConfigAlwaysStarts == SettingsSpec => []ValidatedConfigStarts
<1>1. IInv => ValidatedConfigStarts
  <2> SUFFICES ASSUME IInv, ValidateConfig(config) PROVE ValidatedConfigStarts
    BY DEF ValidatedConfigStarts
  <2>0. config \in SettingsFile BY SettingsAssumption DEF IInv
  <2>1. Accepted(ApplyDefaults(config)) /\ ApplyDefaults(config).type = config.type
    BY <2>0, ValidatedIsAccepted
  <2>2. ASSUME boot = "failed"
        PROVE  \/ config.rulesFile # "loads"
               \/ config.maxSize.form = "size" /\ ~SizeFits(config.maxSize)
               \/ config.type = "redis" /\ config.numCounters < 0
    <3> DEFINE cost == MaxSizeBytes(config.maxSize)
               counters == Or(config.numCounters, 0, 100000)
    <3>1. NewCacheFails(cost, counters) \/ config.rulesFile # "loads"
      BY <2>1, <2>2 DEF IInv
    <3>2. cost <= 0 => config.maxSize.form = "size" /\ ~SizeFits(config.maxSize)
      BY <2>0, SizeAsRequested
    <3>3. counters <= 0 => config.numCounters < 0
      <4>1. config.numCounters \in Int BY <2>0 DEF SettingsFile
      <4>2. CASE config.numCounters = 0 BY <4>2 DEF Or
      <4>3. CASE config.numCounters # 0
        <5>1. counters = config.numCounters BY <4>3 DEF Or
        <5> HIDE DEF counters
        <5> QED BY <4>1, <4>3, <5>1
      <4> QED BY <4>2, <4>3
    <3>4. config.type \in StorageTypes /\ (config.type = "local" => ~(config.numCounters < 0))
      <4>1. config.numCounters \in Int BY <2>0 DEF SettingsFile
      <4>2. config.type = "local" => config.numCounters >= 0
        BY DEF ValidateConfig, ValidStorage, ValidLocal
      <4>3. config.type \in StorageTypes BY DEF ValidateConfig, ValidStorage
      <4> QED BY <4>1, <4>2, <4>3
    <3> HIDE DEF cost, counters
    <3> QED BY <3>1, <3>2, <3>3, <3>4 DEF NewCacheFails, StorageTypes
  <2>3. ASSUME boot = "up"
        PROVE  /\ watching # "off"
               /\ requestTimeout \in 1..(5 * Minute)
               /\ store = IF config.type = "redis" THEN "manager" ELSE "local"
    <3>1. loaded = ApplyDefaults(config)
      BY <2>3 DEF IInv
    <3>8. (loaded.reloadInterval > 0 => watching # "off") /\ requestTimeout = loaded.readTimeout
      BY <2>3 DEF IInv
    <3>9. store = IF loaded.type = "redis" THEN "manager" ELSE "local"
      BY <2>3 DEF IInv
    <3>2. /\ loaded.reloadInterval = Or(config.reloadInterval, 0, 30 * Second)
          /\ loaded.readTimeout = Or(config.readTimeout, 0, 5 * Second)
      BY <2>0, <3>1, Defaults
    <3>3. config.reloadInterval \in Int /\ config.readTimeout \in Int
      BY <2>0 DEF SettingsFile
    <3>4. config.reloadInterval = 0 \/ config.reloadInterval >= Second
      BY DEF ValidateConfig, ValidRulesRef
    <3>7. config.readTimeout \in 0..(5 * Minute) BY DEF ValidateConfig, ValidServer
    <3>5. loaded.reloadInterval > 0 BY <3>2, <3>3, <3>4 DEF Or, Second
    <3>6. loaded.readTimeout \in 1..(5 * Minute)
      <4> DEFINE bound == 5 * Minute
                 default == 5 * Second
      <4>0. Second \in Nat \ {0} /\ Minute \in Nat /\ Second <= Minute BY DEF Minute, Second
      <4>1. bound \in Nat /\ default \in 1..bound BY <4>0
      <4>2. config.readTimeout \in 0..bound BY <3>7
      <4>3. loaded.readTimeout = Or(config.readTimeout, 0, default) BY <3>2
      <4> HIDE DEF bound, default
      <4>4. \A n \in 0..bound : Or(n, 0, default) \in 1..bound BY <4>1, DefaultsArePositive
      <4>5. loaded.readTimeout \in 1..bound BY <4>2, <4>3, <4>4
      <4> QED BY <4>5 DEF bound
    <3>10. watching # "off" BY <3>5, <3>8
    <3>11. requestTimeout \in 1..(5 * Minute) BY <3>6, <3>8
    <3>12. store = IF config.type = "redis" THEN "manager" ELSE "local" BY <2>1, <3>1, <3>9
    <3> QED BY <3>10, <3>11, <3>12
  <2>4. ASSUME store # "none"
        PROVE  /\ maxCost # 0
               /\ ParseSize(config.maxSize) # {} =>
                    (maxCost = Requested(config.maxSize) <=> SizeFits(config.maxSize))
    <3>1. maxCost = MaxSizeBytes(config.maxSize) /\ maxCost # 0 BY <2>4 DEF IInv
    <3> QED BY <2>0, <3>1, SizeAsRequested
  <2> QED BY <2>2, <2>3, <2>4 DEF ValidatedConfigStarts
<1> QED BY <1>1, IInvHolds, PTL

-------------------------------------------------------------------------------
(* The rules file.                                                         *)

\* Of a configuration that validateRules accepts the rate rules of the rule set are
\* those written in it, each well-formed: validateRateRule knows no type but those
\* that buildRateRule does.
LEMMA ValidRulesWellFormed ==
  ASSUME NEW c \in Configs, ValidRules(c), NEW p \in RatePhases
  PROVE  /\ Len(BuildRuleSet(c)[p]) = Len(c[p])
         /\ \A i \in 1..Len(c[p]) : WellFormed(BuildRuleSet(c)[p][i], c[p][i], c.results)
<1>1. p \notin AccessPhases
  BY DEF RatePhases, AccessPhases
<1>2. BuildRuleSet(c)[p] = [j \in 1..Len(c[p]) |-> BuildRateRule(c[p][j])]
  BY <1>1 DEF BuildRuleSet
<1>3. Len(BuildRuleSet(c)[p]) = Len(c[p])
  BY <1>2, ConfigsAssumption
<1>4. ASSUME NEW i \in 1..Len(c[p])
      PROVE  WellFormed(BuildRuleSet(c)[p][i], c[p][i], c.results)
  <2> DEFINE built == BuildRuleSet(c)[p][i]  written == c[p][i]
  <2>1. built = BuildRateRule(written)
    BY <1>2
  <2>2. /\ built.name = written.name /\ built.result = written.result
        /\ built.alg = Algorithm(written.type)
        /\ built.count = written.count /\ built.time = written.time /\ built.base = written.base
    BY <2>1 DEF BuildRateRule
  <2>3. ValidRateRule(written, c.results) /\ RuleFields(written)
    BY ConfigsAssumption DEF ValidRules
  <2> HIDE DEF built, written
  <2>4. written.name # "" /\ written.type \in Types /\ written.result \in c.results
    BY <2>3, Zenon DEF ValidRateRule
  <2>5. written.count \in Nat \ {0} /\ written.time \in Nat \ {0}
    <3>1. written.count \in Int /\ written.time \in Int
      BY <2>3, Zenon DEF RuleFields
    <3>2. written.count > 0 /\ written.time > 0
      BY <2>3, Zenon DEF ValidRateRule
    <3> QED  BY <3>1, <3>2
  <2>6. DOMAIN Counted = Types
    BY DEF Counted, Types
  <2>7. \A t \in Types : Algorithm(t) = Counted[t]
    <3>1. Algorithm("count") = Counted["count"]
      BY DEF Algorithm, Counted
    <3>2. Algorithm("freq") = Counted["freq"]
      BY DEF Algorithm, Counted
    <3>3. Algorithm("accumulate") = Counted["accumulate"]
      BY DEF Algorithm, Counted
    <3> QED  BY <3>1, <3>2, <3>3 DEF Types
  <2> QED  BY <2>2, <2>4, <2>5, <2>6, <2>7, Zenon DEF WellFormed, built, written
<1> QED  BY <1>3, <1>4

\* validateRules looks up every result that buildAccessRule and buildRateRule will.
LEMMA ValidRulesBuild ==
  ASSUME NEW c, ValidRules(c)
  PROVE  Builds(c)
BY DEF ValidRules, Builds, ValidAccessRule, ValidRateRule

FileKnown == file \in Configs \cup {NotToml} /\ source \in Configs \cup {NotToml}

\* Whatever is saved to the rules file, in whatever order with the reloads, the rate
\* rules the engine runs are those of one file it held, in its order and each counted
\* by the algorithm of its type: Load is the only way into Engine.rules, and it takes
\* only what validateRules accepted, whose list of types is buildRateRule's.
THEOREM RulesAlwaysWellFormed == Spec => []RulesWellFormed
<1> DEFINE Inv == FileKnown /\ RulesWellFormed
<1>1. Init => Inv
  <2> SUFFICES ASSUME Init PROVE RulesWellFormed
    BY DEF Init, FileKnown
  <2>1. \A p \in RatePhases : rules[p] = << >>
    BY DEF Init, EmptyRuleSet
  <2> QED  BY <2>1 DEF RulesWellFormed, Init
<1>2. Inv /\ [Next]_vars => Inv'
  <2> SUFFICES ASSUME Inv, [Next]_vars PROVE Inv'
    OBVIOUS
  <2>1. CASE Load
    <3>1. file \in Configs /\ ValidRules(file) /\ rules' = BuildRuleSet(file) /\ source' = file
      BY <2>1 DEF Load, Loads, FileKnown
    <3>2. source' # NotToml
      BY <3>1, ConfigsAssumption
    <3>3. ASSUME NEW p \in RatePhases
          PROVE  /\ Len(rules'[p]) = Len(source'[p])
                 /\ \A i \in 1..Len(rules'[p]) : WellFormed(rules'[p][i], source'[p][i], source'.results)
      BY <3>1, ValidRulesWellFormed
    <3>4. RulesWellFormed'
      BY <3>2, <3>3 DEF RulesWellFormed
    <3> QED  BY <2>1, <3>1, <3>4 DEF Load, FileKnown
  <2>2. ASSUME NEW c \in Configs \cup {NotToml}, Save(c) PROVE Inv'
    BY <2>2 DEF Save, FileKnown, RulesWellFormed
  <2>3. CASE UNCHANGED vars
    BY <2>3 DEF vars, FileKnown, RulesWellFormed
  <2> QED  BY <2>1, <2>2, <2>3 DEF Next
<1> QED  BY <1>1, <1>2, PTL DEF Spec

\* A rules file that validateRules accepts never fails in BuildRuleSet.
THEOREM LoadedRulesAlwaysBuild == Spec => []LoadedRulesBuild
<1>1. LoadedRulesBuild
  BY ValidRulesBuild DEF LoadedRulesBuild
<1> QED  BY <1>1, PTL

\* A rules file of any content that ValidateRules (validate.go:258) passes loads and
\* builds: the two validators agree on whatever has been saved.
THEOREM ValidatedRulesAlwaysLoad == Spec => []ValidatedRulesLoad
<1>1. ValidatedRulesLoad
  <2> SUFFICES ASSUME file # NotToml, ValidateRules(file)
               PROVE  Loads(file) /\ Builds(file)
    BY DEF ValidatedRulesLoad
  <2>1. file.version # "" BY SemVersAssumption DEF ValidateRules, ValidateMeta
  <2>2. \A p \in AccessPhases : \A i \in 1..Len(file[p]) : ValidAccessRule(file[p][i], file.results)
    BY DEF ValidateRules, ValidateSingleAccessRule, ValidAccessRule
  <2>3. \A p \in RatePhases : \A i \in 1..Len(file[p]) : ValidRateRule(file[p][i], file.results)
    BY DEF ValidateRules, ValidateSingleRateRule, ValidRateRule
  <2>4. Loads(file) BY <2>1, <2>2, <2>3 DEF Loads, ValidRules
  <2>5. Builds(file) BY <2>2, <2>3 DEF Builds, ValidAccessRule, ValidRateRule
  <2> QED BY <2>4, <2>5
<1> QED BY <1>1, PTL

-------------------------------------------------------------------------------
(* Patterns.                                                               *)

\* Token has these marks already, but the provers do not know that "." is a string.
Glyph == Token \cup {Mark("."), Mark("*")}
Text == Seq(Glyph)

LEMMA TokensAreText ==
  ASSUME NEW s \in Seq(Token)
  PROVE  s \in Text
<1>1. Token \subseteq Glyph
  BY DEF Glyph
<1> QED BY <1>1 DEF Text

\* FindRangeDash (matcher.go:98-111) stops at the first dash it accepts.
LEMMA OneRangeDash ==
  ASSUME NEW p \in Text, NEW i \in FindRangeDash(p), NEW j \in FindRangeDash(p)
  PROVE  i = j
<1>1. i \in 1..Len(p) /\ j \in 1..Len(p) BY DEF FindRangeDash, Text
<1>2. CASE i < j
  <2>1. i \in 2..(j - 1) BY <1>1, <1>2 DEF FindRangeDash
  <2> QED BY <2>1 DEF FindRangeDash
<1>3. CASE j < i
  <2>1. j \in 2..(i - 1) BY <1>1, <1>3 DEF FindRangeDash
  <2> QED BY <2>1 DEF FindRangeDash
<1> QED BY <1>1, <1>2, <1>3

\* A dash with an integer on its left is the first that is not a sign: the
\* integer is one number, at most a sign before it.
LEMMA RangeDashIsFound ==
  ASSUME NEW p \in Text, NEW i \in DOMAIN p, p[i].c = "-", IsInteger(Before(p, i))
  PROVE  i \in FindRangeDash(p)
<1> DEFINE s == Before(p, i)
<1>1. i \in 1..Len(p) BY DEF Text
<1>2. Len(s) = i - 1 /\ \A k \in 1..(i - 1) : s[k] = p[k] BY <1>1 DEF Before, Text
<1>3. Len(s) \in {1, 2} /\ s[Len(s)].c = "number" BY DEF IsInteger
<1>4. i \in {2, 3} /\ p[i - 1].c = "number" BY <1>1, <1>2, <1>3
<1>5. \A k \in 2..(i - 1) : p[k].c # "-" BY <1>4
<1> QED BY <1>4, <1>5 DEF FindRangeDash

\* The same set of dashes, looked for in two ways.
LEMMA RangeDashesFound ==
  ASSUME NEW p \in Text
  PROVE  RangeDashes(p) =
           {i \in FindRangeDash(p) : IsInteger(Before(p, i)) /\ IsInteger(After(p, i))}
BY RangeDashIsFound DEF RangeDashes, FindRangeDash

\* isRangePattern (matcher.go:81-93) says yes to exactly the texts that are
\* two integers with a dash between them, and such a text can be cut in one
\* way only.
LEMMA RangePatternsHaveOneDash ==
  ASSUME NEW p \in Text
  PROVE  IsRangePattern(p) <=> Cardinality(RangeDashes(p)) = 1
<1>1. IsRangePattern(p) <=> RangeDashes(p) # {} BY RangeDashesFound DEF IsRangePattern
<1>2. CASE RangeDashes(p) = {}
  <2>1. Cardinality(RangeDashes(p)) = 0 BY <1>2, FS_EmptySet
  <2> QED BY <1>1, <1>2, <2>1
<1>3. CASE RangeDashes(p) # {}
  <2>1. PICK i \in RangeDashes(p) : TRUE BY <1>3
  <2>2. \A j \in RangeDashes(p) : j = i BY <2>1, RangeDashesFound, OneRangeDash
  <2>3. RangeDashes(p) = {i} BY <2>1, <2>2
  <2>4. Cardinality(RangeDashes(p)) = 1 BY <2>3, FS_Singleton
  <2> QED BY <1>1, <1>3, <2>4
<1> QED BY <1>2, <1>3

\* Every pattern, whatever its length and the signs in it, is recognised as
\* a range exactly when it is one (matcher.go:81-111).
THEOREM RangesAlwaysRecognised == MatchSpec => []RangesRecognised
<1>1. MatchInit => pattern \in Text BY MatcherAssumption, TokensAreText DEF MatchInit
<1>2. pattern \in Text /\ [Match]_matchVars => (pattern \in Text)' BY DEF Match, matchVars
<1>3. pattern \in Text => RangesRecognised
  BY RangePatternsHaveOneDash DEF RangesRecognised
<1> QED BY <1>1, <1>2, <1>3, PTL DEF MatchSpec

-------------------------------------------------------------------------------
(* The elements of a finite set of integers, in order.                     *)

Rank(S, i) == Cardinality({j \in S : j <= i})

LEMMA RankGrows ==
  ASSUME NEW S \in SUBSET Int, IsFiniteSet(S), NEW i \in S, NEW k \in S, i < k
  PROVE  Rank(S, i) < Rank(S, k)
<1> DEFINE A == {j \in S : j <= i}  B == {j \in S : j <= k}
<1>0. i \in Int /\ k \in Int /\ \A j \in S : j \in Int
  OBVIOUS
<1>a. B \in SUBSET S
  OBVIOUS
<1>b. k \in B /\ k \notin A
  BY <1>0
<1>c. A \in SUBSET B
  <2>1. \A j \in S : j <= i => j <= k
    BY <1>0
  <2> QED  BY <2>1
<1>1. A \in SUBSET B /\ B \in SUBSET S /\ k \in B /\ k \notin A
  BY <1>a, <1>b, <1>c
<1>2. IsFiniteSet(B) /\ IsFiniteSet(A) /\ Cardinality(A) <= Cardinality(B)
  BY <1>1, FS_Subset
<1>3. Cardinality(A) # Cardinality(B)
  BY <1>1, <1>2, FS_Subset
<1>4. Cardinality(A) \in Nat /\ Cardinality(B) \in Nat
  BY <1>2, FS_CardinalityType
<1> HIDE DEF A, B
<1>5. Cardinality(A) < Cardinality(B)
  BY <1>2, <1>3, <1>4
<1> QED  BY <1>5 DEF A, B, Rank

LEMMA RankType ==
  ASSUME NEW S \in SUBSET Int, IsFiniteSet(S), NEW i \in S
  PROVE  Rank(S, i) \in 1..Cardinality(S)
<1> DEFINE A == {j \in S : j <= i}
<1>1. A \in SUBSET S /\ i \in A
  OBVIOUS
<1>2. IsFiniteSet(A) /\ Cardinality(A) <= Cardinality(S)
  BY <1>1, FS_Subset
<1>3. Cardinality(A) \in Nat /\ Cardinality(S) \in Nat
  BY <1>2, FS_CardinalityType
<1>4. Cardinality(A) # 0
  BY <1>1, <1>2, FS_EmptySet
<1> HIDE DEF A
<1>5. Cardinality(A) \in 1..Cardinality(S)
  BY <1>2, <1>3, <1>4
<1> QED  BY <1>5 DEF A, Rank

LEMMA RankExists ==
  ASSUME NEW S \in SUBSET Int, IsFiniteSet(S), NEW k \in 1..Cardinality(S)
  PROVE  \E i \in S : Rank(S, i) = k
<1> DEFINE n == Cardinality(S)  f == [i \in S |-> Rank(S, i)]
<1>1. n \in Nat
  BY FS_CardinalityType
<1>2. IsFiniteSet(1..n) /\ Cardinality(1..n) = n
  <2>1. 1 \in Int /\ n \in Int
    BY <1>1
  <2> HIDE DEF n
  <2>2. IsFiniteSet(1..n) /\ Cardinality(1..n) = IF 1 > n THEN 0 ELSE n - 1 + 1
    BY <2>1, FS_Interval
  <2>3. Cardinality(1..n) = n
    BY <1>1, <2>2
  <2> QED  BY <2>2, <2>3
<1>3. f \in [S -> 1..n]
  BY RankType
<1>4. \A i, j \in S : f[i] = f[j] => i = j
  <2> SUFFICES ASSUME NEW i \in S, NEW j \in S, Rank(S, i) = Rank(S, j), i # j  PROVE FALSE
    OBVIOUS
  <2>0. Rank(S, i) \in 1..n /\ n \in Nat /\ i \in Int /\ j \in Int
    BY <1>1, RankType
  <2>1. i < j \/ j < i
    <3>1. i \in Int /\ j \in Int
      BY <2>0
    <3> QED  BY <3>1
  <2>2. CASE i < j
    BY <2>0, <2>2, RankGrows
  <2>3. CASE j < i
    BY <2>0, <2>3, RankGrows
  <2> QED  BY <2>1, <2>2, <2>3
<1>5. f \in Injection(S, 1..n)
  BY <1>3, <1>4 DEF Injection, IsInjective
<1>6. f \in Surjection(S, 1..n)
  BY <1>2, <1>5, FS_Injection
<1>7. \E i \in S : f[i] = k
  BY <1>6 DEF Surjection
<1> QED  BY <1>7

LEMMA NthRank ==
  ASSUME NEW S \in SUBSET Int, IsFiniteSet(S), NEW k \in 1..Cardinality(S)
  PROVE  Nth(S, k) \in S /\ Rank(S, Nth(S, k)) = k
BY RankExists DEF Nth, Rank

LEMMA RankNth ==
  ASSUME NEW S \in SUBSET Int, IsFiniteSet(S), NEW i \in S
  PROVE  Nth(S, Rank(S, i)) = i
<1> DEFINE k == Rank(S, i)  m == Nth(S, k)
<1>1. k \in 1..Cardinality(S) /\ Cardinality(S) \in Nat
  BY RankType, FS_CardinalityType
<1>2. m \in S /\ Rank(S, m) = k
  BY <1>1, NthRank
<1>3. m \in Int /\ i \in Int /\ k \in Int
  <2> HIDE DEF m
  <2> QED  BY <1>1, <1>2
<1>4. ~(m < i) /\ ~(i < m)
  <2> HIDE DEF m
  <2>1. Rank(S, i) \in Int
    BY <1>3
  <2> QED  BY <1>2, <2>1, RankGrows
<1>5. m = i
  <2> HIDE DEF m
  <2> QED  BY <1>3, <1>4
<1> QED  BY <1>5

\* Neighbours have ranks that follow each other.
LEMMA NextRank ==
  ASSUME NEW S \in SUBSET Int, IsFiniteSet(S), NEW i \in S, NEW k \in S, i < k,
         \A j \in S : ~(i < j /\ j < k)
  PROVE  Rank(S, k) = Rank(S, i) + 1
<1> DEFINE A == {j \in S : j <= i}  B == {j \in S : j <= k}
<1>0. i \in Int /\ k \in Int /\ \A j \in S : j \in Int
  OBVIOUS
<1>a. A \in SUBSET S
  OBVIOUS
<1>b. k \notin A
  BY <1>0
<1>c. \A j \in S : j <= k <=> j <= i \/ j = k
  BY <1>0
<1>d. B = A \cup {k}
  BY <1>c
<1>1. B = A \cup {k} /\ k \notin A /\ A \in SUBSET S
  BY <1>a, <1>b, <1>d
<1>2. IsFiniteSet(A)
  BY <1>1, FS_Subset
<1> HIDE DEF A, B
<1>3. Cardinality(B) = Cardinality(A) + 1
  BY <1>1, <1>2, FS_AddElement
<1> QED  BY <1>3 DEF A, B, Rank

LEMMA NthNext ==
  ASSUME NEW S \in SUBSET Int, IsFiniteSet(S), NEW k \in 1..(Cardinality(S) - 1)
  PROVE  /\ Nth(S, k) \in S /\ Nth(S, k + 1) \in S
         /\ Nth(S, k) < Nth(S, k + 1)
         /\ \A j \in S : ~(Nth(S, k) < j /\ j < Nth(S, k + 1))
<1> DEFINE n == Cardinality(S)  a == Nth(S, k)  b == Nth(S, k + 1)
<1>1. n \in Nat /\ k \in 1..n /\ k + 1 \in 1..n /\ k \in Int
  <2>1. n \in Nat
    BY FS_CardinalityType
  <2> HIDE DEF n
  <2>2. k \in 1..(n - 1)
    BY DEF n
  <2> QED  BY <2>1, <2>2
<1>2. a \in S /\ b \in S /\ Rank(S, a) = k /\ Rank(S, b) = k + 1
  BY <1>1, NthRank
<1>3. a \in Int /\ b \in Int
  BY <1>2
<1> HIDE DEF a, b
<1>4. a < b
  <2>1. a # b
    BY <1>1, <1>2
  <2>2. ~(b < a)
    BY <1>1, <1>2, RankGrows
  <2> QED  BY <1>3, <2>1, <2>2
<1>5. ASSUME NEW j \in S, a < j, j < b  PROVE FALSE
  <2>1. k < Rank(S, j) /\ Rank(S, j) < k + 1
    BY <1>2, <1>5, RankGrows
  <2>2. Rank(S, j) \in Int
    BY <1>1, RankType
  <2> QED  BY <1>1, <2>1, <2>2
<1> QED  BY <1>2, <1>4, <1>5 DEF a, b

-------------------------------------------------------------------------------
(* Texts, their integers and their pieces.                                 *)

LEMMA TextIs ==
  ASSUME NEW s \in Text
  PROVE  /\ Len(s) \in Nat /\ DOMAIN s = 1..Len(s)
         /\ \A i \in 1..Len(s) : s[i] \in Glyph
BY LenProperties DEF Text

LEMMA TokenIs ==
  ASSUME NEW t \in Glyph
  PROVE  /\ t.c = "number" => t.n \in Nat /\ t = Num(t.n)
         /\ t.c # "number" => t = Mark(t.c)
<1>1. CASE t \in Token
  BY <1>1 DEF Token, Num, Mark
<1>2. CASE t = Mark(".") \/ t = Mark("*")
  BY <1>2 DEF Mark
<1> QED  BY <1>1, <1>2 DEF Glyph

LEMMA SubTextIs ==
  ASSUME NEW s \in Text, NEW i \in 1..(Len(s) + 1), NEW j \in 0..Len(s)
  PROVE  /\ SubSeq(s, i, j) \in Text
         /\ i <= j + 1 => Len(SubSeq(s, i, j)) = j - i + 1
         /\ j < i => Len(SubSeq(s, i, j)) = 0
         /\ \A k \in 1..(j - i + 1) : SubSeq(s, i, j)[k] = s[i + k - 1]
<1>1. Len(s) \in Nat /\ i \in Int /\ j \in Int /\ \A k \in i..j : s[k] \in Glyph
  BY TextIs
<1>2. /\ SubSeq(s, i, j) \in Seq(Glyph)
      /\ Len(SubSeq(s, i, j)) = IF i <= j THEN j - i + 1 ELSE 0
      /\ \A k \in 1..(j - i + 1) : SubSeq(s, i, j)[k] = s[i + k - 1]
  BY <1>1, SubSeqProperties
<1> QED  BY <1>1, <1>2 DEF Text

LEMMA SameText ==
  ASSUME NEW s \in Text, NEW t \in Text, Len(s) = Len(t), \A i \in 1..Len(s) : s[i] = t[i]
  PROVE  s = t
BY SeqEqual DEF Text

\* strconv.ParseInt, said in the other direction.
LEMMA ParsedIsDenoted ==
  ASSUME NEW s \in Text
  PROVE  ParseInt(s) = Denoted(s)
<1>0. MaxInt \in Nat
  BY MatcherAssumption
<1>1. Len(s) \in Nat /\ \A i \in 1..Len(s) : s[i] \in Glyph
  BY TextIs
<1>2. ASSUME NEW k \in Int  PROVE k \in ParseInt(s) <=> k \in Denoted(s)
  <2>1. CASE k \notin Int64
    BY <1>0, <2>1 DEF ParseInt, Denoted, Int64
  <2>2. CASE k \in Int64
    <3>1. k \in Denoted(s) <=> s \in Decimals(k)
      BY <2>2 DEF Denoted
    <3>2. k \in ParseInt(s) <=>
            IsInteger(s) /\ k = IF StartsWith(s, "-") THEN -s[2].n ELSE s[Len(s)].n
      BY <1>0, <2>2 DEF ParseInt, Int64
    <3>3. ASSUME s \in Decimals(k)
          PROVE  IsInteger(s) /\ k = IF StartsWith(s, "-") THEN -s[2].n ELSE s[Len(s)].n
      <4>1. CASE s = <<Num(k)>>
        BY <4>1 DEF IsInteger, StartsWith, Num
      <4>2. CASE s = <<Mark("+"), Num(k)>>
        BY <4>2 DEF IsInteger, StartsWith, Num, Mark
      <4>3. CASE s = <<Mark("-"), Num(-k)>>
        BY <4>3 DEF IsInteger, StartsWith, Num, Mark
      <4> QED  BY <3>3, <4>1, <4>2, <4>3 DEF Decimals
    <3>4. ASSUME IsInteger(s), k = IF StartsWith(s, "-") THEN -s[2].n ELSE s[Len(s)].n
          PROVE  s \in Decimals(k)
      <4>1. Len(s) \in {1, 2} /\ s[Len(s)].c = "number"
        BY <3>4 DEF IsInteger
      <4>2. s[Len(s)].n \in Nat /\ s[Len(s)] = Num(s[Len(s)].n)
        BY <1>1, <4>1, TokenIs
      <4>3. CASE StartsWith(s, "-")
        <5>1. Len(s) = 2 /\ s[1].c = "-"
          BY <3>4, <4>3 DEF IsInteger, StartsWith
        <5>2. s[1] = Mark("-")
          BY <1>1, <5>1, TokenIs
        <5>3. s[2] = Num(-k) /\ k <= 0
          BY <3>4, <4>2, <4>3, <5>1
        <5>4. s = <<Mark("-"), Num(-k)>>
          BY <5>1, <5>2, <5>3 DEF Text
        <5> QED  BY <5>3, <5>4 DEF Decimals
      <4>4. CASE StartsWith(s, "+")
        <5>1. Len(s) = 2 /\ s[1].c = "+"
          BY <3>4, <4>4 DEF IsInteger, StartsWith
        <5>2. s[1] = Mark("+")
          BY <1>1, <5>1, TokenIs
        <5>3. s[2] = Num(k) /\ k >= 0
          BY <3>4, <4>2, <4>4, <5>1 DEF StartsWith
        <5>4. s = <<Mark("+"), Num(k)>>
          BY <5>1, <5>2, <5>3 DEF Text
        <5> QED  BY <5>3, <5>4 DEF Decimals
      <4>5. CASE ~ StartsWith(s, "-") /\ ~ StartsWith(s, "+")
        <5>1. Len(s) = 1
          BY <3>4, <4>5 DEF IsInteger
        <5>2. s[1] = Num(k) /\ k >= 0
          BY <3>4, <4>2, <4>5, <5>1
        <5>3. s = <<Num(k)>>
          BY <5>1, <5>2 DEF Text
        <5> QED  BY <5>2, <5>3 DEF Decimals
      <4> QED  BY <4>3, <4>4, <4>5
    <3> QED  BY <3>1, <3>2, <3>3, <3>4
  <2> QED  BY <2>1, <2>2
<1>3. ParseInt(s) \subseteq Int
  <2> SUFFICES ASSUME NEW k \in ParseInt(s)  PROVE k \in Int
    OBVIOUS
  <2>1. IsInteger(s) /\ k = IF StartsWith(s, "-") THEN -s[2].n ELSE s[Len(s)].n
    BY DEF ParseInt
  <2>2. Len(s) \in {1, 2} /\ s[Len(s)].c = "number"
    BY <2>1 DEF IsInteger
  <2>3. s[Len(s)].n \in Nat
    BY <1>1, <2>2, TokenIs
  <2>4. StartsWith(s, "-") => Len(s) = 2
    BY <2>1 DEF IsInteger
  <2> QED  BY <2>1, <2>3, <2>4
<1>4. Denoted(s) \subseteq Int
  BY <1>0 DEF Denoted, Int64
<1> QED  BY <1>2, <1>3, <1>4

LEMMA OperandIsTail ==
  ASSUME NEW p \in Text, NEW c, StartsWith(p, c)
  PROVE  After(p, 1) = Tail(p) /\ After(p, 1) \in Text
<1>1. p # <<>>
  BY DEF StartsWith
<1>2. Tail(p) = SubSeq(p, 2, Len(p)) /\ Tail(p) \in Seq(Glyph)
  BY <1>1, TailIsSubSeq, HeadTailProperties DEF Text
<1> QED  BY <1>2 DEF After, Text

Marked(s, c) == {i \in DOMAIN s : s[i].c = c}

\* What lies between two separators that follow each other, or the ends.
Stretch(s, c, i, j) ==
  /\ i \in 1..(Len(s) + 1) /\ j \in 0..Len(s) /\ i <= j + 1
  /\ \A k \in i..j : s[k].c # c
  /\ i = 1 \/ s[i - 1].c = c
  /\ j = Len(s) \/ s[j + 1].c = c

LEMMA CutsAre ==
  ASSUME NEW s \in Text, NEW c
  PROVE  /\ Cuts(s, c) \in SUBSET Int /\ IsFiniteSet(Cuts(s, c))
         /\ \A i \in Cuts(s, c) : i \in 0..(Len(s) + 1)
         /\ IsFiniteSet(Marked(s, c))
         /\ Cardinality(Cuts(s, c)) = Cardinality(Marked(s, c)) + 2
<1> DEFINE M == Marked(s, c)  n == Len(s)
<1>1. n \in Nat /\ DOMAIN s = 1..n
  BY TextIs
<1>2. M \in SUBSET (1..n)
  BY <1>1 DEF Marked
<1>3. IsFiniteSet(M)
  <2>1. 1 \in Int /\ n \in Int
    BY <1>1
  <2> HIDE DEF n
  <2>2. IsFiniteSet(1..n)
    BY <2>1, FS_Interval
  <2> QED  BY <1>2, <2>2, FS_Subset
<1>4. Cuts(s, c) = (M \cup {0}) \cup {n + 1}
  BY DEF Cuts, Marked
<1>5. 0 \notin M /\ n + 1 \notin M \cup {0}
  BY <1>1, <1>2
<1>6. Cardinality(M) \in Nat
  BY <1>3, FS_CardinalityType
<1>8. \A i \in Cuts(s, c) : i \in 0..(n + 1)
  BY <1>1, <1>2, <1>4
<1>9. Cuts(s, c) \in SUBSET Int
  BY <1>8
<1> HIDE DEF M, n
<1>7. /\ IsFiniteSet(M \cup {0}) /\ IsFiniteSet((M \cup {0}) \cup {n + 1})
      /\ Cardinality((M \cup {0}) \cup {n + 1}) = Cardinality(M) + 1 + 1
  <2>1. IsFiniteSet(M \cup {0}) /\ Cardinality(M \cup {0}) = Cardinality(M) + 1
    BY <1>3, <1>5, FS_AddElement
  <2> DEFINE T == M \cup {0}
  <2> HIDE DEF T
  <2>2. IsFiniteSet(T \cup {n + 1}) /\ Cardinality(T \cup {n + 1}) = Cardinality(T) + 1
    BY <1>5, <2>1, FS_AddElement DEF T
  <2> QED  BY <2>1, <2>2 DEF T
<1>10. Cardinality(M) + 1 + 1 = Cardinality(M) + 2
  BY <1>6
<1> QED  BY <1>3, <1>4, <1>7, <1>8, <1>9, <1>10 DEF M, n

\* strings.Split gives the stretches between the separators, and all of them.
LEMMA PieceIsStretch ==
  ASSUME NEW s \in Text, NEW c, NEW k \in DOMAIN Split(s, c)
  PROVE  \E i, j \in Int : Stretch(s, c, i, j) /\ Split(s, c)[k] = SubSeq(s, i, j)
<1> DEFINE S == Cuts(s, c)  a == Nth(S, k)  b == Nth(S, k + 1)  n == Len(s)
<1>1. k \in 1..(Cardinality(S) - 1) /\ Split(s, c)[k] = SubSeq(s, a + 1, b - 1)
  BY DEF Split
<1>2. a \in S /\ b \in S /\ a < b /\ \A j \in S : ~(a < j /\ j < b)
  BY <1>1, CutsAre, NthNext
<1>3. n \in Nat /\ DOMAIN s = 1..n
  BY TextIs
<1>4. a \in 0..(n + 1) /\ b \in 0..(n + 1)
  BY <1>2, CutsAre
<1>5. a \in {0, n + 1} \/ (a \in 1..n /\ s[a].c = c)
  BY <1>2, <1>3 DEF Cuts
<1>6. b \in {0, n + 1} \/ (b \in 1..n /\ s[b].c = c)
  BY <1>2, <1>3 DEF Cuts
<1>7. \A j \in 1..n : s[j].c = c => j \in S
  BY <1>3 DEF Cuts
<1> HIDE DEF a, b, S
<1>8. a + 1 \in 1..(n + 1) /\ b - 1 \in 0..n /\ a + 1 <= (b - 1) + 1
  BY <1>2, <1>3, <1>4
<1>9. \A j \in (a + 1)..(b - 1) : s[j].c # c
  BY <1>2, <1>3, <1>4, <1>7
<1>10. a + 1 = 1 \/ s[(a + 1) - 1].c = c
  BY <1>2, <1>3, <1>4, <1>5
<1>11. b - 1 = n \/ s[(b - 1) + 1].c = c
  BY <1>2, <1>3, <1>4, <1>6
<1>12. Stretch(s, c, a + 1, b - 1)
  BY <1>8, <1>9, <1>10, <1>11 DEF Stretch
<1>13. a + 1 \in Int /\ b - 1 \in Int
  BY <1>3, <1>4
<1> QED  BY <1>1, <1>12, <1>13 DEF a, b, S

LEMMA StretchIsPiece ==
  ASSUME NEW s \in Text, NEW c, NEW i \in Int, NEW j \in Int, Stretch(s, c, i, j)
  PROVE  \E k \in DOMAIN Split(s, c) : Split(s, c)[k] = SubSeq(s, i, j)
<1> DEFINE S == Cuts(s, c)  a == i - 1  b == j + 1  n == Len(s)  k == Rank(S, a)
<1>1. n \in Nat /\ DOMAIN s = 1..n
  BY TextIs
<1>2. i \in 1..(n + 1) /\ j \in 0..n /\ i <= j + 1
  BY DEF Stretch
<1>3. a \in S
  <2>1. CASE i = 1
    BY <2>1 DEF Cuts
  <2>2. CASE i # 1
    <3>1. a \in 1..n
      BY <1>1, <1>2, <2>2
    <3>2. s[a].c = c
      BY <2>2 DEF Stretch
    <3> HIDE DEF a
    <3> QED  BY <1>1, <3>1, <3>2 DEF Cuts
  <2> QED  BY <2>1, <2>2
<1>4. b \in S
  <2>1. CASE j = n
    BY <2>1 DEF Cuts
  <2>2. CASE j # n
    <3>1. b \in 1..n
      <4> HIDE DEF n
      <4>1. j \in 0..n /\ j # n
        BY <1>2, <2>2
      <4> QED  BY <1>1, <4>1
    <3>2. s[b].c = c
      BY <2>2 DEF Stretch
    <3> HIDE DEF b
    <3> QED  BY <1>1, <3>1, <3>2 DEF Cuts
  <2> QED  BY <2>1, <2>2
<1>5. \A m \in S : ~(a < m /\ m < b)
  <2> SUFFICES ASSUME NEW m \in S, a < m, m < b  PROVE FALSE
    OBVIOUS
  <2>1. m \in 0..(n + 1)
    BY CutsAre
  <2>2. m \in i..j /\ m # 0 /\ m # n + 1
    BY <1>1, <1>2, <2>1
  <2>3. s[m].c = c
    BY <2>2 DEF Cuts
  <2> QED  BY <2>2, <2>3 DEF Stretch
<1>6. a < b
  BY <1>2
<1>7. Rank(S, b) = k + 1
  <2> HIDE DEF S, a, b
  <2>1. S \in SUBSET Int /\ IsFiniteSet(S)
    BY CutsAre DEF S
  <2> QED  BY <1>3, <1>4, <1>5, <1>6, <2>1, NextRank
<1>8. k \in 1..Cardinality(S) /\ Rank(S, b) \in 1..Cardinality(S) /\ Cardinality(S) \in Nat
  BY <1>3, <1>4, CutsAre, RankType, FS_CardinalityType
<1>9. Nth(S, k) = a /\ Nth(S, Rank(S, b)) = b
  BY <1>3, <1>4, CutsAre, RankNth
<1>10. k \in 1..(Cardinality(S) - 1)
  <2> HIDE DEF S, k
  <2> QED  BY <1>7, <1>8
<1>11. Split(s, c)[k] = SubSeq(s, a + 1, b - 1) /\ k \in DOMAIN Split(s, c)
  BY <1>7, <1>9, <1>10 DEF Split
<1>12. a + 1 = i /\ b - 1 = j
  BY <1>2
<1> QED  BY <1>11, <1>12

LEMMA ListAccepts ==
  ASSUME NEW p \in Text, NEW v
  PROVE  MultiMatch(p, v) <=>
           \E i \in 1..(Len(p) + 1), j \in 0..Len(p) :
             Element(p, i, j) /\ TrimSpace(SubSeq(p, i, j)) = v
<1>1. \A i \in 1..(Len(p) + 1), j \in 0..Len(p) : Element(p, i, j) <=> Stretch(p, ",", i, j)
  BY DEF Element, Stretch
<1>2. MultiMatch(p, v) <=> \E k \in DOMAIN Split(p, ",") : TrimSpace(Split(p, ",")[k]) = v
  BY DEF MultiMatch, Range
<1>3. ASSUME NEW k \in DOMAIN Split(p, ","), TrimSpace(Split(p, ",")[k]) = v
      PROVE  \E i \in 1..(Len(p) + 1), j \in 0..Len(p) :
               Element(p, i, j) /\ TrimSpace(SubSeq(p, i, j)) = v
  <2>1. PICK i, j \in Int : Stretch(p, ",", i, j) /\ Split(p, ",")[k] = SubSeq(p, i, j)
    BY PieceIsStretch
  <2>2. i \in 1..(Len(p) + 1) /\ j \in 0..Len(p)
    BY <2>1 DEF Stretch
  <2> QED  BY <1>1, <1>3, <2>1, <2>2
<1>4. ASSUME NEW i \in 1..(Len(p) + 1), NEW j \in 0..Len(p), Element(p, i, j),
             TrimSpace(SubSeq(p, i, j)) = v
      PROVE  \E k \in DOMAIN Split(p, ",") : TrimSpace(Split(p, ",")[k]) = v
  <2>0. Stretch(p, ",", i, j)
    BY <1>1, <1>4
  <2>1. i \in Int /\ j \in Int
    <3> DEFINE n == Len(p)
    <3>1. n \in Nat /\ i \in 1..(n + 1) /\ j \in 0..n
      BY TextIs
    <3> HIDE DEF n
    <3> QED  BY <3>1
  <2>2. PICK k \in DOMAIN Split(p, ",") : Split(p, ",")[k] = SubSeq(p, i, j)
    BY <2>0, <2>1, StretchIsPiece
  <2> QED  BY <1>4, <2>2
<1> QED  BY <1>2, <1>3, <1>4

-------------------------------------------------------------------------------
(* Addresses.                                                              *)

LEMMA SplitCounts ==
  ASSUME NEW s \in Text, NEW c
  PROVE  /\ Cardinality(Marked(s, c)) \in Nat
         /\ Len(Split(s, c)) = Cardinality(Marked(s, c)) + 1
         /\ DOMAIN Split(s, c) = 1..(Cardinality(Marked(s, c)) + 1)
<1> DEFINE m == Cardinality(Marked(s, c))  n == Cardinality(Cuts(s, c))
           f == [k \in 1..(n - 1) |-> SubSeq(s, Nth(Cuts(s, c), k) + 1, Nth(Cuts(s, c), k + 1) - 1)]
<1>1. m \in Nat /\ n = m + 2
  BY CutsAre, FS_CardinalityType
<1>2. Split(s, c) = f
  BY DEF Split
<1>3. DOMAIN f = 1..(n - 1)
  OBVIOUS
<1> HIDE DEF m, n
<1>4. n - 1 = m + 1 /\ m + 1 \in Nat
  BY <1>1
<1>5. Len(f) = m + 1
  BY <1>3, <1>4
<1> QED  BY <1>1, <1>2, <1>3, <1>4, <1>5 DEF m

\* The three dots of an address, and what is between them.
Dotted(s, a, b, d) ==
  /\ a \in 1..Len(s) /\ b \in 1..Len(s) /\ d \in 1..Len(s) /\ a < b /\ b < d
  /\ Marked(s, ".") = {a, b, d}

LEMMA ThreeDots ==
  ASSUME NEW s \in Text, Cardinality(Marked(s, ".")) = 3
  PROVE  \E a, b, d \in Int : Dotted(s, a, b, d)
<1> DEFINE M == Marked(s, ".")  a == Nth(M, 1)  b == Nth(M, 2)  d == Nth(M, 3)
<1>1. M \in SUBSET (1..Len(s)) /\ IsFiniteSet(M) /\ Cardinality(M) = 3
  BY CutsAre, TextIs DEF Marked
<1>2. M \in SUBSET Int
  BY <1>1
<1>3. a \in M /\ b \in M /\ d \in M /\ a < b /\ b < d
  <2> HIDE DEF M
  <2>1. 1 \in 1..(Cardinality(M) - 1) /\ 2 \in 1..(Cardinality(M) - 1) /\ 1 + 1 = 2 /\ 2 + 1 = 3
    BY <1>1
  <2>2. a \in M /\ b \in M /\ a < b
    BY <1>1, <1>2, <2>1, NthNext
  <2>3. b \in M /\ d \in M /\ b < d
    BY <1>1, <1>2, <2>1, NthNext
  <2> QED  BY <2>2, <2>3
<1>4. ASSUME NEW i \in M  PROVE i \in {a, b, d}
  <2> HIDE DEF M
  <2>1. Rank(M, i) \in 1..3 /\ Nth(M, Rank(M, i)) = i
    BY <1>1, <1>2, RankType, RankNth
  <2>2. Rank(M, i) = 1 \/ Rank(M, i) = 2 \/ Rank(M, i) = 3
    BY <2>1
  <2> QED  BY <2>1, <2>2
<1>5. M = {a, b, d}
  BY <1>3, <1>4
<1>6. a \in Int /\ b \in Int /\ d \in Int
  BY <1>2, <1>3
<1>7. Dotted(s, a, b, d)
  <2> HIDE DEF a, b, d
  <2> QED  BY <1>1, <1>3, <1>5 DEF Dotted
<1> QED  BY <1>6, <1>7

LEMMA DottedCounts ==
  ASSUME NEW s, NEW a \in Int, NEW b \in Int, NEW d \in Int, Dotted(s, a, b, d)
  PROVE  Cardinality(Marked(s, ".")) = 3
<1>1. a # b /\ a # d /\ b # d
  BY DEF Dotted
<1>2. IsFiniteSet({a}) /\ Cardinality({a}) = 1
  BY FS_Singleton
<1>3. IsFiniteSet({a} \cup {b}) /\ Cardinality({a} \cup {b}) = 1 + 1
  BY <1>1, <1>2, FS_AddElement
<1>4. {a} \cup {b} = {a, b} /\ d \notin {a, b} /\ {a, b} \cup {d} = {a, b, d}
  BY <1>1
<1>5. Cardinality({a, b} \cup {d}) = 1 + 1 + 1
  BY <1>3, <1>4, FS_AddElement
<1>6. Cardinality({a, b, d}) = 3
  BY <1>4, <1>5
<1> QED  BY <1>6 DEF Dotted

LEMMA FourPieces ==
  ASSUME NEW s \in Text, NEW a \in Int, NEW b \in Int, NEW d \in Int, Dotted(s, a, b, d)
  PROVE  /\ DOMAIN Split(s, ".") = 1..4
         /\ Split(s, ".")[1] = SubSeq(s, 1, a - 1)
         /\ Split(s, ".")[2] = SubSeq(s, a + 1, b - 1)
         /\ Split(s, ".")[3] = SubSeq(s, b + 1, d - 1)
         /\ Split(s, ".")[4] = SubSeq(s, d + 1, Len(s))
<1> DEFINE S == Cuts(s, ".")  n == Len(s)
<1>1. n \in Nat /\ a \in 1..n /\ b \in 1..n /\ d \in 1..n /\ a < b /\ b < d
  BY TextIs DEF Dotted
<1>2. S = {0, a, b, d, n + 1}
  BY DEF Cuts, Marked, Dotted
<1>3. S \in SUBSET Int /\ IsFiniteSet(S) /\ Cardinality(S) = 5
  BY CutsAre, DottedCounts
<1> HIDE DEF S, n
<1>4. Rank(S, 0) = 1
  <2>1. \A j \in S : j <= 0 <=> j = 0
    BY <1>1, <1>2
  <2>2. {j \in S : j <= 0} = {0}
    BY <1>2, <2>1
  <2> QED  BY <2>2, FS_Singleton DEF Rank
<1>5. Rank(S, a) = 2
  <2>1. 0 \in S /\ a \in S /\ 0 < a /\ \A j \in S : ~(0 < j /\ j < a)
    BY <1>1, <1>2
  <2> QED  BY <1>3, <1>4, <2>1, NextRank
<1>6. Rank(S, b) = 3
  <2>1. a \in S /\ b \in S /\ \A j \in S : ~(a < j /\ j < b)
    BY <1>1, <1>2
  <2> QED  BY <1>1, <1>3, <1>5, <2>1, NextRank
<1>7. Rank(S, d) = 4
  <2>1. b \in S /\ d \in S /\ \A j \in S : ~(b < j /\ j < d)
    BY <1>1, <1>2
  <2> QED  BY <1>1, <1>3, <1>6, <2>1, NextRank
<1>8. Rank(S, n + 1) = 5
  <2>1. d \in S /\ n + 1 \in S /\ d < n + 1 /\ \A j \in S : ~(d < j /\ j < n + 1)
    BY <1>1, <1>2
  <2> QED  BY <1>1, <1>3, <1>7, <2>1, NextRank
<1>9. Nth(S, 1) = 0 /\ Nth(S, 2) = a /\ Nth(S, 3) = b /\ Nth(S, 4) = d /\ Nth(S, 5) = n + 1
  BY <1>2, <1>3, <1>4, <1>5, <1>6, <1>7, <1>8, RankNth
<1>10. Split(s, ".") = [k \in 1..4 |-> SubSeq(s, Nth(S, k) + 1, Nth(S, k + 1) - 1)]
  BY <1>3 DEF Split, S
<1>11. /\ Split(s, ".")[1] = SubSeq(s, Nth(S, 1) + 1, Nth(S, 2) - 1)
       /\ Split(s, ".")[2] = SubSeq(s, Nth(S, 2) + 1, Nth(S, 3) - 1)
       /\ Split(s, ".")[3] = SubSeq(s, Nth(S, 3) + 1, Nth(S, 4) - 1)
       /\ Split(s, ".")[4] = SubSeq(s, Nth(S, 4) + 1, Nth(S, 5) - 1)
  BY <1>10
<1>12. Nth(S, 5) - 1 = n /\ Nth(S, 1) + 1 = 1
  BY <1>1, <1>9
<1>13. DOMAIN Split(s, ".") = 1..4
  BY <1>10
<1>14. /\ Split(s, ".")[1] = SubSeq(s, 1, a - 1)
       /\ Split(s, ".")[4] = SubSeq(s, d + 1, n)
  BY <1>9, <1>11, <1>12, Zenon
<1>15. /\ Split(s, ".")[2] = SubSeq(s, a + 1, b - 1)
       /\ Split(s, ".")[3] = SubSeq(s, b + 1, d - 1)
  BY <1>9, <1>11
<1> QED  BY <1>13, <1>14, <1>15 DEF n

LEMMA DotIs == Dot \in Text /\ Len(Dot) = 1 /\ Dot[1] = Mark(".")
<1>1. Mark(".") \in Glyph
  BY DEF Glyph
<1> QED  BY <1>1 DEF Dot, Text

LEMMA Joined ==
  ASSUME NEW a \in Text, NEW b \in Text
  PROVE  /\ a \o Dot \o b \in Text
         /\ Len(a \o Dot \o b) = Len(a) + 1 + Len(b)
         /\ \A i \in 1..Len(a) : (a \o Dot \o b)[i] = a[i]
         /\ (a \o Dot \o b)[Len(a) + 1] = Mark(".")
         /\ \A i \in 1..Len(b) : (a \o Dot \o b)[Len(a) + 1 + i] = b[i]
<1> DEFINE s == a \o Dot  t == s \o b
<1>0. Len(a) \in Nat /\ Len(b) \in Nat
  BY TextIs
<1>1. /\ s \in Text /\ Len(s) = Len(a) + 1
      /\ \A i \in 1..(Len(a) + 1) : s[i] = IF i <= Len(a) THEN a[i] ELSE Dot[i - Len(a)]
  <2>1. a \in Seq(Glyph) /\ Dot \in Seq(Glyph) /\ Len(Dot) = 1
    BY DotIs DEF Text
  <2>2. /\ s \in Seq(Glyph) /\ Len(s) = Len(a) + Len(Dot)
        /\ \A i \in 1..(Len(a) + Len(Dot)) : s[i] = IF i <= Len(a) THEN a[i] ELSE Dot[i - Len(a)]
    BY <2>1, ConcatProperties, Zenon
  <2> HIDE DEF s
  <2> QED  BY <2>1, <2>2 DEF Text
<1>2. (\A i \in 1..Len(a) : s[i] = a[i]) /\ s[Len(a) + 1] = Mark(".")
  BY <1>0, <1>1, DotIs
<1> HIDE DEF s
<1>3. /\ t \in Text /\ Len(t) = Len(s) + Len(b)
      /\ \A i \in 1..(Len(s) + Len(b)) : t[i] = IF i <= Len(s) THEN s[i] ELSE b[i - Len(s)]
  BY <1>1, ConcatProperties DEF Text
<1> HIDE DEF t
<1>4. \A i \in 1..(Len(a) + 1) : t[i] = s[i]
  BY <1>0, <1>1, <1>3
<1>5. \A i \in 1..Len(b) : t[Len(a) + 1 + i] = b[i]
  <2> SUFFICES ASSUME NEW i \in 1..Len(b)  PROVE t[Len(a) + 1 + i] = b[i]
    OBVIOUS
  <2> DEFINE j == Len(a) + 1 + i
  <2>1. j \in 1..(Len(s) + Len(b)) /\ ~(j <= Len(s)) /\ j - Len(s) = i
    BY <1>0, <1>1
  <2> HIDE DEF j
  <2>2. t[j] = b[i]
    BY <1>3, <2>1
  <2> QED  BY <2>2 DEF j
<1>6. \A i \in 1..Len(a) : t[i] = a[i]
  BY <1>0, <1>2, <1>4
<1>7. t[Len(a) + 1] = Mark(".")
  BY <1>0, <1>2, <1>4
<1>8. Len(t) = Len(a) + 1 + Len(b)
  BY <1>1, <1>3
<1> QED  BY <1>3, <1>5, <1>6, <1>7, <1>8 DEF s, t

LEMMA JoinedParts ==
  ASSUME NEW s, NEW a \in Text, NEW b \in Text, ~ HasMark(b, "."), s = a \o Dot \o b
  PROVE  /\ Marked(s, ".") = Marked(a, ".") \cup {Len(a) + 1}
         /\ SubSeq(s, Len(a) + 2, Len(s)) = b
         /\ \A i \in 1..(Len(a) + 1), j \in 0..Len(a) : SubSeq(s, i, j) = SubSeq(a, i, j)
<1> DEFINE m == Len(a)  n == Len(b)
<1>1. m \in Nat /\ n \in Nat /\ DOMAIN a = 1..m /\ DOMAIN b = 1..n
  BY TextIs
<1>2. /\ s \in Text /\ Len(s) = m + 1 + n
      /\ \A i \in 1..m : s[i] = a[i]
      /\ s[m + 1] = Mark(".")
      /\ \A i \in 1..n : s[m + 1 + i] = b[i]
  BY Joined
<1>3. DOMAIN s = 1..(m + 1 + n)
  BY <1>2, TextIs
<1>4. \A i \in 1..n : b[i].c # "."
  BY <1>1 DEF HasMark
<1> HIDE DEF m, n
<1>5. ASSUME NEW i \in 1..(m + 1 + n)
      PROVE  s[i].c = "." <=> (i \in 1..m /\ a[i].c = ".") \/ i = m + 1
  <2>1. CASE i \in 1..m
    <3>1. i # m + 1 /\ s[i] = a[i]
      BY <1>1, <1>2, <2>1
    <3> QED  BY <2>1, <3>1
  <2>2. CASE i = m + 1
    BY <1>2, <2>2 DEF Mark
  <2>3. CASE i > m + 1
    <3> DEFINE k == i - (m + 1)
    <3>1. k \in 1..n /\ m + 1 + k = i
      BY <1>1, <2>3
    <3> HIDE DEF k
    <3>2. s[i] = b[k]
      BY <1>2, <3>1
    <3> QED  BY <1>1, <1>4, <2>3, <3>1, <3>2
  <2>4. i \in 1..m \/ i = m + 1 \/ i > m + 1
    BY <1>1
  <2> QED  BY <2>1, <2>2, <2>3, <2>4
<1>6. Marked(s, ".") = Marked(a, ".") \cup {m + 1}
  <2>1. 1..m \subseteq 1..(m + 1 + n) /\ m + 1 \in 1..(m + 1 + n)
    BY <1>1
  <2> QED  BY <1>1, <1>3, <1>5, <2>1 DEF Marked
<1>7. SubSeq(s, m + 2, Len(s)) = b
  <2> DEFINE e == Len(s)
  <2>1. e = m + 1 + n
    BY <1>2
  <2> HIDE DEF e
  <2>2. m + 2 \in 1..(e + 1) /\ e \in 0..e
    BY <1>1, <2>1
  <2> DEFINE t == SubSeq(s, m + 2, e)
  <2>3. /\ t \in Text
        /\ m + 2 <= e + 1 => Len(t) = e - (m + 2) + 1
        /\ \A k \in 1..(e - (m + 2) + 1) : t[k] = s[m + 2 + k - 1]
    BY <1>2, <2>2, SubTextIs DEF e
  <2> HIDE DEF t
  <2>4. e - (m + 2) + 1 = n /\ m + 2 <= e + 1
    BY <1>1, <2>1
  <2>5. \A k \in 1..n : t[k] = b[k]
    <3> SUFFICES ASSUME NEW k \in 1..n  PROVE t[k] = b[k]
      OBVIOUS
    <3>1. m + 2 + k - 1 = m + 1 + k
      BY <1>1
    <3> QED  BY <1>2, <2>3, <2>4, <3>1
  <2>6. t = b
    BY <2>3, <2>4, <2>5, SameText DEF n
  <2> QED  BY <2>6 DEF e, t
<1>8. ASSUME NEW i \in 1..(m + 1), NEW j \in 0..m
      PROVE  SubSeq(s, i, j) = SubSeq(a, i, j)
  <2> DEFINE t == SubSeq(s, i, j)  u == SubSeq(a, i, j)
  <2>1. i \in 1..(Len(s) + 1) /\ j \in 0..Len(s) /\ i \in Int /\ j \in Int
    BY <1>1, <1>2
  <2>2. /\ t \in Text
        /\ i <= j + 1 => Len(t) = j - i + 1
        /\ j < i => Len(t) = 0
        /\ \A k \in 1..(j - i + 1) : t[k] = s[i + k - 1]
    BY <1>2, <2>1, SubTextIs
  <2>3. /\ u \in Text
        /\ i <= j + 1 => Len(u) = j - i + 1
        /\ j < i => Len(u) = 0
        /\ \A k \in 1..(j - i + 1) : u[k] = a[i + k - 1]
    BY SubTextIs DEF m
  <2> HIDE DEF t, u
  <2>4. Len(t) = Len(u)
    BY <2>1, <2>2, <2>3
  <2>5. ASSUME NEW k \in 1..Len(t)  PROVE t[k] = u[k]
    <3>1. k \in 1..(j - i + 1)
      BY <2>1, <2>2
    <3>2. i + k - 1 \in 1..m
      BY <1>1, <2>1, <3>1
    <3> QED  BY <1>2, <2>2, <2>3, <3>1, <3>2
  <2>6. t = u
    BY <2>2, <2>3, <2>4, <2>5, SameText
  <2> QED  BY <2>6 DEF t, u
<1> QED  BY <1>6, <1>7, <1>8 DEF m

LEMMA AddressParts ==
  ASSUME NEW x, \A i \in 1..4 : x[i] \in Text /\ ~ HasMark(x[i], ".")
  PROVE  /\ Address(x) \in Text
         /\ Cardinality(Marked(Address(x), ".")) = 3
         /\ \A i \in 1..4 : Split(Address(x), ".")[i] = x[i]
<1> DEFINE p == x[1]  q == x[2]  r == x[3]  w == x[4]
           t == p \o Dot \o q  u == t \o Dot \o r  s == u \o Dot \o w
           a == Len(p) + 1  b == Len(t) + 1  d == Len(u) + 1
<1>0. Address(x) = s
  BY DEF Address
<1>1. /\ p \in Text /\ q \in Text /\ r \in Text /\ w \in Text
      /\ ~ HasMark(p, ".") /\ ~ HasMark(q, ".") /\ ~ HasMark(r, ".") /\ ~ HasMark(w, ".")
  OBVIOUS
<1>2. Marked(p, ".") = {}
  BY <1>1 DEF Marked, HasMark
<1>3. SubSeq(p, 1, Len(p)) = p
  BY <1>1, SubSeqFull DEF Text
<1> HIDE DEF p, q, r, w
<1>4. /\ t \in Text /\ Len(t) = Len(p) + 1 + Len(q)
      /\ Marked(t, ".") = Marked(p, ".") \cup {a}
      /\ SubSeq(t, Len(p) + 2, Len(t)) = q
      /\ \A i \in 1..(Len(p) + 1), j \in 0..Len(p) : SubSeq(t, i, j) = SubSeq(p, i, j)
  <2>1. t \in Text /\ Len(t) = Len(p) + 1 + Len(q)
    BY <1>1, Joined
  <2>2. t = p \o Dot \o q
    OBVIOUS
  <2> HIDE DEF t
  <2>3. p \in Text /\ q \in Text /\ ~ HasMark(q, ".")
    BY <1>1
  <2>4. Marked(t, ".") = Marked(p, ".") \cup {Len(p) + 1}
    BY <2>2, <2>3, JoinedParts
  <2>5. SubSeq(t, Len(p) + 2, Len(t)) = q
    BY <2>2, <2>3, JoinedParts
  <2>6. \A i \in 1..(Len(p) + 1), j \in 0..Len(p) : SubSeq(t, i, j) = SubSeq(p, i, j)
    BY <2>2, <2>3, JoinedParts
  <2> QED  BY <2>1, <2>4, <2>5, <2>6
<1> HIDE DEF t
<1>5. /\ u \in Text /\ Len(u) = Len(t) + 1 + Len(r)
      /\ Marked(u, ".") = Marked(t, ".") \cup {b}
      /\ SubSeq(u, Len(t) + 2, Len(u)) = r
      /\ \A i \in 1..(Len(t) + 1), j \in 0..Len(t) : SubSeq(u, i, j) = SubSeq(t, i, j)
  <2>1. u \in Text /\ Len(u) = Len(t) + 1 + Len(r)
    BY <1>1, <1>4, Joined
  <2>2. u = t \o Dot \o r
    OBVIOUS
  <2> HIDE DEF u
  <2>3. t \in Text /\ r \in Text /\ ~ HasMark(r, ".")
    BY <1>1, <1>4
  <2>4. Marked(u, ".") = Marked(t, ".") \cup {Len(t) + 1}
    BY <2>2, <2>3, JoinedParts
  <2>5. SubSeq(u, Len(t) + 2, Len(u)) = r
    BY <2>2, <2>3, JoinedParts
  <2>6. \A i \in 1..(Len(t) + 1), j \in 0..Len(t) : SubSeq(u, i, j) = SubSeq(t, i, j)
    BY <2>2, <2>3, JoinedParts
  <2> QED  BY <2>1, <2>4, <2>5, <2>6
<1> HIDE DEF u
<1>6. /\ s \in Text /\ Len(s) = Len(u) + 1 + Len(w)
      /\ Marked(s, ".") = Marked(u, ".") \cup {d}
      /\ SubSeq(s, Len(u) + 2, Len(s)) = w
      /\ \A i \in 1..(Len(u) + 1), j \in 0..Len(u) : SubSeq(s, i, j) = SubSeq(u, i, j)
  <2>1. s \in Text /\ Len(s) = Len(u) + 1 + Len(w)
    BY <1>1, <1>5, Joined
  <2>2. s = u \o Dot \o w
    OBVIOUS
  <2> HIDE DEF s
  <2>3. u \in Text /\ w \in Text /\ ~ HasMark(w, ".")
    BY <1>1, <1>5
  <2>4. Marked(s, ".") = Marked(u, ".") \cup {Len(u) + 1}
    BY <2>2, <2>3, JoinedParts
  <2>5. SubSeq(s, Len(u) + 2, Len(s)) = w
    BY <2>2, <2>3, JoinedParts
  <2>6. \A i \in 1..(Len(u) + 1), j \in 0..Len(u) : SubSeq(s, i, j) = SubSeq(u, i, j)
    BY <2>2, <2>3, JoinedParts
  <2> QED  BY <2>1, <2>4, <2>5, <2>6
<1> HIDE DEF s
<1>7. /\ Len(p) \in Nat /\ Len(q) \in Nat /\ Len(r) \in Nat /\ Len(w) \in Nat
      /\ Len(t) \in Nat /\ Len(u) \in Nat /\ Len(s) \in Nat
  BY <1>1, <1>4, <1>5, <1>6, TextIs
<1>8. /\ a \in 1..Len(s) /\ b \in 1..Len(s) /\ d \in 1..Len(s) /\ a < b /\ b < d
      /\ a \in Int /\ b \in Int /\ d \in Int
      /\ a - 1 = Len(p) /\ a + 1 = Len(p) + 2 /\ b - 1 = Len(t) /\ b + 1 = Len(t) + 2
      /\ d - 1 = Len(u) /\ d + 1 = Len(u) + 2
  BY <1>4, <1>5, <1>6, <1>7
<1> HIDE DEF a, b, d
<1>9. Marked(s, ".") = {a, b, d}
  BY <1>2, <1>4, <1>5, <1>6
<1>10. Dotted(s, a, b, d)
  BY <1>8, <1>9 DEF Dotted
<1>11. Cardinality(Marked(s, ".")) = 3
  BY <1>8, <1>10, DottedCounts
<1>12. /\ Split(s, ".")[1] = SubSeq(s, 1, a - 1)
       /\ Split(s, ".")[2] = SubSeq(s, a + 1, b - 1)
       /\ Split(s, ".")[3] = SubSeq(s, b + 1, d - 1)
       /\ Split(s, ".")[4] = SubSeq(s, d + 1, Len(s))
  <2>1. s \in Text /\ a \in Int /\ b \in Int /\ d \in Int
    BY <1>6, <1>8
  <2> QED  BY <1>10, <2>1, FourPieces
<1>13. SubSeq(s, 1, a - 1) = p
  <2>1. /\ 1 \in 1..(Len(p) + 1) /\ 1 \in 1..(Len(t) + 1) /\ 1 \in 1..(Len(u) + 1)
        /\ Len(p) \in 0..Len(p) /\ Len(p) \in 0..Len(t) /\ Len(p) \in 0..Len(u)
    BY <1>4, <1>5, <1>7
  <2> QED  BY <1>3, <1>4, <1>5, <1>6, <1>8, <2>1
<1>14. SubSeq(s, a + 1, b - 1) = q
  <2>1. /\ Len(p) + 2 \in 1..(Len(t) + 1) /\ Len(p) + 2 \in 1..(Len(u) + 1)
        /\ Len(t) \in 0..Len(t) /\ Len(t) \in 0..Len(u)
    BY <1>4, <1>5, <1>7
  <2> QED  BY <1>4, <1>5, <1>6, <1>8, <2>1
<1>15. SubSeq(s, b + 1, d - 1) = r
  <2>1. Len(t) + 2 \in 1..(Len(u) + 1) /\ Len(u) \in 0..Len(u)
    BY <1>5, <1>7
  <2> QED  BY <1>5, <1>6, <1>8, <2>1
<1>16. SubSeq(s, d + 1, Len(s)) = w
  BY <1>6, <1>8
<1>17. ASSUME NEW i \in 1..4  PROVE Split(s, ".")[i] = x[i]
  <2>1. i = 1 \/ i = 2 \/ i = 3 \/ i = 4
    OBVIOUS
  <2> QED  BY <1>12, <1>13, <1>14, <1>15, <1>16, <2>1 DEF p, q, r, w
<1> QED  BY <1>0, <1>6, <1>11, <1>17

\* A text is what is before a dot, the dot, and what is after it.
LEMMA CutAtDot ==
  ASSUME NEW s \in Text, NEW d \in 1..Len(s), s[d].c = "."
  PROVE  /\ SubSeq(s, 1, d - 1) \in Text /\ Len(SubSeq(s, 1, d - 1)) = d - 1
         /\ s = SubSeq(s, 1, d - 1) \o Dot \o SubSeq(s, d + 1, Len(s))
         /\ \A i \in 1..(d - 1) : SubSeq(s, 1, d - 1)[i] = s[i]
         /\ \A i \in 1..d : SubSeq(SubSeq(s, 1, d - 1), i, d - 1) = SubSeq(s, i, d - 1)
<1> DEFINE n == Len(s)  t == SubSeq(s, 1, d - 1)  w == SubSeq(s, d + 1, n)
<1>1. n \in Nat /\ d \in 1..n /\ d \in Int
  BY TextIs
<1>2. s[d] = Mark(".")
  <2>1. s[d] \in Glyph
    BY TextIs
  <2> QED  BY <2>1, TokenIs
<1>a. 1 \in 1..(n + 1) /\ d - 1 \in 0..n /\ d + 1 \in 1..(n + 1) /\ n \in 0..n
  <2> HIDE DEF n
  <2> QED  BY <1>1
<1>3. /\ t \in Text
      /\ 1 <= d - 1 + 1 => Len(t) = d - 1 - 1 + 1
      /\ \A i \in 1..(d - 1 - 1 + 1) : t[i] = s[1 + i - 1]
  BY <1>a, SubTextIs
<1>4. /\ w \in Text
      /\ d + 1 <= n + 1 => Len(w) = n - (d + 1) + 1
      /\ \A i \in 1..(n - (d + 1) + 1) : w[i] = s[d + 1 + i - 1]
  BY <1>a, SubTextIs
<1> HIDE DEF n, t, w
<1>5. /\ Len(t) = d - 1 /\ Len(w) = n - d
      /\ \A i \in 1..(d - 1) : t[i] = s[i]
  BY <1>1, <1>3, <1>4
<1>6. \A i \in 1..(n - d) : w[i] = s[d + i]
  <2> SUFFICES ASSUME NEW i \in 1..(n - d)  PROVE w[i] = s[d + i]
    OBVIOUS
  <2>1. i \in 1..(n - (d + 1) + 1) /\ d + 1 + i - 1 = d + i
    BY <1>1
  <2> QED  BY <1>4, <2>1
<1> DEFINE r == t \o Dot \o w
<1>7. /\ r \in Text /\ Len(r) = Len(t) + 1 + Len(w)
      /\ \A i \in 1..Len(t) : r[i] = t[i]
      /\ r[Len(t) + 1] = Mark(".")
      /\ \A i \in 1..Len(w) : r[Len(t) + 1 + i] = w[i]
  BY <1>3, <1>4, Joined
<1> HIDE DEF r
<1>8. ASSUME NEW i \in 1..n  PROVE s[i] = r[i]
  <2>1. CASE i <= d - 1
    BY <1>1, <1>5, <1>7, <2>1
  <2>2. CASE i = d
    BY <1>1, <1>2, <1>5, <1>7, <2>2
  <2>3. CASE i > d
    <3> DEFINE k == i - d
    <3>1. k \in 1..(n - d) /\ d + k = i /\ d - 1 + 1 + k = i
      BY <1>1, <2>3
    <3> HIDE DEF k
    <3>2. r[Len(t) + 1 + k] = w[k] /\ w[k] = s[d + k]
      BY <1>5, <1>6, <1>7, <3>1
    <3> QED  BY <1>5, <3>1, <3>2
  <2>4. i <= d - 1 \/ i = d \/ i > d
    BY <1>1
  <2> QED  BY <2>1, <2>2, <2>3, <2>4
<1>9. Len(r) = n
  BY <1>1, <1>5, <1>7
<1>10. s = r
  BY <1>7, <1>8, <1>9, SameText DEF n
<1>11. ASSUME NEW i \in 1..d  PROVE SubSeq(t, i, d - 1) = SubSeq(s, i, d - 1)
  <2>1. i \in 1..(n + 1) /\ i \in 1..(Len(t) + 1) /\ d - 1 \in 0..Len(t) /\ i \in Int
    BY <1>1, <1>5
  <2> DEFINE y == SubSeq(t, i, d - 1)  z == SubSeq(s, i, d - 1)
  <2>2. /\ y \in Text
        /\ i <= d - 1 + 1 => Len(y) = d - 1 - i + 1
        /\ \A k \in 1..(d - 1 - i + 1) : y[k] = t[i + k - 1]
    BY <1>3, <2>1, SubTextIs
  <2>3. /\ z \in Text
        /\ i <= d - 1 + 1 => Len(z) = d - 1 - i + 1
        /\ \A k \in 1..(d - 1 - i + 1) : z[k] = s[i + k - 1]
    BY <1>a, <2>1, SubTextIs DEF n
  <2> HIDE DEF y, z
  <2>4. Len(y) = d - 1 - i + 1 /\ Len(z) = Len(y)
    BY <1>1, <2>2, <2>3
  <2>5. ASSUME NEW k \in 1..Len(y)  PROVE y[k] = z[k]
    <3>1. k \in 1..(d - 1 - i + 1) /\ i + k - 1 \in 1..(d - 1)
      BY <1>1, <2>1, <2>4
    <3> QED  BY <1>5, <2>2, <2>3, <3>1
  <2>6. y = z
    BY <2>2, <2>3, <2>4, <2>5, SameText
  <2> QED  BY <2>6 DEF y, z
<1> QED  BY <1>3, <1>5, <1>10, <1>11 DEF n, t, w, r

LEMMA AddressOfPieces ==
  ASSUME NEW s \in Text, Cardinality(Marked(s, ".")) = 3
  PROVE  s = Address(Split(s, "."))
<1>1. PICK a, b, d \in Int : Dotted(s, a, b, d)
  BY ThreeDots
<1> DEFINE n == Len(s)  t == SubSeq(s, 1, d - 1)  u == SubSeq(t, 1, b - 1)
<1>2. n \in Nat /\ a \in 1..n /\ b \in 1..n /\ d \in 1..n /\ a < b /\ b < d
  BY <1>1, TextIs DEF Dotted
<1>3. s[a].c = "." /\ s[b].c = "." /\ s[d].c = "."
  BY <1>1 DEF Dotted, Marked
<1>4. /\ t \in Text /\ Len(t) = d - 1
      /\ s = t \o Dot \o SubSeq(s, d + 1, n)
      /\ \A i \in 1..(d - 1) : t[i] = s[i]
      /\ \A i \in 1..d : SubSeq(t, i, d - 1) = SubSeq(s, i, d - 1)
  BY <1>2, <1>3, CutAtDot
<1> HIDE DEF n, t
<1>5. b \in 1..Len(t) /\ t[b].c = "." /\ b \in 1..(d - 1) /\ a \in 1..(d - 1)
  BY <1>2, <1>3, <1>4
<1>6. /\ u \in Text /\ Len(u) = b - 1
      /\ t = u \o Dot \o SubSeq(t, b + 1, d - 1)
      /\ \A i \in 1..(b - 1) : u[i] = t[i]
      /\ \A i \in 1..b : SubSeq(u, i, b - 1) = SubSeq(t, i, b - 1)
  BY <1>4, <1>5, CutAtDot
<1> HIDE DEF u
<1>7. a \in 1..Len(u) /\ u[a].c = "." /\ a \in 1..(b - 1)
  BY <1>2, <1>3, <1>4, <1>5, <1>6
<1>8. u = SubSeq(u, 1, a - 1) \o Dot \o SubSeq(u, a + 1, b - 1)
  BY <1>6, <1>7, CutAtDot
<1>9. SubSeq(u, 1, a - 1) = SubSeq(s, 1, a - 1)
  <2>0. a - 1 \in Int
    BY <1>2
  <2>1. u[a].c = "." /\ s[a].c = "."
    BY <1>3, <1>7
  <2> DEFINE y == SubSeq(u, 1, a - 1)  z == SubSeq(s, 1, a - 1)
  <2>2. y \in Text /\ Len(y) = a - 1 /\ \A i \in 1..(a - 1) : y[i] = u[i]
    BY <1>6, <1>7, CutAtDot
  <2>3. z \in Text /\ Len(z) = a - 1 /\ \A i \in 1..(a - 1) : z[i] = s[i]
    BY <1>2, <1>3, CutAtDot DEF n
  <2> HIDE DEF y, z
  <2>4. ASSUME NEW i \in 1..Len(y)  PROVE y[i] = z[i]
    <3>1. i \in 1..(a - 1) /\ i \in 1..(b - 1) /\ i \in 1..(d - 1)
      BY <1>2, <2>2
    <3> QED  BY <1>4, <1>6, <2>2, <2>3, <3>1
  <2>5. y = z
    BY <2>2, <2>3, <2>4, SameText
  <2> QED  BY <2>5 DEF y, z
<1>10. SubSeq(u, a + 1, b - 1) = SubSeq(s, a + 1, b - 1)
  <2>1. a + 1 \in 1..b /\ b \in 1..(d - 1)
    BY <1>2
  <2>2. SubSeq(u, a + 1, b - 1) = SubSeq(t, a + 1, b - 1)
    BY <1>6, <2>1
  <2> DEFINE y == SubSeq(t, a + 1, b - 1)  z == SubSeq(s, a + 1, b - 1)
  <2>3. /\ a + 1 \in 1..(Len(t) + 1) /\ b - 1 \in 0..Len(t) /\ a + 1 <= b - 1 + 1
        /\ a + 1 \in 1..(n + 1) /\ b - 1 \in 0..n
    BY <1>2, <1>4
  <2>4. /\ y \in Text /\ Len(y) = b - 1 - (a + 1) + 1
        /\ \A k \in 1..(b - 1 - (a + 1) + 1) : y[k] = t[a + 1 + k - 1]
    BY <1>4, <2>3, SubTextIs
  <2>5. /\ z \in Text /\ Len(z) = b - 1 - (a + 1) + 1
        /\ \A k \in 1..(b - 1 - (a + 1) + 1) : z[k] = s[a + 1 + k - 1]
    BY <2>3, SubTextIs DEF n
  <2> HIDE DEF y, z
  <2>6. ASSUME NEW k \in 1..Len(y)  PROVE y[k] = z[k]
    <3>1. k \in 1..(b - 1 - (a + 1) + 1) /\ a + 1 + k - 1 \in 1..(d - 1)
      BY <1>2, <2>4
    <3> QED  BY <1>4, <2>4, <2>5, <3>1
  <2>7. y = z
    BY <2>4, <2>5, <2>6, SameText
  <2> QED  BY <2>2, <2>7 DEF y, z
<1>11. SubSeq(t, b + 1, d - 1) = SubSeq(s, b + 1, d - 1)
  <2>1. b + 1 \in 1..d
    BY <1>2
  <2> QED  BY <1>4, <2>1
<1>12. /\ Split(s, ".")[1] = SubSeq(s, 1, a - 1)
       /\ Split(s, ".")[2] = SubSeq(s, a + 1, b - 1)
       /\ Split(s, ".")[3] = SubSeq(s, b + 1, d - 1)
       /\ Split(s, ".")[4] = SubSeq(s, d + 1, n)
  BY <1>1, FourPieces DEF n
<1> QED  BY <1>4, <1>6, <1>8, <1>9, <1>10, <1>11, <1>12 DEF Address

\* IPWildcardMatcher.Match (ip.go), for a pattern that is one.
LEMMA WildcardAccepts ==
  ASSUME NEW p \in Text, NEW v \in Text, Cardinality(Marked(p, ".")) = 3
  PROVE  IPMatch(p, v) <=>
           \E x \in [1..4 -> Pieces(v, ".")], S \in SUBSET (1..4) :
             v = Address(x) /\ p = Address([i \in 1..4 |-> IF i \in S THEN <<Mark("*")>> ELSE x[i]])
<1> DEFINE star == <<Mark("*")>>  pp == Split(p, ".")  vp == Split(v, ".")
           named(x, S) == [i \in 1..4 |-> IF i \in S THEN star ELSE x[i]]
<1>1. IPMatch(p, v) <=> Len(vp) = 4 /\ \A i \in 1..4 : pp[i] = star \/ pp[i] = vp[i]
  <2>1. Len(pp) = 3 + 1
    BY SplitCounts, Zenon
  <2>2. Len(pp) = 4
    <3> DEFINE l == Len(pp)
    <3>1. l = 3 + 1
      BY <2>1
    <3> HIDE DEF l
    <3>2. l = 4
      BY <3>1
    <3> QED  BY <3>2 DEF l
  <2> QED  BY <2>2 DEF IPMatch
<1>2. ASSUME Len(vp) = 4, \A i \in 1..4 : pp[i] = star \/ pp[i] = vp[i]
      PROVE  \E x \in [1..4 -> Pieces(v, ".")], S \in SUBSET (1..4) :
               v = Address(x) /\ p = Address(named(x, S))
  <2>1. Cardinality(Marked(v, ".")) = 3 /\ DOMAIN vp = 1..4
    <3> DEFINE m == Cardinality(Marked(v, "."))
    <3>1. m \in Nat /\ m + 1 = 4 /\ DOMAIN vp = 1..(m + 1)
      BY <1>2, SplitCounts
    <3> HIDE DEF m
    <3>2. m = 3
      BY <3>1
    <3> QED  BY <3>1, <3>2 DEF m
  <2>2. ASSUME NEW k \in 1..4  PROVE vp[k] \in Pieces(v, ".")
    <3>1. PICK i, j \in Int : Stretch(v, ".", i, j) /\ vp[k] = SubSeq(v, i, j)
      <4>1. k \in DOMAIN vp
        BY <2>1
      <4> QED  BY <4>1, PieceIsStretch
    <3>2. i \in 1..(Len(v) + 1) /\ j \in 0..Len(v) /\ i <= j + 1 /\ \A e \in i..j : v[e].c # "."
      BY <3>1 DEF Stretch
    <3> DEFINE y == SubSeq(v, i, j)
    <3>3. /\ y \in Text /\ Len(y) = j - i + 1
          /\ \A e \in 1..(j - i + 1) : y[e] = v[i + e - 1]
      BY <3>2, SubTextIs
    <3> HIDE DEF y
    <3>4. \A e \in DOMAIN y : y[e].c # "."
      <4> SUFFICES ASSUME NEW e \in DOMAIN y  PROVE y[e].c # "."
        OBVIOUS
      <4>1. e \in 1..(j - i + 1)
        BY <3>3, TextIs
      <4>2. i + e - 1 \in i..j
        BY <4>1
      <4> QED  BY <3>2, <3>3, <4>1, <4>2
    <3>5. ~ HasMark(y, ".")
      BY <3>4 DEF HasMark
    <3>6. vp[k] = y /\ y \in {SubSeq(v, e, f) : e \in 1..(Len(v) + 1), f \in 0..Len(v)}
      BY <3>1, <3>2 DEF y
    <3> QED  BY <3>5, <3>6 DEF Pieces
  <2>3. vp \in [1..4 -> Pieces(v, ".")]
    <3>1. vp = [k \in DOMAIN vp |-> vp[k]]
      BY DEF Split
    <3> HIDE DEF vp
    <3> QED  BY <2>1, <2>2, <3>1
  <2> DEFINE S == {i \in 1..4 : pp[i] = star}
  <2>4. \A i \in 1..4 : named(vp, S)[i] = pp[i]
    BY <1>2
  <2>5. v = Address(vp) /\ p = Address(pp)
    BY <2>1, AddressOfPieces
  <2>6. Address(pp) = Address(named(vp, S))
    <3> HIDE DEF S, named, pp, vp
    <3>1. /\ named(vp, S)[1] = pp[1] /\ named(vp, S)[2] = pp[2]
          /\ named(vp, S)[3] = pp[3] /\ named(vp, S)[4] = pp[4]
      BY <2>4
    <3> QED  BY <3>1, Zenon DEF Address
  <2>7. S \in SUBSET (1..4)
    OBVIOUS
  <2> QED  BY <2>3, <2>5, <2>6, <2>7
<1>3. ASSUME NEW x \in [1..4 -> Pieces(v, ".")], NEW S \in SUBSET (1..4),
             v = Address(x), p = Address(named(x, S))
      PROVE  Len(vp) = 4 /\ \A i \in 1..4 : pp[i] = star \/ pp[i] = vp[i]
  <2>1. \A i \in 1..4 : x[i] \in Text /\ ~ HasMark(x[i], ".")
    <3> SUFFICES ASSUME NEW k \in 1..4  PROVE x[k] \in Text /\ ~ HasMark(x[k], ".")
      OBVIOUS
    <3>1. x[k] \in Pieces(v, ".")
      OBVIOUS
    <3>2. ~ HasMark(x[k], ".")
          /\ \E i \in 1..(Len(v) + 1), j \in 0..Len(v) : x[k] = SubSeq(v, i, j)
      BY <3>1 DEF Pieces
    <3> QED  BY <3>2, SubTextIs
  <2>2. star \in Text /\ ~ HasMark(star, ".")
    <3>1. Mark("*") \in Glyph
      BY DEF Glyph
    <3>2. star \in Text
      BY <3>1 DEF Text
    <3>3. ~ HasMark(star, ".")
      BY DEF HasMark, Mark
    <3> QED  BY <3>2, <3>3
  <2> HIDE DEF star
  <2>3. \A i \in 1..4 : named(x, S)[i] \in Text /\ ~ HasMark(named(x, S)[i], ".")
    BY <2>1, <2>2
  <2>4. \A i \in 1..4 : vp[i] = x[i]
    BY <1>3, <2>1, AddressParts
  <2>5. \A i \in 1..4 : pp[i] = named(x, S)[i]
    <3> HIDE DEF named
    <3> QED  BY <1>3, <2>3, AddressParts
  <2>6. Len(vp) = 4
    <3>1. Cardinality(Marked(v, ".")) = 3
      BY <1>3, <2>1, AddressParts
    <3> DEFINE m == Cardinality(Marked(v, "."))  l == Len(vp)
    <3>2. m = 3 /\ l = m + 1
      BY <3>1, SplitCounts
    <3> HIDE DEF m, l
    <3>3. l = 4
      BY <3>2
    <3> QED  BY <3>3 DEF l
  <2> QED  BY <2>4, <2>5, <2>6
<1> QED  BY <1>1, <1>2, <1>3

LEMMA WildcardsFound ==
  ASSUME NEW p \in Text
  PROVE  /\ IsIPWildcardPattern(p) <=> HasMark(p, "*") /\ Cardinality({i \in DOMAIN p : p[i].c = "."}) = 3
         /\ Cardinality({i \in DOMAIN p : p[i].c = "."}) = Cardinality(Marked(p, "."))
<1> DEFINE m == Cardinality(Marked(p, "."))
<1>1. m \in Nat /\ Len(Split(p, ".")) = m + 1
  BY SplitCounts
<1>2. Cardinality({i \in DOMAIN p : p[i].c = "."}) = m
  BY DEF Marked
<1> HIDE DEF m
<1>3. Len(Split(p, ".")) = 4 <=> m = 3
  <2> DEFINE l == Len(Split(p, "."))
  <2>1. m \in Nat /\ l = m + 1
    BY <1>1
  <2> HIDE DEF l
  <2>2. l = 4 <=> m = 3
    BY <2>1
  <2> QED  BY <2>2 DEF l
<1> QED  BY <1>2, <1>3 DEF IsIPWildcardPattern, m

LEMMA RangeAccepts ==
  ASSUME NEW p \in Text, NEW v \in Text
  PROVE  RangeMatch(p, v) <=>
           \E i \in RangeDashes(p), k \in Denoted(v) :
             \E low \in Denoted(Before(p, i)), high \in Denoted(After(p, i)) : k \in low..high
<1>1. \A k \in Denoted(v) : k \in Int
  BY MatcherAssumption DEF Denoted, Int64
<1>2. ParseInt(v) = Denoted(v)
  BY ParsedIsDenoted
<1>3. ASSUME NEW i \in FindRangeDash(p)
      PROVE  ParseInt(Before(p, i)) = Denoted(Before(p, i)) /\ ParseInt(After(p, i)) = Denoted(After(p, i))
  <2> DEFINE n == Len(p)
  <2>1. n \in Nat /\ i \in 1..n
    BY TextIs DEF FindRangeDash
  <2>2. 1 \in 1..(n + 1) /\ i - 1 \in 0..n /\ i + 1 \in 1..(n + 1) /\ n \in 0..n
    <3> HIDE DEF n
    <3> QED  BY <2>1
  <2>3. Before(p, i) \in Text /\ After(p, i) \in Text
    BY <2>2, SubTextIs DEF Before, After
  <2> QED  BY <2>3, ParsedIsDenoted
<1>4. \A i \in FindRangeDash(p) :
        ParseInt(Before(p, i)) # {} /\ ParseInt(After(p, i)) # {} => i \in RangeDashes(p)
  BY RangeDashesFound DEF ParseInt
<1>5. \A i \in RangeDashes(p) : i \in FindRangeDash(p)
  BY RangeDashesFound
<1>6. \A s : \A k \in Denoted(s) : k \in Int
  BY MatcherAssumption DEF Denoted, Int64
<1>7. ASSUME RangeMatch(p, v)
      PROVE  \E i \in RangeDashes(p), k \in Denoted(v) :
               \E low \in Denoted(Before(p, i)), high \in Denoted(After(p, i)) : k \in low..high
  <2>1. PICK k \in ParseInt(v), i \in FindRangeDash(p) :
          \E low \in ParseInt(Before(p, i)), high \in ParseInt(After(p, i)) : low <= k /\ k <= high
    BY <1>7 DEF RangeMatch
  <2>2. PICK low \in ParseInt(Before(p, i)), high \in ParseInt(After(p, i)) : low <= k /\ k <= high
    BY <2>1
  <2>3. i \in RangeDashes(p)
    BY <1>4
  <2>4. low \in Denoted(Before(p, i)) /\ high \in Denoted(After(p, i)) /\ k \in Denoted(v)
    BY <1>2, <1>3
  <2>5. k \in low..high
    BY <1>6, <2>2, <2>4
  <2> QED  BY <2>3, <2>4, <2>5
<1>8. ASSUME NEW i \in RangeDashes(p), NEW k \in Denoted(v),
             NEW low \in Denoted(Before(p, i)), NEW high \in Denoted(After(p, i)), k \in low..high
      PROVE  RangeMatch(p, v)
  <2>1. i \in FindRangeDash(p)
    BY <1>5
  <2>2. low \in ParseInt(Before(p, i)) /\ high \in ParseInt(After(p, i)) /\ k \in ParseInt(v)
    BY <1>2, <1>3, <2>1
  <2>3. low <= k /\ k <= high
    BY <1>6, <1>8
  <2> QED  BY <2>1, <2>2, <2>3 DEF RangeMatch
<1> QED  BY <1>7, <1>8

\* What Match says of a value is what the documents say of it.
LEMMA AcceptsAsDocumented ==
  ASSUME NEW p \in Text, NEW v \in Text
  PROVE  Accepts(p, v) <=> Means(p, v)
<1>1. CASE p # <<>> /\ p[1].c \in PrefixMarks
  <2>0. ~ Plain(p) /\ ~ IsList(p) /\ ~ IsRange(p) /\ ~ IsWildcard(p)
    BY <1>1 DEF Plain, IsList, IsRange, IsWildcard, StartsWith
  <2>1. Parse(p) = p[1].c
    BY <1>1 DEF Parse
  <2>2. \A c : StartsWith(p, c) <=> p[1].c = c
    BY <1>1 DEF StartsWith
  <2>3. After(p, 1) = Tail(p) /\ After(p, 1) \in Text
    BY <2>2, OperandIsTail
  <2>4. ParseInt(After(p, 1)) = Denoted(Tail(p)) /\ ParseInt(v) = Denoted(v)
    BY <2>3, ParsedIsDenoted
  <2>5. CASE p[1].c = "+"
    BY <2>0, <2>1, <2>2, <2>5 DEF Accepts, Means, Operand
  <2>6. CASE p[1].c = "!"
    BY <2>0, <2>1, <2>2, <2>3, <2>6 DEF Accepts, Means, Operand
  <2>7. CASE p[1].c = "@"
    BY <2>0, <2>1, <2>2, <2>3, <2>7 DEF Accepts, Means, Operand, DictMatch
  <2>8. CASE p[1].c = ">"
    BY <2>0, <2>1, <2>2, <2>3, <2>4, <2>8 DEF Accepts, Means, Operand, GreaterMatch
  <2>9. CASE p[1].c = "<"
    BY <2>0, <2>1, <2>2, <2>3, <2>4, <2>9 DEF Accepts, Means, Operand, LessMatch
  <2> QED  BY <1>1, <2>5, <2>6, <2>7, <2>8, <2>9 DEF PrefixMarks
<1>2. CASE ~ (p # <<>> /\ p[1].c \in PrefixMarks)
  <2>0. Plain(p)
    BY <1>2 DEF Plain, StartsWith
  <2>1. /\ ~ StartsWith(p, "+") /\ Operand(p, "!") = {} /\ Operand(p, "@") = {}
        /\ Operand(p, ">") = {} /\ Operand(p, "<") = {}
    BY <2>0 DEF Plain, PrefixMarks, Operand
  <2>2. IsRangePattern(p) <=> RangeDashes(p) # {}
    BY RangeDashesFound DEF IsRangePattern
  <2>3. CASE HasMark(p, ",")
    <3>1. Parse(p) = "multi"
      BY <1>2, <2>3 DEF Parse
    <3>2. IsList(p) /\ ~ IsRange(p) /\ ~ IsWildcard(p)
      BY <2>0, <2>3 DEF IsList, IsRange, IsWildcard
    <3>3. Accepts(p, v) <=> MultiMatch(p, v)
      BY <3>1 DEF Accepts
    <3> QED  BY <2>1, <3>2, <3>3, ListAccepts DEF Means
  <2>4. CASE ~ HasMark(p, ",") /\ IsRangePattern(p)
    <3>1. Parse(p) = "range"
      BY <1>2, <2>4 DEF Parse
    <3>2. ~ IsList(p) /\ IsRange(p) /\ ~ IsWildcard(p)
      BY <2>0, <2>2, <2>4 DEF IsList, IsRange, IsWildcard
    <3>3. Accepts(p, v) <=> RangeMatch(p, v)
      BY <3>1 DEF Accepts
    <3> QED  BY <2>1, <3>2, <3>3, RangeAccepts DEF Means
  <2>5. CASE ~ HasMark(p, ",") /\ ~ IsRangePattern(p) /\ IsIPWildcardPattern(p)
    <3>1. Parse(p) = "ip"
      BY <1>2, <2>5 DEF Parse
    <3>2. ~ IsList(p) /\ ~ IsRange(p) /\ IsWildcard(p) /\ Cardinality(Marked(p, ".")) = 3
      BY <2>0, <2>2, <2>5, WildcardsFound DEF IsList, IsRange, IsWildcard
    <3>3. Accepts(p, v) <=> IPMatch(p, v)
      BY <3>1 DEF Accepts
    <3> QED  BY <2>1, <3>2, <3>3, WildcardAccepts DEF Means
  <2>6. CASE ~ HasMark(p, ",") /\ ~ IsRangePattern(p) /\ ~ IsIPWildcardPattern(p)
    <3>1. Parse(p) = "exact"
      BY <1>2, <2>6 DEF Parse
    <3>2. ~ IsList(p) /\ ~ IsRange(p) /\ ~ IsWildcard(p)
      BY <2>2, <2>6, WildcardsFound DEF IsList, IsRange, IsWildcard
    <3>3. Accepts(p, v) <=> v = p
      BY <3>1 DEF Accepts
    <3> QED  BY <2>0, <2>1, <3>2, <3>3 DEF Means
  <2> QED  BY <2>3, <2>4, <2>5, <2>6
<1> QED  BY <1>1, <1>2

VerdictInv ==
  /\ pattern \in Text /\ value \in Text
  /\ verdict # "none" => (verdict = "yes" <=> Accepts(pattern, value))

\* Of every pattern and every value, whatever their lengths, the matcher Parse
\* chooses (matcher.go:42-78) says what the documented syntax says.
THEOREM VerdictsAreAsDocumented == MatchSpec => []VerdictAsDocumented
<1>1. MatchInit => VerdictInv
  BY MatcherAssumption, TokensAreText DEF MatchInit, VerdictInv
<1>2. VerdictInv /\ [Match]_matchVars => VerdictInv'
  <2>1. CASE Match
    BY <2>1 DEF Match, VerdictInv
  <2>2. CASE UNCHANGED matchVars
    BY <2>2 DEF matchVars, VerdictInv
  <2> QED  BY <2>1, <2>2
<1>3. VerdictInv => VerdictAsDocumented
  BY AcceptsAsDocumented DEF VerdictInv, VerdictAsDocumented
<1> QED  BY <1>1, <1>2, <1>3, PTL DEF MatchSpec
===============================================================================
