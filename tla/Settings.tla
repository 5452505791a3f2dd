------------------------------- MODULE Settings -------------------------------
(***************************************************************************)
(* From koala.toml to a started process: LoadConfig of                     *)
(* internal/config/config.go, and what main and initStorage                *)
(* (cmd/koala/main.go) make of the settings; beside it the thorough        *)
(* ValidateConfig of internal/config/validate.go, which start-up does not  *)
(* call.                                                                   *)
(*                                                                         *)
(* A decoded file is a record with the settings the code tests.  Durations *)
(* are in milliseconds and 0, "" or NoText when the file does not set      *)
(* them.  Of a text the code parses only what the parser finds is kept: of *)
(* an address its form, host and the number its port begins with (-1:      *)
(* none), of a size the digits and the unit, of the path of the rules file *)
(* what is there.                                                          *)
(***************************************************************************)
EXTENDS Integers

CONSTANTS Settings,        \* what koala.toml may hold
          Multiplier,      \* of each unit of a size: 1024, 1024 * 1024, ...
          MaxInt64,
          DefaultMaxSize   \* 512 MB

SettingsFile ==
  [listen : [form : STRING, host : STRING, port : Int],
   readTimeout : Int, writeTimeout : Int, shutdownTimeout : Int,
   type : STRING,
   maxSize : [form : STRING, value : Nat, unit : DOMAIN Multiplier],
   numCounters : Int, cleanupInterval : Int,
   redisAddr : STRING, redisDB : Int, poolSize : Int, dialTimeout : Int,
   redisReadTimeout : Int, redisWriteTimeout : Int,
   level : STRING, format : STRING,
   logToFile : BOOLEAN, logPath : STRING,
   logMaxSize : Int, logMaxBackups : Int, logMaxAge : Int,
   metrics : BOOLEAN, metricsPath : STRING,
   rulesFile : {"", "missing", "refused", "lost dictionary", "loads"},
   reloadInterval : Int]

ASSUME SettingsAssumption ==
  /\ MaxInt64 \in Nat
  /\ DefaultMaxSize \in 1..MaxInt64
  /\ \A u \in DOMAIN Multiplier : Multiplier[u] \in Nat \ {0}
  /\ Settings \subseteq SettingsFile

VARIABLES config,     \* koala.toml as decoded
          loaded,     \* the settings in force: config with its defaults
          boot,       \* where main is: "config", "storage", "rules", "watcher", "up", "failed"
          store,      \* "none", "local" or "manager"
          maxCost, numCounters,   \* of the cache of the local storage
          requestTimeout,
          watching    \* the watcher of the files: "off", "failed" or "on"

cache == <<maxCost, numCounters>>
settingsVars == <<config, loaded, boot, store, cache, requestTimeout, watching>>

Second == 1000
Minute == 60 * Second
Levels == {"debug", "info", "warn", "error"}
Formats == {"console", "json"}
StorageTypes == {"local", "redis"}

-------------------------------------------------------------------------------
(* LoadConfig.                                                             *)

Or(x, unset, default) == IF x = unset THEN default ELSE x

\* Mutant: a reload interval of zero is left as it is.
DefaultsButReload(c) ==
  [c EXCEPT !.readTimeout = Or(@, 0, 5 * Second), !.writeTimeout = Or(@, 0, 5 * Second),
            !.shutdownTimeout = Or(@, 0, 30 * Second),
            !.type = Or(@, "", "local"), !.level = Or(@, "", "info"),
            !.format = Or(@, "", "console"), !.metricsPath = Or(@, "", "/metrics")]

ApplyDefaults(c) ==
  [c EXCEPT !.readTimeout = Or(@, 0, 5 * Second), !.writeTimeout = Or(@, 0, 5 * Second),
            !.shutdownTimeout = Or(@, 0, 30 * Second),
            !.type = Or(@, "", "local"), !.level = Or(@, "", "info"),
            !.format = Or(@, "", "console"), !.metricsPath = Or(@, "", "/metrics"),
            !.reloadInterval = Or(@, 0, 30 * Second)]

\* validateConfig.
Accepted(c) ==
  /\ c.listen.form # ""
  /\ c.type \in StorageTypes
  /\ c.level \in Levels /\ c.format \in Formats

LoadConfig ==
  /\ boot = "config"
  /\ IF Accepted(ApplyDefaults(config))
       THEN /\ loaded' = ApplyDefaults(config)
            /\ boot' = "storage"
       ELSE boot' = "failed" /\ UNCHANGED loaded
  /\ UNCHANGED <<config, store, cache, requestTimeout, watching>>

-------------------------------------------------------------------------------
(* initStorage and the rest of main.                                       *)

\* An int64 product is taken modulo 2^64.
Wrapped(n) == ((n + MaxInt64 + 1) % (2 * (MaxInt64 + 1))) - (MaxInt64 + 1)

\* ParseSize: no size when it fails.
ParseSize(size) ==
  {Wrapped(v * Multiplier[size.unit]) :
     v \in IF size.form = "size" /\ size.value <= MaxInt64 THEN {size.value} ELSE {}}

\* GetMaxSizeBytes, and what initStorage makes of its error.
MaxSizeBytes(size) ==
  IF size.form = "" \/ ParseSize(size) = {} THEN DefaultMaxSize
  ELSE CHOOSE n \in ParseSize(size) : TRUE

\* ristretto.NewCache refuses zeros; of negative numbers nothing is assumed.
NewCacheWorks(cost, counters) == cost # 0 /\ counters # 0
NewCacheFails(cost, counters) == cost <= 0 \/ counters <= 0

\* redis.New only makes a client, it does not connect: it never fails.
InitStorage ==
  /\ boot = "storage"
  /\ maxCost' = MaxSizeBytes(loaded.maxSize)
  /\ numCounters' = Or(loaded.numCounters, 0, 100000)
  /\ \/ /\ NewCacheWorks(maxCost', numCounters')
        /\ store' = IF loaded.type = "redis" THEN "manager" ELSE "local"
        /\ boot' = "rules"
     \/ /\ NewCacheFails(maxCost', numCounters')
        /\ boot' = "failed"
        /\ UNCHANGED store
  /\ UNCHANGED <<config, loaded, requestTimeout, watching>>

\* LoadRules, LoadDicts: main exits without its rules or a dictionary they name, and
\* without a path to read (RuleLoading and HotReload say what is read when).  What
\* loads always builds (RuleLoading!LoadedRulesBuild).
LoadRulesFile ==
  /\ boot = "rules"
  /\ boot' = IF loaded.rulesFile = "loads" THEN "watcher" ELSE "failed"
  /\ UNCHANGED <<config, loaded, store, cache, requestTimeout, watching>>

\* startConfigWatcher is not called without an interval, and may fail of its own: no
\* inotify instance is to be had, one of the files has changed since main read it and
\* does not load, a directory cannot be watched.  That is logged, and the server starts.
StartWatcher ==
  /\ boot = "watcher"
  /\ requestTimeout' = loaded.readTimeout
  /\ watching' \in IF loaded.reloadInterval > 0 THEN {"on", "failed"} ELSE {"off"}
  /\ boot' = "up"
  /\ UNCHANGED <<config, loaded, store, cache>>

SettingsInit ==
  /\ config \in Settings /\ loaded = config
  /\ boot = "config" /\ store = "none" /\ maxCost = 0 /\ numCounters = 0
  /\ requestTimeout = 0 /\ watching = "off"

SettingsNext == LoadConfig \/ InitStorage \/ LoadRulesFile \/ StartWatcher

SettingsSpec == SettingsInit /\ [][SettingsNext]_settingsVars

-------------------------------------------------------------------------------
(* ValidateConfig.                                                         *)

\* A port is the number its text begins with, whatever follows.
ValidPort(n) == n \in 1..65535

ValidListen(a) ==
  /\ a.form = "port" \/ (a.form = "host:port" /\ a.host \in {"", "ip", "hostname"})
  /\ ValidPort(a.port)

ValidServer(c) ==
  /\ ValidListen(c.listen)
  /\ c.readTimeout \in 0..(5 * Minute) /\ c.writeTimeout \in 0..(5 * Minute)
  /\ c.shutdownTimeout >= 0

ValidLocal(c) ==
  /\ c.maxSize.form # "" => ParseSize(c.maxSize) # {}
  /\ c.numCounters >= 0 /\ c.cleanupInterval >= 0

\* A Redis address only has to split into host and port.
ValidRedis(c) ==
  /\ c.redisAddr = "host:port"
  /\ c.redisDB \in 0..15
  /\ \A setting \in {c.poolSize, c.dialTimeout, c.redisReadTimeout, c.redisWriteTimeout} :
       setting >= 0

ValidStorage(c) ==
  /\ c.type \in StorageTypes
  /\ c.type = "local" => ValidLocal(c)
  /\ c.type = "redis" => ValidRedis(c)

ValidLogging(c) ==
  /\ c.level \in Levels /\ c.format \in Formats
  /\ c.logToFile => c.logPath # "" /\ c.logMaxSize >= 0 /\ c.logMaxBackups >= 0 /\ c.logMaxAge >= 0

\* Of a path, whether it begins with a slash.
ValidMetrics(c) == c.metricsPath = "/metrics" \/ (c.metricsPath = "" /\ ~c.metrics)

\* The rules file itself is not judged: it may be missing, or have no path.
ValidRulesRef(c) == c.reloadInterval = 0 \/ c.reloadInterval >= Second

ValidateConfig(c) ==
  ValidServer(c) /\ ValidStorage(c) /\ ValidLogging(c) /\ ValidMetrics(c) /\ ValidRulesRef(c)

-------------------------------------------------------------------------------
(* Properties.                                                             *)

\* The size a file asks for, as a number of any length.
Requested(size) == size.value * Multiplier[size.unit]
SizeFits(size) == Requested(size) \in 1..MaxInt64

\* Start-up runs the short validateConfig, then defaults and fallbacks.  Of a settings
\* file that stands the thorough ValidateConfig (validate.go:77):
\*  - it gets to a running server, with the storage it asks for, a request timeout
\*    neither none nor above five minutes, and hot reload, unless the watcher itself
\*    fails to start;
\*  - all that can stop it is the rules file, which ValidateConfig does not look at, a
\*    cache size of zero or one that an int64 does not hold, and the number of counters
\*    behind Redis, which is not validated there;
\*  - the cache has the size asked for exactly when that fits in an int64: one that
\*    wraps is used, wrapped, if it is not refused, but zero never.
ValidatedConfigStarts ==
  ValidateConfig(config) =>
    /\ boot = "failed" =>
         \/ config.rulesFile # "loads"
         \/ config.maxSize.form = "size" /\ ~SizeFits(config.maxSize)
         \/ config.type = "redis" /\ config.numCounters < 0
    /\ boot = "up" =>
         /\ watching # "off"
         /\ requestTimeout \in 1..(5 * Minute)
         /\ store = IF config.type = "redis" THEN "manager" ELSE "local"
    /\ store # "none" =>
         /\ maxCost # 0
         /\ ParseSize(config.maxSize) # {} =>
              (maxCost = Requested(config.maxSize) <=> SizeFits(config.maxSize))
===============================================================================
