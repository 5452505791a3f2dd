# Koala v2 in TLA+

Koala is a rate-limiting server. A client of its HTTP API asks whether a request
described by some fields (user, address, ...) may pass (`/browse`), and tells it
that such a request has happened (`/update`). The server answers from a set of
rules, whose counters it keeps in Redis or, when Redis fails, in its own memory;
rules and dictionaries can be changed while it runs.

This directory holds models of the parts of that program in which order,
concurrency, failure or clocks matter, the configurations with which TLC checks
them, and proofs checked by TLAPS. Line numbers are those of `src/`.

## The system

| component | state | operations | what must be right |
|---|---|---|---|
| rule engine (`internal/engine`) | the current rule set (an atomic pointer); the counters, in the storage | Browse, Check, LoadRules; through `EngineAdapter` of `cmd/koala/main.go`: browse, browse with update, update | a counter, and what clients are told, stays near the limit however requests, reloads and failures interleave |
| algorithms count and base (`engine/algorithm/count.go`, `base.go`) | one counter per key; a total and a secondary counter per key | Browse, Update | the same |
| algorithm freq (`algorithm/leak.go`) | a list of timestamps per key, a mutex per key and `Leak` | Browse, Update, cleanExpired | a window admits the limit, no fresh timestamp is lost, refusals end |
| local storage, counters (`storage/local/local.go`) | a map to pointers to entries with an atomic value and a deadline | GetInt, SetInt, IncrBy, IncrWithTTL, Close | no count is lost before its window ends, no deadline moves |
| local storage, lists | a map to pointers to entries with a mutex | LPush, LTrim, LRange, LLen, LIndex, cleanup, Close | slices are those of Redis; what the cleanup drops is empty |
| local storage, strings | a ristretto cache | Get, Set, Delete, Exists | not used by the limiter |
| storage manager (`storage/manager/manager.go`) | atomics `current`, `degraded`, `failureCount`; a mutex; the health goroutine | operations with failover, recordFailure, degrade, checkHealth, recover, Close | the mode is consistent, has a cause, and ends when Redis is well |
| Redis storage (`storage/redis/redis.go`) | a connection pool | the same operations | each is one command or script |
| hot reload (`config/watcher.go`, `engine/dict_bridge.go`, `main.go`) | debounce times, events, the rules and dictionaries of `ConfigWatcher` and of `main` | the reads at the start, Load, Watch, eventLoop, onRulesChange, onDictChange, the callback, Stop | what is saved takes effect, what does not load does not |
| rule loading (`config/rules.go`, `engine/rule.go`) | the rules file, the rule set | LoadRules, validateRules, BuildRuleSet | the engine only gets rules its algorithms can work with |
| pattern matchers (`engine/matcher`) | the registered dictionaries | Parse, Match | a pattern accepts what its documented syntax says |
| API rate limit (`api/middleware.go`) | a counter per client address, a cleaner goroutine | Handler, cleanup, StopCleanup | an address is not served more than its limit, nearly |
| health checks and startup (`api/health.go`) | registered checkers, the results of a round | Register, CheckAll, IsHealthy, WaitForReady | ready means checked, waiting ends |
| handlers (`api/handler.go`) | a result slice and a WaitGroup per batch | Browse, Update, Batch, Health, Ready | a batch is answered when, and only when, each of its goroutines is done, by rules in force since it came in |
| router and other middleware (`api/router.go`, `middleware.go`) | request counters per route, a mutex | Run, Shutdown, Recovery, CORS, Timeout, Metrics | the counters account for what clients got |
| process lifecycle (`cmd/koala/main.go`) | the goroutines of main, the deferred calls | start, signals, shutdown | nothing is closed under a request that could still be waited for; a signal ends the process |
| configuration (`config/config.go`, `validate.go`) | the settings, read at start | LoadConfig, ValidateConfig, ValidateRules | what a validator passes starts, loads and builds |
| dictionaries (`config/dict.go`) | sets of entries by name | loading; Reload and Merge, unused | as hot reload |

Interactions. Handlers call the adapter, which calls the engine once or twice;
the engine calls an algorithm, which makes several calls on the storage manager,
which makes one call on Redis or on the local storage and perhaps a second on the
other. Nothing holds a lock over more than one of these calls, but for the key
mutex of `Leak`. The watcher's goroutine calls back into `main`, which loads the
rules again and hands them to the engine by replacing a pointer; requests in
flight go on with the old set. The health goroutine of the manager and the
requests share three atomics and a mutex. The cleaners of the API rate limit and
of the local lists run beside the requests.

What is hard in this code is therefore: limits that are read in one operation
and counted in another; pointers taken under a lock and used after it; clocks
read before a lock is waited for; pairs of atomics written one after the other;
operations that fail halfway, or fail after they took effect; files that change
while they are read; and locks that a reload silently duplicates.
`PROJECT.json` lists these, each at its line, with the properties that would
catch it going wrong.

## The modules

| module | models | checked by | proofs in |
|---|---|---|---|
| `RuleSet` | how a rule set decides a request: access rules, the four phases, the counter key | (in `Engine`) | `EngineProofs` |
| `Engine` | the engine, the algorithms count and base, the adapter | `MCEngine`: `EngineAll` | `EngineProofs` |
| `RateBudget` | what a fixed-window limiter promises: the abstract specification `Engine` implements | `EngineAll` | `EngineProofs` |
| `LeakBucket` | the algorithm freq on one key | `MCLeakBucket`: `LeakAll` | `WindowProofs` |
| `LocalCounters` | the counters of the local storage | `MCLocalCounters`: `CountersAll` | `LocalStorageProofs` |
| `LocalLists` | the lists of the local storage | `MCLocalLists`: `ListsAll` | `LocalStorageProofs` |
| `StorageManager` | failover and recovery | `MCStorageManager`: `ManagerAll` | `StorageManagerProofs` |
| `FailoverCycle` | the circle flag and pointer go round in: the abstract specification `StorageManager` implements | `ManagerAll` | `StorageManagerProofs`, `FailoverProofs` |
| `Failover` | composition: one counter of the engine over the manager and its two stores | `MCFailover`: `FailoverAll` | `FailoverProofs` |
| `HotReload` | the files from the start of the process on: first reads, watcher, debounce, handlers, callback | `MCHotReload`: `ReloadAll`, `ReloadDict` | `HotReloadProofs` |
| `Server` | main's goroutines, the HTTP server, middleware, handlers, batches, shutdown | `MCServer`: `ServerAll` | `ServerProofs` |
| `Settings` | from koala.toml to a started process; ValidateConfig | `MCInputs`: `InputsAll` | `InputsProofs` |
| `RuleLoading` | from the rules file to the rule set | `InputsAll` | `InputsProofs` |
| `RuleValidation` | ValidateRules, beside what `RuleLoading` runs | `InputsAll` | `InputsProofs` |
| `Matcher` | Parse and Match | `InputsAll` | `InputsProofs` |
| `Inputs` | the last four side by side | `InputsAll` | |
| `APIRateLimit` | the middleware | `MCAPIRateLimit`: `APIAll` | `WindowProofs` |
| `Startup` | HealthManager and StartupChecker | `MCStartup`: `StartupRounds` | `ServerProofs` |

Definitions whose name begins with that of a mapped one and says what is wrong
with it, each under a comment "Mutant", are not part of the specifications. Each
replaces its original to show that a property fails when the code goes wrong that
way.

**Engine.** A thread is a goroutine of the HTTP server with one API call at a
time: `pc` is where it stands in `matchRules` or in the algorithm, `call` what it
was asked, `inner` the engine method that runs, `rule` the rate rule it took from
the rule set it loaded. Access rules and the choice of the rate rule need no
storage and are one step (`Match`, which uses the rule set current at that
moment, as the code loads the pointer once per method). Every storage operation
is a step (`BrowseCount`, `BrowseTotal`, `BrowseSecondary`, `UpdateCount`,
`UpdateTotal`, `UpdateSecondary`), and may fail (`BrowseFails`, `UpdateFails`,
the latter with or without effect). `LoadRules` replaces the rule set between any
two steps; `WindowElapses` is the expiry of a TTL. Two conveniences: a missing
counter is 0, and a window may end at any time, which covers every clock.

**LeakBucket.** `Leak` is per rule set, so `current` numbers the reloads, `leak`
is the one a call uses, and there is a key lock for each. LRange, LTrim, LLen,
the clock reading and LPush are steps.

**LocalCounters.** Entries are a heap: `counters` maps keys to entry numbers,
`held` is the pointer a goroutine took. A critical section is one step. IncrBy
and IncrWithTTL differ in their `ttl`, 0 is "none".

**LocalLists.** The same for lists, with the cleanup goroutine's two looks at a
list. LTrim and LRange take negative, reversed and out-of-range offsets.

**StorageManager.** Loads and stores of `current`, `degraded` and `failures` are
steps, the mutex is `mu`. A read may meet a missing key, an operation an outage
or the end of its own request: all are errors to the manager. The failure count
saturates at `MaxFailures`, above which nothing compares differently.

**FailoverCycle**, **Failover.** `Failover` takes from the manager only what
`FailoverCycle` says, that flag and pointer move in turn, and lets them move at
any moment (`Move`, an action of the abstract specification); in return it has
both stores, each with its counter, and the look and the increment of `Engine`'s
count rule as two operations that each go through executeWithFailover. That
`StorageManager` implements `FailoverCycle` is what connects the two models.

**HotReload.** A file holds a version number or is `Partial` while an editor has
truncated it. `pc` is main up to the watcher and the event loop after that: main
reads the rules (`ReadRules`) and the dictionaries (`ReadDicts`), `ConfigWatcher`
reads both again (`LoadRules`, `LoadDicts`), then the directories of settings, rules
and dictionaries are watched one by one (`WatchConfig`, `WatchRules`, `WatchDicts`),
and any of this may fail, which leaves the process without a watcher
(`WatcherFails`). Files are saved all the while. `Directory` says which files share a
directory, as watching one watches the others (conf/ holds all of them). The event
loop handles one event at a time; the rules file is read by `OnRulesChange` and again
by `ReloadRules`. `rules` and `dicts` are those of `ConfigWatcher`, `engineRules` and
`dictManager` those of `main`. `unheard`, a history, holds the files whose last save
came after main had read them and raised no event, or one that is debounced.

**Server.** `main`, `listener` and `watcher` are the three goroutines of the process;
each of `Requests` is a goroutine of net/http that serves one request at a time,
and `working` holds the goroutines its batch has started. Metrics are counted
after the handler (`Count`), the response goes out after that (`Reply`), and a
panic skips the first (`CallPanics`) or, in a goroutine of a batch, ends the
process (`WorkPanics`). Requests without an engine call (OPTIONS, health, an unknown
route) are answered at once; that the logging middleware first reads their body is
left out, and no property depends on when they are answered. An engine call is one step whose answer is the version of
the rules in force; what it does inside is `Engine`. `End` is the one place where
the process goes, for four reasons: a signal before `signal.Notify`, an error of
ListenAndServe (`log.Fatalf` skips the deferred calls), a panic, and the return of
main.

**Settings.** A decoded settings file is a record of what the code tests; of an
address or a size it keeps what the parser finds, of the path of the rules file what
reading it gives. `boot` is where main is: settings, storage, rules, watcher. Without
rules main exits (`LoadRulesFile`); a watcher that does not start is only logged
(`StartWatcher`, `watching`). Sizes are multiplied in integers that wrap. `ValidateConfig` is an operator: start-up
never calls it (only tests do), nor **RuleValidation**'s `ValidateRules`, so what it
would say is compared with what start-up and a reload do.

**Inputs.** Settings, rules files and patterns share no state. A behaviour is one of the three while the others rest.

**RuleLoading.** The file changes to any content of `Configs`; a reload validates,
builds and installs it, or leaves everything as it is. `source`, a history, is what
the file held when the engine took it.

**Matcher.** Texts are sequences of tokens, so that the dash of a range, a sign
and a dash in a word are different things that look alike. `Parse` and the Match
methods are operators; `Means` is a second definition, from the documented
syntax, without an order of tests and without a search for the dash.

**APIRateLimit.** `stamp` and `cleanedAt` are the clock as read before the mutex.
The handler's critical section is one of `OpenWindow`, `Refuse`, `Count`. `NewRouter`
does not install this middleware (`router.go:57-76`): it is modelled as a component
its users would add, which only tests do so far.

**Startup.** A checker answers (`Check`) and writes its answer into the shared map
(`Publish`) in two steps; a round ends when all have. Checkers may be registered,
components change and contexts end at any moment.

## What the runs check

Every run finishes in about two minutes on four cores. Each bound is a constant
of the module, named in its declaration. The type invariant of each module is the
first conjunct of its first invariant (in `EngineAll` it is listed by itself).

**`EngineAll`** (2.7 million states). Two threads, one client, five rule sets: a
count rule with limit 2 and with limit 1, a base rule (`base` 1, `count` 3: the total
may be 1 before the limit is looked at), a rule set that lets the client pass, one that
refuses it. One storage
failure, one expiry, one reload. Two threads suffice for every pair of
interleaved calls, and the excess the bounds speak of is per thread;
the proof of `CounterBound` covers any number.
 - `CounterBound`: a counter passes the limit by at most one request per *other*
   thread, whatever happens in between. "At most count requests"
   (`rule.go:64`) is not what the code ensures; this is.
 - `GrantBound`: browse with update answers from its *first* look at the counter,
   so what it tells clients is not what it counts. Within a window it grants the
   limit, one per other thread and one per failed operation. Both looks have to
   select the same rule for that: no reload, and no two rules of one name, which
   would share a counter.
 - `BaseBound`: the two counters of a base rule expire on their own; how much the
   secondary one can still hold, under the same condition.
 - `ImplementsRateBudget`: each key is a budget of limit + N - 1 units, drawn one
   at a time and refilled whole (`RateBudget`).

**`LeakAll`** (0.7 million). Two threads, limit 2, window 1, time to 3, a reload
and a failure. `BucketBound` holds throughout. `FreshEntriesStand`, `WindowBound`
and `DenialsEnd` are stated up to the reload: with two Leaks, each with its own
lock, an LTrim by an outdated length does remove fresh timestamps. Two servers on
one Redis are in the same position from the start.
`DenialsEnd` is the strongest thing true of refusals: cleaning removes nothing
while the newest entry is fresh, so entries long past count, but a client that
has been silent for a window is served.

**`CountersAll`** (2.4 million). Two goroutines with all operations, three
updates, four clock values, with and without TTL.
`OnlyStaleEvictionsOverlap`: a window is cut short only by a GetInt that deleted
an entry it had not seen, one window each; without GetInt never.
`DeadlinesStand`: no later operation moves a deadline. Three updates are
needed for an entry, its replacement and the one after; a fourth repeats them.

**`ManagerAll`** (0.6 million). Two callers, the health goroutine, failure limit 2,
one outage. `ModeAgrees`: flag and pointer agree whenever nobody is inside degrade
or recover. `StraysBounded`: increments that land on the fallback after the
recovery are at most one per caller. `DegradedForCause`: without an outage it
takes `MaxFailures` failed operations to degrade. `ImplementsFailoverCycle`: the
mode goes round in one circle, no goroutine skips a part of it or goes back.
`RecoversEventually` and `CloseReturns` are liveness.

**`FailoverAll`** (1.8 million). Three callers, limit 2, five moves: a whole circle
(flag, pointer, flag, pointer) and the next failover, one window that ends.
`FailoverBound`: a client may use its limit once in each store, and switching back
and forth refills nothing; beyond that there are only the requests that one store
let pass and the other counted, at most one per caller each time the manager
crosses over. Three callers let two of them be carried by one crossing
while the third is refused.

**`ReloadAll`** (1.1 million). From the first read of the start on, all files in one
directory; both ways of saving, three saves, debounce 2, time to 5: enough for a
save between any two steps of the start, for one inside, on and after the debounce
of an earlier one, and for saves between the two reads of one event. Each property
excepts the saves that are `unheard`.
 - `EngineMovesForward`: the engine never takes rules that do not load, nor older ones.
 - `ReadersAgree`: with the watcher running and no event left, the engine has the last
   save, and so has `ConfigWatcher`.
 - `UnhurriedSavesTakeEffect`: a save that was read at the start, or heard, reaches the
   engine, unless the process exits or runs without a watcher.
 - `StopReturns`.

**`ReloadDict`**: see below. There each file has a directory of its own.

**`ServerAll`** (0.3 million). Two requests at a time, single calls, batches of one
or two items and OPTIONS; one panic, one reload, a signal or an error of the
listener at any moment. Two items are what it takes for a goroutine to run while
the loop goes on and for one item to be invalid between two others' steps; two
requests, for one to be in flight while the other ends.
 - `BatchJoined`: no goroutine of a batch outlives its request, and each item is
   answered once, for itself.
 - `NoStaleVerdict`: the items of a batch may be judged by different rule sets, none
   of them replaced before the batch came in.
 - `MetricsAccount`: per route, requests counted and panics recovered are the
   responses clients got; likewise for failures.
 - `GracefulShutdown`: storage and watcher are closed under a running request only
   if the deadline of the shutdown has passed, and never during a reload.
 - `RequestsEnd`, `SignalEnds`: every request whose body has arrived is answered or
   ends with the process; a signal ends it whatever clients and files do.

**`InputsAll`** (0.3 million). One change at a time, as the three readers share
nothing.
 - Settings: two sound files with any two of some sixty replacements made; sizes in
   three units and integers of eight bits, so that products wrap to zero, below it
   and to something smaller; a rules file without a path, missing, refused, or with a
   lost dictionary; a watcher that fails. `ValidatedConfigStarts`: of what
   ValidateConfig passes, the rules file, a size that does not fit and counters behind
   Redis are all that can stop it, and the cache is of the size asked for exactly when
   that fits.
 - Rules files: every access rule and rate rule that is sound or wrong in some field,
   in every kind of phase. `RulesWellFormed`: the rate rules of the engine are those of
   one file, in its order, each counted by the algorithm documented for its type, with
   a positive limit and time; which covers what `Engine` assumes of its rule sets.
   Bases are free: a negative one passes (`rules.go:175-206`), and `BaseBound` is stated
   and proved for every integer base. `LoadedRulesBuild`, `ValidatedRulesLoad`.
 - Patterns: signed numbers with dashes up to five tokens long, each prefix with an
   operand of up to three tokens, lists and addresses with and without wildcards,
   against thirty-odd values, numbers beyond the largest integer among them. Five
   tokens are those of a range with two signs, the longest form.
   `VerdictAsDocumented`, `RangesRecognised`.

**`APIAll`** (0.7 million). Three requests, limit 2, window 2, time to 4.
`ServedBound`: what an address is served in a span of one window is at most two
limits less one, and as much again for each counter removed early; and less than a
limit for each request in flight plus one whatever the cleaner does. The window is
longer than a tick because windows include both ends: a span of one tick never
reaches into two of them, one of two ticks does, and a counter removed early begins
the count anew.

**`ListsAll`** (1.7 million). Two threads, three pushes, offsets -3, -1, 0, 1:
`SlicesLikeRedis` on lists up to three long, `OrphansBounded` for the lists the
cleanup drops under a push. `main` gives the local storage no cleanup interval
(`main.go:215`), so that as built the loop never runs; the model has it because
the default configuration of the package does.

**`StartupRounds`** (65 thousand). Three checkers, two of one name, two tries, one
change of health: `ReadyMeansReported`, `RefusedForCause`, and `ReadyOnceHealthy`,
which says that the wait returns as well.

`CHECK_DEADLOCK FALSE` appears where the program really stops: a stopped watcher
with all saves made, a closed list storage, a process that has ended, a
`WaitForReady` that has returned, a judged input. Symmetry is used where threads
are interchangeable and no liveness is checked.

### Fairness

 - `StorageManager`: weak fairness of every caller and of the health goroutine
   (goroutines are scheduled); strong fairness of the health goroutine's
   `Lock`, as Go's mutexes are starvation-free, and of `Stop`, as `select` picks
   at random among ready cases and a closed channel stays ready. None for calls,
   outages, or Close.
 - `HotReload`: weak fairness of main's start-up, of the event loop, of the clock and of
   the second half of a rewrite; strong fairness of `LoopEnds`, for the same reason as
   `Stop`.
 - `Startup`: weak fairness of the waiting goroutine and of every checker. None
   for the components, registration, or the callers.
 - `Server`: weak fairness of every step of a request whose body has arrived, as
   engine calls return (calls on Redis time out, the local storage waits for nothing but its locks) and goroutines are
   scheduled; of the end of a reload and of main's steps, among them the timer of
   the shutdown; strong fairness of `StopWatcher`, for the same reason as `Stop`.
   None for clients: the HTTP server has no read timeout, and a client may never
   send the body of a request it began.

## What is proved

All of these hold for every value of the constants that satisfies the
assumptions of the module, which say no more than that there are finitely many
threads, that limits and bounds are natural numbers, and the like.

`EngineProofs` (rules as `RuleLoading` lets them through; `Ceiling` above every
version of a limit):
 - `TypeCorrect`: `TypeOK` always holds. Its strengthening `TypeInv` adds that a
   thread between `Match` and its answer has a rule of the right algorithm;
 - `AccessListsDecide`: a request that every version of the rules has on its whitelist is
   always answered "allowed", one that every version has on its blacklist "denied",
   but by Update, and neither reaches a counter, whatever reloads and failures do.
   `AccessAt` adds that between the two looks of browse with update the answer
   stands, and that a refusal has no second look;
 - `CounterNeverFarOverLimit`: `CounterBound`. It is not inductive: what a
   counter may still become depends on who is past the check. The invariant
   `Reserved` says that the counter plus the number of threads about to
   increment it is at most Ceiling + N - 1. A thread joins them only while the
   counter is below the limit, so at most N - 1 others are with it, and leaves
   by at most one increment, failed or not; expiry and reload neither
   change their number nor add to the counter;
 - `EngineImplementsRateBudget`: each step is a Draw, a Refill or a stutter of
   `RateBudget`, which needs `Reserved` to show that a Draw is within capacity;
 - `GrantsAreBounded`: `GrantBound`. `Steady` says that, with one rule per counter and
   no reload, a thread's rule is the one its request selects, and a request told
   "allowed" is on its second look. Then `GrantsKept`: below the limit each grant
   but the failed ones has been counted or is about to be, so that what was granted
   is at most the counter, the faults and the threads on their way; from the limit on
   no thread joins them;
 - `SecondaryIsBounded`: `BaseBound`, with `BaseInv`. The secondary counter grows only
   by threads that saw the total past its base. Up to there N of them are still to
   be reckoned with; beyond, the counter and the threads in `Flight` are within the bound.

`WindowProofs`, the algorithm freq:
 - `BucketsAreBounded`, along the same argument: `OverflowInv` adds to the length of
   the bucket the calls that have `Passed` Browse and not pushed yet;
 - `FreshEntriesAlwaysStand` and `DenialsAlwaysEnd` need to know what the lock is good
   for. `OrderInv` says that under one Leak every thread inside holds the same lock,
   the bucket is in order, newest first, and not in the future, what a thread
   is about to trim is stale, and what it is about to count has a fresh entry
   in front. A bucket in order is trimmed wholly or not at all;
 - `WindowsAreBounded`: `HistoryInv` says that under one Leak the bucket still holds every
   entry pushed at a time that is fresh, as often as it was pushed. The sum over a
   window is then the length of a part of the bucket, and `BucketBound` bounds that.
   What a sum over a finite set is, what changes it and by how much, is proved from
   the definition of the community modules' fold.

`WindowProofs`, the API middleware:
 - `ServedIsBounded`: `ServedBound`, both parts, by following every span the clock is still
   in from its beginning.
   `ChainInv` follows the windows of an address: one that began before the span serves
   at most a limit in it, less the request that opened it; the next outlasts the
   span and serves a limit; one that is removed early is charged with a whole new
   chain. `AffordInv` does without the count of removals: a counter used at
   a time of the span is not idle for a cleaner that read the clock before its end, so what
   goes was used or opened by a late request, and each of those makes one more counter
   go at most. What the counter and the late requests may still serve and what was
   served stay below the bound together.

`StorageManagerProofs`:
 - `ModesAlwaysAgree` and `ManagerImplementsFailoverCycle` from `MutexInv`: who is inside
   degrade or recover holds the mutex, and flag and pointer differ only between
   the two writes of one of these;
 - `StraysAreBounded`: while the manager is on the primary, the strays and the callers
   `Adrift`, still on their way to the fallback, are at most the callers. Each is
   adrift once, as it takes up the pointer anew with its next operation;
 - `DegradationsHaveACause`: without an outage the failures recorded and those of the
   callers `Blamed`, on their way to be recorded, are at most the failed operations
   so far, and nobody degrades before these are `MaxFailures`.

`ServerProofs`:
 - `ShutdownIsGraceful`: `ShutdownInv` adds that the listener is closed while main waits,
   so that no request is let in behind the wait, and that a stopped watcher stays so;
 - `BatchesAreJoined`: `BatchInv` says that the WaitGroup counts the goroutines that run,
   and that an item the loop has left behind has a goroutine or its result;
 - `NoVerdictIsStale`, from the fact that versions grow;
 - `MetricsAreKept`: counters and history are compared through the set of responses
   that are on their way, per route and status.

`ServerProofs`, what runs before the first request:
 - `ReadyIsAlwaysReported` and `RefusalsHaveACause`: `RoundInv` says that the statuses of
   a round are those its checkers observed, that each checker that has published
   has a status under its name, and each status an observer, so that a round that
   is over has asked every checker, and `ready` follows such a round only.

`HotReloadProofs`:
 - `EngineNeverGoesBack`: no file holds, and the engine does not run, a version beyond
   the saves made (`Growing`), and what the engine runs is not newer than the file;
 - `ReadersAlwaysAgree`: `Heard` follows a save from where main is still to read the file,
   or has and `ConfigWatcher` is still to, or from its event, which waits in the
   queue and will not be debounced, through the two reads to the point where both
   readers have it. It holds from the first state of the start.

`LocalStorageProofs`:
 - `DeadlinesAlwaysStand`: `HeapInv` says that the entry a key maps to is the last of
   those it has mapped to, that what a goroutine holds or has mapped was allocated,
   and that the entry a `SetInt` is about to install is known to nobody else;
 - `OnlyStaleEvictionsEverOverlap`: `WindowsInv` adds that a `GetInt` about to evict has
   seen its entry expired, and that the windows that overlap under a key, with
   the one a stale eviction may still cause, are at most the stale evictions so far;
 - `OrphansAreBounded`: `OrphanInv` says that the lists that were ever created are the one the key maps
   to and those removed, and that a list out of the map holds, with what the
   threads that took it before are about to push, at most one value for each
   thread: it was empty as the cleanup removed it, and no thread finds it any more;
 - `SlicesAlwaysLikeRedis`: for lists and offsets of any size, what `LTrim` and `LRange`
   cut out by clamping is what the ranks of the elements say Redis returns.

`FailoverProofs`:
 - `FailoversAreBounded`: `FailoverBound`. `FailoverInv` is `Reserved` once per store: its
   counter and the callers about to increment it are at most the limit and
   N - 1, those apart whom the other store let pass. These are counted with
   the crossings of the manager, N for each (`Paid`); that a crossing is
   seen at all comes from the circle of `FailoverCycle`.

`InputsProofs`:
 - `ValidatedConfigAlwaysStarts`, for any settings, units and width of integers, from
   what each check of `ValidateConfig` gives and from what a product becomes in an
   int64 (`ProductsWrap`), and `ValidatedRulesAlwaysLoad`, for
   any rules file;
 - `RulesAlwaysWellFormed` and `LoadedRulesAlwaysBuild`, for rules files of any content.
   Both rest on lemmas that say what `ValidRules` gives of each rule of each phase: the
   first on the types of `validateRateRule` being those `buildRateRule` knows;
 - `RangesAlwaysRecognised`, for patterns of every length: the one dash
   `FindRangeDash` considers is there whenever there is an integer on either
   side of a dash, and no text can be cut in two ways;
 - `VerdictsAreAsDocumented`: `VerdictAsDocumented`, for patterns and values of every
   length and any dictionaries. `strings.Split` orders the separators by rank, so
   that neighbours in rank are separators with none between them: its pieces
   are the stretches the documents speak of, a text with three dots is its four
   pieces joined again, and four pieces joined are split into themselves. With
   that the cases of `Parse` are those of the syntax, one by one.

Only model-checked: the liveness properties (`RecoversEventually`, `CloseReturns`,
`UnhurriedSavesTakeEffect`, `StopReturns`, `RequestsEnd`, `SignalEnds`,
`ReadyOnceHealthy`), as liveness under fairness is beyond the prover. Every invariant and
every action property of a passing run, and both refinements, are proved.

## Where code and text disagree

One run ends in a counterexample to what the repository says of itself.
`ReloadDict`: dictionary files are to support hot reload
(`05-CONFIG-REFERENCE.md:634`). `ConfigWatcher` loads a changed dictionary into
its own manager; the callback (`main.go:282`) copies another one, which never
changes, to the matchers.

Others came up while modelling. The properties that hold are stated so as to
bound what these can cost:

 - counter operations are to be atomic (`internal/storage/interface.go:36`), but
   `GetInt` sees an expired entry under the read lock (`local.go:210`), releases
   it, and deletes whatever the key maps to by then: a counter an increment has
   just started is lost. `OnlyStaleEvictionsOverlap` allows for exactly these;
 - requests that pass the limit together (`engine.go:221` against `rule.go:64`);
 - browse with update may answer "allowed" and count nothing (`main.go:171`
   against `04-API-REFERENCE.md:281`);
 - missing keys and ended requests count as failures of Redis (`manager.go:200`,
   `:224` against `user_manual.md:176`), and an operation that fails after
   another goroutine has degraded the manager is not retried (`manager.go:200`
   against the comment at `:197`);
 - a reload doubles the key locks of freq (`leak.go:33` against `:23`), and its
   cleaning leaves old timestamps that count against the limit (`:93` against
   `:75`);
 - a save between main's read of the rules (`main.go:65`) and the watching of their
   directory (`watcher.go:327`, or `:337` if the settings are elsewhere) raises no event:
   the engine runs the older rules until the next save, while `ConfigWatcher`, which
   reads in between (`:298`), may have the newer. If the watcher fails to start, that is
   logged and the process runs without one (`main.go:113`);
 - a save in two write events may be read while truncated and then debounced
   away (`watcher.go:177` against `05-CONFIG-REFERENCE.md:636`);
 - the API cleaner may remove a counter whose window is open (`middleware.go:381`
   against `:354`);
 - a push into a list the cleanup is dropping is lost (`local.go:306` against
   `:564`);
 - rule names need not be unique (`rules.go:175` against
   `05-CONFIG-REFERENCE.md:479`): `GrantBound` and `BaseBound` are stated for rule
   sets whose names are;
 - of two checkers with one name only one counts (`health.go:82` against `:91`);
   `WaitForReady` may fail with results that are all healthy (`:260` against
   `:259`);
 - "+1-5" is "any value", as "+" is a prefix before it is a sign;
 - a settings file that passes `ValidateConfig` may still stop start-up: a
   `max_size` of zero, or one whose product wraps to zero or less (`config.go:243`), is
   refused by the cache only, one that wraps to another size is used, and so is the
   default size if behind Redis it does not parse; the path of the rules file may be
   empty or lead nowhere (`validate.go:241`), on which main exits (`main.go:65`).
   A `reload_interval` of 0 means 30 seconds (`config.go:166`), so
   only a negative one disables watching. `isValidPort` (`validate.go:426`) accepts
   any text that begins with a port;
 - metrics are kept per route so that they do not grow without bound
   (`middleware.go:177`), but a request without a route is counted under its path
   (`:180`);
 - an error of ListenAndServe is fatal (`main.go:125`) and skips the
   deferred `store.Close` and `watcher.Stop`, and so does a signal that comes before
   `signal.Notify`.

## What is not modelled

 - The string cache of the local storage: a library's admission and eviction
   policy, unused by the limiter.
 - Redis connections and encodings; the manager sees outcomes only. `redis.New` does
   not connect and cannot fail. An operation takes effect once or not at all: that the
   client library sends a command again after its reply was lost, so that an increment
   or a push could count twice, is not modelled, and the bounds of `Engine` and
   `LeakBucket` are per command executed.
 - The durations kept with the metrics.
 - Logging, request ids, and the request timeout, which only ends the request's
   context: to `StorageManager` one more ended request.
 - Decoding of TOML; a file is what it decodes to.
 - `DictManager.Reload`, `ReloadDict` and `Dict.Merge`, `ReadinessManager`, and the
   accessors of the engine that only set a field: tests alone call them.
   Dictionaries that a reloaded rules file adds: no dictionary reaches the
   matchers after the start (`ReloadDict`), so there is nothing to say of them yet.
 - Texts: rule names and field values are taken to contain no ":" or "=".
 - Memory: expired counters nobody reads again stay in the map; nothing the
   limiter reads depends on them.

## Plan

Built so far, in this order: the engine with its abstract specification and proofs;
the storage under it (`LocalCounters`, `StorageManager`, `LocalLists`); freq;
what changes rules (`RuleLoading`, `HotReload`, `Matcher`); what surrounds them
(`APIRateLimit`, `Startup`); the process and its requests (`Server`); what is read
at start (`Settings`, `RuleValidation`); the engine's counter across a failover
(`FailoverCycle`, `Failover`); then the proofs of `StorageManager`, `LeakBucket`,
`Server`, `HotReload`, the three readers of `Inputs`, `Failover`, `LocalCounters`,
of `GrantBound` and `BaseBound` of `Engine`, of `Startup`, `LocalLists`,
`APIRateLimit` and `Matcher`. No safety property of a passing run is left to TLC alone.

Next, models: the dictionaries' own operations (`Reload`, `Merge` in opposite
directions), once anything but a test calls them; the engine's base rule over the
manager, as `Failover` has its count rule.
