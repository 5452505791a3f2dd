------------------------------ MODULE HotReload ------------------------------
(***************************************************************************)
(* The rules file and a dictionary file, from the start of the process on: *)
(* main and startConfigWatcher (cmd/koala/main.go), which read them one    *)
(* after the other before anything is watched, the Watcher and             *)
(* ConfigWatcher of internal/config/watcher.go, and SyncDictsToMatcher     *)
(* (internal/engine/dict_bridge.go).                                       *)
(*                                                                         *)
(* A file holds a version, a number that grows with every save, or Partial *)
(* while an editor has truncated it and not yet written it.  A truncated   *)
(* rules file does not load (it has no version field); a truncated         *)
(* dictionary loads, as one without entries.                               *)
(***************************************************************************)
EXTENDS Naturals, Sequences

CONSTANTS Partial,
          Directory,   \* of "config" (the settings file) and of each of the Files
          SaveKinds,   \* how files are saved: "replace" (one event), "rewrite" (two)
          Debounce,
          MaxTime,     \* bound: clock ticks
          MaxVersion   \* bound: the first version and one more per save

ASSUME ReloadAssumption ==
  /\ Partial \notin Nat
  /\ SaveKinds \subseteq {"replace", "rewrite"}
  /\ Debounce \in Nat /\ MaxTime \in Nat \ {0} /\ MaxVersion \in Nat \ {0}

Files == {"rules", "dict"}
Unread == 0
Versions == Unread..MaxVersion
Contents == Versions \cup {Partial}
Never == 0

\* Where main is until the watcher runs, and the eventLoop after that.
Starting == {"read rules", "read dicts", "load rules", "load dicts",
             "watch config", "watch rules", "watch dicts"}
Looping == {"select", "load", "reload", "sync", "done"}

VARIABLES now,
          disk,           \* file -> content
          saves,          \* the version last begun
          events,         \* fsWatcher.Events
          lastModified,   \* file -> when its last event was not debounced
          pc, file,       \* main, then eventLoop, and the file of the event it handles
          rules,          \* ConfigWatcher.rules
          dicts,          \* ConfigWatcher.dicts: the dictionary's content
          engineRules,    \* the rule set of the engine
          dictManager,    \* main's DictManager: the dictionary's content
          matcherDict,    \* the dictionary the matchers use
          cancelled,      \* Stop has cancelled the context
          unheard         \* history: files whose last save raised no event that is handled

watcher == <<events, lastModified, pc, file, cancelled>>
loaded == <<rules, dicts, engineRules, dictManager, matcherDict>>
vars == <<now, disk, saves, watcher, loaded, unheard>>

TypeOK ==
  /\ now \in 1..MaxTime
  /\ disk \in [Files -> Contents] /\ saves \in Versions
  /\ events \in Seq(Files)
  /\ lastModified \in [Files -> 0..MaxTime]
  /\ pc \in Starting \cup Looping \cup {"exited", "unwatched"} /\ file \in Files
  /\ rules \in Versions /\ engineRules \in Versions
  /\ dicts \in Contents /\ dictManager \in Contents /\ matcherDict \in Contents
  /\ cancelled \in BOOLEAN
  /\ unheard \subseteq Files

\* main has its settings and its storage.  The clock starts past the first debounce,
\* as lastModified starts at the zero time.
Init ==
  /\ now = 1
  /\ disk = [f \in Files |-> 1] /\ saves = 1
  /\ events = <<>>
  /\ lastModified = [f \in Files |-> Never]
  /\ pc = "read rules" /\ file \in Files
  /\ rules = Unread /\ dicts = Unread
  /\ engineRules = Unread /\ dictManager = Unread /\ matcherDict = Unread
  /\ cancelled = FALSE
  /\ unheard = {}

-------------------------------------------------------------------------------
(* The start.                                                              *)

\* main reads the rules and hands them to the engine; without them it exits.
ReadRules ==
  /\ pc = "read rules"
  /\ IF disk["rules"] = Partial
       THEN pc' = "exited" /\ UNCHANGED engineRules
       ELSE pc' = "read dicts" /\ engineRules' = disk["rules"]
  /\ UNCHANGED <<now, disk, saves, events, lastModified, file, cancelled,
                 rules, dicts, dictManager, matcherDict, unheard>>

\* The dictionaries follow, and go to the matchers.
ReadDicts ==
  /\ pc = "read dicts"
  /\ dictManager' = disk["dict"] /\ matcherDict' = dictManager'
  /\ pc' = "load rules"
  /\ UNCHANGED <<now, disk, saves, events, lastModified, file, cancelled,
                 rules, dicts, engineRules, unheard>>

\* ConfigWatcher.Load reads the files again, for itself.
LoadRules ==
  /\ pc = "load rules"
  /\ disk["rules"] # Partial
  /\ rules' = disk["rules"]
  /\ pc' = "load dicts"
  /\ UNCHANGED <<now, disk, saves, events, lastModified, file, cancelled,
                 dicts, engineRules, dictManager, matcherDict, unheard>>

LoadDicts ==
  /\ pc = "load dicts"
  /\ dicts' = disk["dict"]
  /\ pc' = "watch config"
  /\ UNCHANGED <<now, disk, saves, events, lastModified, file, cancelled,
                 rules, engineRules, dictManager, matcherDict, unheard>>

\* StartWatching: the directory of the settings, that of the rules, then that of the
\* dictionary; then the loop starts, and finds the events that came since.
WatchConfig ==
  /\ pc = "watch config"
  /\ pc' = "watch rules"
  /\ UNCHANGED <<now, disk, saves, events, lastModified, file, cancelled, loaded, unheard>>

WatchRules ==
  /\ pc = "watch rules"
  /\ pc' = "watch dicts"
  /\ UNCHANGED <<now, disk, saves, events, lastModified, file, cancelled, loaded, unheard>>

WatchDicts ==
  /\ pc = "watch dicts"
  /\ pc' = "select"
  /\ UNCHANGED <<now, disk, saves, events, lastModified, file, cancelled, loaded, unheard>>

\* startConfigWatcher fails: no inotify instance is to be had, a settings or rules file
\* does not load any more, a directory cannot be watched.  main logs that and goes on.
WatcherFails ==
  /\ pc \in Starting \ {"read rules", "read dicts"}
  /\ pc' = "unwatched"
  /\ UNCHANGED <<now, disk, saves, events, lastModified, file, cancelled, loaded, unheard>>

StartUp ==
  \/ ReadRules \/ ReadDicts \/ LoadRules \/ LoadDicts
  \/ WatchConfig \/ WatchRules \/ WatchDicts \/ WatcherFails

-------------------------------------------------------------------------------
(* The editors.                                                            *)

\* main has read the file, and keeps what it read until it hears of another save.
Taken(f) == pc # "read rules" /\ (f = "dict" => pc # "read dicts")

\* Of a directory that is watched every file raises events, wanted or not.
Watched(f) ==
  \/ pc \in Looping
  \/ pc \in {"watch rules", "watch dicts"} /\ Directory[f] = Directory["config"]
  \/ pc = "watch dicts" /\ Directory[f] = Directory["rules"]

Debounced(f, t) == lastModified[f] # Never /\ t - lastModified[f] < Debounce

\* History: a save after main has read its file, and before the file is watched or
\* so soon after an event of it that its own is debounced.
Noted(f) ==
  unheard' = IF Taken(f) /\ (Watched(f) => Debounced(f, now)) THEN unheard \cup {f}
             ELSE unheard \ {f}

\* inotify reports what happens in a watched directory.
Raise(f) == events' = IF Watched(f) THEN Append(events, f) ELSE events

\* A new file is renamed over the old one: one Create event.
Replace(f) ==
  /\ "replace" \in SaveKinds
  /\ disk[f] # Partial
  /\ saves < MaxVersion
  /\ saves' = saves + 1
  /\ disk' = [disk EXCEPT ![f] = saves']
  /\ Raise(f)
  /\ Noted(f)
  /\ UNCHANGED <<now, lastModified, pc, file, cancelled, loaded>>

\* The file is truncated, then written: two Write events.
Truncate(f) ==
  /\ "rewrite" \in SaveKinds
  /\ disk[f] # Partial
  /\ saves < MaxVersion
  /\ saves' = saves + 1
  /\ disk' = [disk EXCEPT ![f] = Partial]
  /\ Raise(f)
  /\ UNCHANGED <<now, lastModified, pc, file, cancelled, loaded, unheard>>

Write(f) ==
  /\ disk[f] = Partial
  /\ disk' = [disk EXCEPT ![f] = saves]
  /\ Raise(f)
  /\ Noted(f)
  /\ UNCHANGED <<now, saves, lastModified, pc, file, cancelled, loaded>>

-------------------------------------------------------------------------------
(* eventLoop and handleEvent.                                              *)

\* Mutant: an event with others behind it is taken for a duplicate.
HandleLastEvent ==
  /\ pc = "select" /\ events # <<>>
  /\ events' = Tail(events)
  /\ file' = Head(events)
  /\ IF Debounced(file', now) \/ Tail(events) # <<>>
       THEN UNCHANGED <<lastModified, pc>>
       ELSE /\ lastModified' = [lastModified EXCEPT ![file'] = now]
            /\ pc' = "load"
  /\ UNCHANGED <<now, disk, saves, cancelled, loaded, unheard>>

\* An event of a file whose last one was handled less than Debounce ago is
\* dropped.
HandleEvent ==
  /\ pc = "select" /\ events # <<>>
  /\ events' = Tail(events)
  /\ file' = Head(events)
  /\ IF Debounced(file', now)
       THEN UNCHANGED <<lastModified, pc>>
       ELSE /\ lastModified' = [lastModified EXCEPT ![file'] = now]
            /\ pc' = "load"
  /\ UNCHANGED <<now, disk, saves, cancelled, loaded, unheard>>

\* onRulesChange: the file is read; a file that does not load is reported to the
\* callback, which then does nothing.
OnRulesChange ==
  /\ pc = "load" /\ file = "rules"
  /\ IF disk["rules"] = Partial
       THEN pc' = "select" /\ UNCHANGED rules
       ELSE pc' = "reload" /\ rules' = disk["rules"]
  /\ UNCHANGED <<now, disk, saves, events, lastModified, file, cancelled,
                 dicts, engineRules, dictManager, matcherDict, unheard>>

\* Mutant: the callback does not look at the error of its own read.
ReloadRulesUnchecked ==
  /\ pc = "reload"
  /\ engineRules' = disk["rules"]
  /\ pc' = "select"
  /\ UNCHANGED <<now, disk, saves, events, lastModified, file, cancelled,
                 rules, dicts, dictManager, matcherDict, unheard>>

\* Mutant: the rules are read but not handed to the engine.
ReloadRulesOnly ==
  /\ pc = "reload"
  /\ pc' = "select"
  /\ UNCHANGED <<now, disk, saves, events, lastModified, file, cancelled, loaded, unheard>>

\* The callback reads the file again, and the engine takes what it finds.
ReloadRules ==
  /\ pc = "reload"
  /\ engineRules' = IF disk["rules"] = Partial THEN engineRules ELSE disk["rules"]
  /\ pc' = "select"
  /\ UNCHANGED <<now, disk, saves, events, lastModified, file, cancelled,
                 rules, dicts, dictManager, matcherDict, unheard>>

\* onDictChange: the ConfigWatcher's own dictionaries take what the file holds.
OnDictChange ==
  /\ pc = "load" /\ file = "dict"
  /\ dicts' = disk["dict"]
  /\ pc' = "sync"
  /\ UNCHANGED <<now, disk, saves, events, lastModified, file, cancelled,
                 rules, engineRules, dictManager, matcherDict, unheard>>

\* The callback hands the matchers the dictionaries of main's DictManager.
SyncDictsToMatcher ==
  /\ pc = "sync"
  /\ matcherDict' = dictManager
  /\ pc' = "select"
  /\ UNCHANGED <<now, disk, saves, events, lastModified, file, cancelled,
                 rules, dicts, engineRules, dictManager, unheard>>

\* main defers Stop once the watcher runs.  It cancels the context; eventLoop sees it at
\* its next select, which may choose a waiting event first.
Stop ==
  /\ pc \in Looping /\ ~cancelled
  /\ cancelled' = TRUE
  /\ UNCHANGED <<now, disk, saves, events, lastModified, pc, file, loaded, unheard>>

\* Mutant: the loop looks at the context only after an event.
LoopEndsAfterEvent ==
  /\ pc = "select" /\ cancelled
  /\ events # <<>>
  /\ pc' = "done"
  /\ UNCHANGED <<now, disk, saves, events, lastModified, file, cancelled, loaded, unheard>>

LoopEnds ==
  /\ pc = "select" /\ cancelled
  /\ pc' = "done"
  /\ UNCHANGED <<now, disk, saves, events, lastModified, file, cancelled, loaded, unheard>>

Tick ==
  /\ now < MaxTime
  /\ now' = now + 1
  /\ UNCHANGED <<disk, saves, watcher, loaded, unheard>>

Handle == HandleEvent \/ OnRulesChange \/ ReloadRules \/ OnDictChange \/ SyncDictsToMatcher

Next ==
  \/ StartUp
  \/ \E f \in Files : Replace(f) \/ Truncate(f) \/ Write(f)
  \/ Handle
  \/ Stop \/ LoopEnds
  \/ Tick

Spec == Init /\ [][Next]_vars

\* main and the loop's goroutine are scheduled, an editor that has truncated a file
\* writes it, and time passes.
FairSpec ==
  /\ Spec
  /\ WF_vars(StartUp) /\ WF_vars(Handle) /\ SF_vars(LoopEnds)
  /\ \A f \in Files : WF_vars(Write(f))
  /\ WF_vars(Tick)

-------------------------------------------------------------------------------
(* Properties.                                                             *)

\* The rules are read twice at the start and twice for every event, with no lock over
\* the file, and saves go on meanwhile: the engine still never takes a set that did
\* not load, nor one older than it has.
EngineMovesForward == [][engineRules' \in Versions /\ engineRules' >= engineRules]_vars

\* The rules file has two readers, main (the callback) and ConfigWatcher, and each reads
\* it by itself.  Once the watcher runs, the file is whole and its events are handled,
\* the engine runs the rules of the last save and ConfigWatcher reports the same: the
\* event of a save between the two reads brings them together.  This does not hold
\* of a save that raised no event that counts, one after main.go:65 and before the
\* directory is watched (watcher.go:327, or :337 if the settings are elsewhere), or one
\* debounced; nothing repairs that but a later save.
Quiet == pc = "select" /\ events = <<>>
ReadersAgree ==
  /\ TypeOK
  /\ Quiet /\ "rules" \notin unheard /\ disk["rules"] # Partial =>
       engineRules = disk["rules"] /\ rules = disk["rules"]

\* Of a burst of saves the debounce drops the later events and handles the first, and
\* main starts with whatever it finds: a save may be missed, but while the last one
\* was in time to be read at the start or to be heard, it reaches the engine.  It takes
\* that the process starts, with its watcher.
UnhurriedSavesTakeEffect ==
  "rules" \notin unheard /\ ~cancelled
    ~> \/ engineRules = disk["rules"]
       \/ "rules" \in unheard \/ cancelled
       \/ pc \in {"exited", "unwatched"}

\* Stop waits for the loop, which always comes back to its select.
StopReturns == cancelled ~> pc = "done"

\* 05-CONFIG-REFERENCE.md:634: dictionary files support hot reload.
DictSavesTakeEffect ==
  Quiet /\ "dict" \notin unheard /\ disk["dict"] # Partial => matcherDict = disk["dict"]
==============================================================================
