---------------------------- MODULE HotReloadProofs ----------------------------
(***************************************************************************)
(* Proofs about the rules file, for any debounce time and any saves, at    *)
(* the start or later: the engine never goes back, and a save that raised  *)
(* an event that counts, or came before the file was first read, is not    *)
(* lost between the two readers of the file.                               *)
(***************************************************************************)
EXTENDS HotReload, SequenceTheorems, TLAPS

-------------------------------------------------------------------------------
(* The queue of events.                                                    *)

LEMMA Appended ==
  ASSUME NEW q \in Seq(Files), NEW f \in Files
  PROVE  /\ Append(q, f) \in Seq(Files)
         /\ \A i \in DOMAIN q : i \in DOMAIN Append(q, f) /\ Append(q, f)[i] = q[i]
         /\ \E i \in DOMAIN Append(q, f) : Append(q, f)[i] = f
<1>1. Len(q) \in Nat /\ DOMAIN q = 1..Len(q)
  BY LenProperties
<1>2. /\ Append(q, f) \in Seq(Files) /\ Len(Append(q, f)) = Len(q) + 1
      /\ \A i \in 1..Len(q) : Append(q, f)[i] = q[i]
      /\ Append(q, f)[Len(q) + 1] = f
  BY AppendProperties
<1>3. DOMAIN Append(q, f) = 1..(Len(q) + 1)
  BY <1>2, LenProperties
<1>4. Len(q) + 1 \in DOMAIN Append(q, f)
  BY <1>1, <1>3
<1> QED  BY <1>1, <1>2, <1>3, <1>4

LEMMA Popped ==
  ASSUME NEW q \in Seq(Files), q # <<>>
  PROVE  /\ Tail(q) \in Seq(Files) /\ Head(q) \in Files
         /\ \A i \in DOMAIN q : q[i] # Head(q) => \E j \in DOMAIN Tail(q) : Tail(q)[j] = q[i]
<1>1. Len(q) \in Nat /\ DOMAIN q = 1..Len(q) /\ Head(q) = q[1]
  BY LenProperties, HeadTailProperties
<1>2. /\ Tail(q) \in Seq(Files) /\ Head(q) \in Files /\ Len(Tail(q)) = Len(q) - 1
      /\ \A i \in 1..Len(Tail(q)) : Tail(q)[i] = q[i + 1]
  BY HeadTailProperties
<1>3. DOMAIN Tail(q) = 1..(Len(q) - 1)
  BY <1>2, LenProperties
<1>4. ASSUME NEW i \in DOMAIN q, q[i] # Head(q)
      PROVE  \E j \in DOMAIN Tail(q) : Tail(q)[j] = q[i]
  <2>1. i - 1 \in DOMAIN Tail(q) /\ Tail(q)[i - 1] = q[i]
    BY <1>1, <1>2, <1>3, <1>4
  <2> QED  BY <2>1
<1> QED  BY <1>2, <1>4

-------------------------------------------------------------------------------
(* Type correctness.                                                       *)

LEMMA TypesInit == Init => TypeOK
<1> SUFFICES ASSUME Init
             PROVE  TypeOK
  OBVIOUS
<1>1. Unread \in Versions /\ 1 \in Versions /\ Versions \subseteq Contents
  BY ReloadAssumption DEF Versions, Contents, Unread
<1>2. 1 \in 1..MaxTime /\ 0 \in 0..MaxTime
  BY ReloadAssumption
<1>3. events \in Seq(Files)
  BY EmptySeq DEF Init
<1>4. lastModified \in [Files -> 0..MaxTime]
  BY <1>2 DEF Init, Never
<1>5. disk \in [Files -> Contents]
  BY <1>1 DEF Init
<1>6. cancelled \in BOOLEAN /\ pc \in Starting
  BY DEF Init, Starting
<1> QED  BY <1>1, <1>2, <1>3, <1>4, <1>5, <1>6 DEF Init, TypeOK

\* Editors and the clock.
Outside == (\E f \in Files : Replace(f) \/ Truncate(f) \/ Write(f)) \/ Stop \/ Tick

LEMMA TypesOutside ==
  ASSUME TypeOK, Outside
  PROVE  TypeOK'
<1>1. ASSUME NEW f \in Files, Replace(f) \/ Truncate(f) \/ Write(f)
      PROVE  TypeOK'
  <2>1. events' \in Seq(Files)
    BY <1>1, Appended DEF TypeOK, Replace, Truncate, Write, Raise
  <2>2. saves' \in Versions /\ saves \in Versions
    BY <1>1, ReloadAssumption DEF TypeOK, Replace, Truncate, Write, Versions, Unread
  <2>3. disk' \in [Files -> Contents]
    BY <1>1, <2>2 DEF TypeOK, Replace, Truncate, Write, Contents
  <2>4. unheard' \subseteq Files
    BY <1>1 DEF TypeOK, Replace, Truncate, Write, Noted
  <2> QED  BY <1>1, <2>1, <2>2, <2>3, <2>4 DEF TypeOK, Replace, Truncate, Write, loaded
<1>2. CASE Stop
  BY <1>2 DEF Stop, TypeOK, loaded
<1>3. CASE Tick
  <2>1. now' \in 1..MaxTime
    BY <1>3, ReloadAssumption DEF Tick, TypeOK
  <2> QED  BY <1>3, <2>1 DEF Tick, TypeOK, watcher, loaded
<1> QED  BY <1>1, <1>2, <1>3 DEF Outside

LEMMA TypesStartUp ==
  ASSUME TypeOK, StartUp
  PROVE  TypeOK'
<1>0. disk \in [Files -> Contents] /\ "rules" \in Files /\ "dict" \in Files
  BY DEF TypeOK, Files
<1>1. disk["dict"] \in Contents /\ (disk["rules"] # Partial => disk["rules"] \in Versions)
  BY <1>0 DEF Contents
<1>2. CASE ReadRules
  BY <1>1, <1>2 DEF ReadRules, TypeOK, Starting
<1>3. CASE ReadDicts
  BY <1>1, <1>3 DEF ReadDicts, TypeOK, Starting
<1>4. CASE LoadRules
  BY <1>1, <1>4 DEF LoadRules, TypeOK, Starting
<1>5. CASE LoadDicts
  BY <1>1, <1>5 DEF LoadDicts, TypeOK, Starting
<1>6. CASE WatchConfig \/ WatchRules \/ WatchDicts \/ WatcherFails
  BY <1>6 DEF WatchConfig, WatchRules, WatchDicts, WatcherFails, TypeOK, Starting, Looping, loaded
<1> QED  BY <1>2, <1>3, <1>4, <1>5, <1>6 DEF StartUp

LEMMA TypesStep ==
  ASSUME TypeOK, [Next]_vars
  PROVE  TypeOK'
<1>1. CASE Outside
  BY <1>1, TypesOutside
<1>0. CASE StartUp
  BY <1>0, TypesStartUp
<1>2. CASE HandleEvent
  <2>1. events' \in Seq(Files) /\ file' \in Files
    BY <1>2, Popped DEF HandleEvent, TypeOK, Looping
  <2>2. lastModified' \in [Files -> 0..MaxTime]
    <3>1. now \in 0..MaxTime
      BY ReloadAssumption DEF TypeOK
    <3> QED  BY <1>2, <2>1, <3>1 DEF HandleEvent, TypeOK, Looping
  <2> QED  BY <1>2, <2>1, <2>2 DEF HandleEvent, TypeOK, Looping, loaded
<1>3. CASE OnRulesChange
  <2>1. rules' \in Versions
    BY <1>3 DEF OnRulesChange, TypeOK, Contents, Files
  <2> QED  BY <1>3, <2>1 DEF OnRulesChange, TypeOK, Looping
<1>4. CASE ReloadRules
  <2>1. engineRules' \in Versions
    BY <1>4 DEF ReloadRules, TypeOK, Contents, Files
  <2> QED  BY <1>4, <2>1 DEF ReloadRules, TypeOK, Looping
<1>5. CASE OnDictChange
  BY <1>5 DEF OnDictChange, TypeOK, Looping, Files
<1>6. CASE SyncDictsToMatcher
  BY <1>6 DEF SyncDictsToMatcher, TypeOK, Looping
<1>7. CASE LoopEnds
  BY <1>7 DEF LoopEnds, TypeOK, Looping, loaded
<1>8. CASE UNCHANGED vars
  BY <1>8 DEF vars, watcher, loaded, TypeOK
<1> QED  BY <1>0, <1>1, <1>2, <1>3, <1>4, <1>5, <1>6, <1>7, <1>8 DEF Next, Outside, Handle

-------------------------------------------------------------------------------
(* Versions only grow.                                                     *)

Growing ==
  /\ engineRules <= saves
  /\ \A f \in Files : disk[f] # Partial => disk[f] <= saves
  /\ disk["rules"] # Partial => engineRules <= disk["rules"]

LEMMA GrowingStep ==
  ASSUME TypeOK, Growing, [Next]_vars
  PROVE  Growing' /\ engineRules' \in Versions /\ engineRules' >= engineRules
<1>1. /\ saves \in Nat /\ engineRules \in Nat
      /\ \A f \in Files : disk[f] # Partial => disk[f] \in Nat
      /\ "rules" \in Files /\ "dict" \in Files /\ disk \in [Files -> Contents]
      /\ engineRules' \in Versions
  <2>1. engineRules' \in Versions
    BY TypesStep DEF TypeOK
  <2>2. "rules" \in Files /\ "dict" \in Files
    BY DEF Files
  <2>3. \A v \in Versions : v \in Nat
    BY ReloadAssumption DEF Versions, Unread
  <2>4. saves \in Versions /\ engineRules \in Versions /\ disk \in [Files -> Contents]
    BY DEF TypeOK
  <2>5. \A f \in Files : disk[f] # Partial => disk[f] \in Versions
    BY <2>4 DEF Contents
  <2> QED  BY <2>1, <2>2, <2>3, <2>4, <2>5
<1>2. ASSUME NEW f \in Files, Replace(f) \/ Truncate(f) \/ Write(f)
      PROVE  Growing' /\ engineRules' >= engineRules
  <2>1. engineRules' = engineRules /\ saves' \in Nat /\ saves <= saves'
    BY <1>1, <1>2 DEF Replace, Truncate, Write, loaded
  <2>2. \A g \in Files : disk'[g] # Partial => disk'[g] = disk[g] \/ (g = f /\ disk'[g] = saves')
    BY <1>1, <1>2 DEF Replace, Truncate, Write
  <2> QED  BY <1>1, <2>1, <2>2 DEF Growing
<1>3. CASE ReadRules \/ ReloadRules
  <2>1. /\ UNCHANGED <<saves, disk>>
        /\ engineRules' = engineRules \/ (disk["rules"] # Partial /\ engineRules' = disk["rules"])
    BY <1>3 DEF ReadRules, ReloadRules
  <2> QED  BY <1>1, <2>1 DEF Growing
<1>4. CASE HandleEvent \/ OnRulesChange \/ OnDictChange \/ SyncDictsToMatcher \/ LoopEnds
           \/ ReadDicts \/ LoadRules \/ LoadDicts \/ WatchConfig \/ WatchRules \/ WatchDicts \/ WatcherFails
           \/ Stop \/ Tick \/ UNCHANGED vars
  <2>1. UNCHANGED <<engineRules, saves, disk>>
    BY <1>4 DEF ReadDicts, LoadRules, LoadDicts, WatchConfig, WatchRules, WatchDicts,
                WatcherFails, HandleEvent, OnRulesChange, OnDictChange, SyncDictsToMatcher,
                LoopEnds, Stop, Tick, vars, loaded
  <2> QED  BY <1>1, <2>1 DEF Growing
<1> QED  BY <1>1, <1>2, <1>3, <1>4 DEF Next, Handle, StartUp

\* Whatever is saved between the reads of the start or those of one event, the engine
\* never takes a set older than it has.
THEOREM EngineNeverGoesBack == Spec => EngineMovesForward
<1>1. Init => TypeOK /\ Growing
  <2> SUFFICES ASSUME Init PROVE Growing
    BY TypesInit
  <2>1. "rules" \in Files /\ engineRules = 0 /\ saves = 1 /\ \A f \in Files : disk[f] = 1
    BY DEF Init, Files, Unread
  <2> QED  BY <2>1 DEF Growing
<1>2. TypeOK /\ Growing /\ [Next]_vars
        => (TypeOK /\ Growing)' /\ engineRules' \in Versions /\ engineRules' >= engineRules
  BY TypesStep, GrowingStep
<1> QED  BY <1>1, <1>2, PTL DEF Spec, EngineMovesForward

-------------------------------------------------------------------------------
(* What becomes of a save.                                                 *)

\* An event of the rules file waits, and will not be dropped.
Waiting ==
  /\ \E i \in DOMAIN events : events[i] = "rules"
  /\ ~Debounced("rules", now)

\* main has its rules, and ConfigWatcher is still to read the file.
HalfRead == {"read dicts", "load rules"}

\* A save that is not unheard is about to be read by both, is known to main and about to
\* be read by ConfigWatcher, waits in the queue, is about to be read for its event, is
\* between the two reads of that, or is known to both readers.
Heard ==
  "rules" \notin unheard /\ disk["rules"] # Partial =>
    \/ pc \in {"read rules", "exited", "unwatched"}
    \/ pc \in HalfRead /\ engineRules = disk["rules"]
    \/ Waiting
    \/ pc = "load" /\ file = "rules"
    \/ pc = "reload" /\ rules = disk["rules"]
    \/ pc \notin HalfRead \cup {"reload"} /\ rules = disk["rules"] /\ engineRules = disk["rules"]

LEMMA HeardStep ==
  ASSUME TypeOK, Heard, [Next]_vars
  PROVE  Heard'
<1>1. /\ now \in Nat /\ lastModified["rules"] \in Nat /\ Debounce \in Nat
      /\ events \in Seq(Files) /\ "rules" \in Files /\ disk \in [Files -> Contents]
  BY ReloadAssumption DEF TypeOK, Files
<1>2. ASSUME NEW f \in Files, Replace(f) \/ Truncate(f) \/ Write(f)
      PROVE  Heard'
  <2>1. /\ events' = Append(events, f) \/ (events' = events /\ ~Watched(f))
        /\ UNCHANGED <<now, lastModified, pc, file, rules, engineRules>>
        /\ f # "rules" /\ "rules" \notin unheard' => "rules" \notin unheard
    BY <1>2 DEF Replace, Truncate, Write, Noted, Raise, loaded
  <2>2. Waiting => Waiting'
    <3>1. \A i \in DOMAIN events : i \in DOMAIN events' /\ events'[i] = events[i]
      BY <1>1, <2>1, Appended
    <3>2. Debounced("rules", now)' <=> Debounced("rules", now)
      BY <2>1 DEF Debounced
    <3> QED  BY <3>1, <3>2 DEF Waiting
  <2>3. CASE f = "rules"
    <3> SUFFICES ASSUME "rules" \notin unheard', disk'["rules"] # Partial
                 PROVE  Waiting' \/ pc' = "read rules"
      BY DEF Heard
    <3>1. ~Truncate("rules")
      BY <1>1 DEF Truncate
    <3>2. pc = "read rules" \/ (Watched("rules") /\ ~Debounced("rules", now))
      BY <1>2, <2>3, <3>1 DEF Replace, Write, Noted, Taken
    <3>3. CASE Watched("rules") /\ ~Debounced("rules", now)
      <4>1. \E i \in DOMAIN events' : events'[i] = "rules"
        BY <1>1, <2>1, <2>3, <3>3, Appended
      <4>2. ~Debounced("rules", now)'
        BY <2>1, <3>3 DEF Debounced
      <4> QED  BY <4>1, <4>2 DEF Waiting
    <3> QED  BY <2>1, <3>2, <3>3
  <2>4. CASE f # "rules"
    <3>1. disk'["rules"] = disk["rules"]
      BY <1>1, <1>2, <2>4 DEF Replace, Truncate, Write
    <3> QED  BY <2>1, <2>2, <2>4, <3>1 DEF Heard, HalfRead
  <2> QED  BY <2>3, <2>4
<1>0. CASE StartUp
  <2>1. UNCHANGED <<now, disk, events, lastModified, unheard, file>>
    BY <1>0 DEF StartUp, ReadRules, ReadDicts, LoadRules, LoadDicts, WatchConfig, WatchRules, WatchDicts,
                WatcherFails
  <2>2. Waiting' <=> Waiting
    BY <2>1 DEF Waiting, Debounced
  <2>3. CASE ReadRules \/ ReadDicts
    BY <2>1, <2>2, <2>3 DEF ReadRules, ReadDicts, Heard, HalfRead
  <2>4. CASE LoadRules
    BY <2>1, <2>2, <2>4 DEF LoadRules, Heard, HalfRead
  <2>5. CASE LoadDicts \/ WatchConfig \/ WatchRules \/ WatchDicts \/ WatcherFails
    BY <2>1, <2>2, <2>5 DEF LoadDicts, WatchConfig, WatchRules, WatchDicts, WatcherFails, loaded, Heard, HalfRead
  <2> QED  BY <1>0, <2>3, <2>4, <2>5 DEF StartUp
<1>3. CASE HandleEvent
  <2>1. /\ pc = "select" /\ events # <<>> /\ events' = Tail(events) /\ file' = Head(events)
        /\ UNCHANGED <<now, disk, unheard, rules, engineRules>>
    BY <1>3 DEF HandleEvent, loaded
  <2>2. CASE Head(events) = "rules"
    <3>1. CASE Debounced("rules", now)
      BY <1>3, <2>1, <2>2, <3>1 DEF HandleEvent, Heard, HalfRead, Waiting
    <3>2. CASE ~Debounced("rules", now)
      BY <1>3, <2>1, <2>2, <3>2 DEF HandleEvent, Heard, HalfRead
    <3> QED  BY <3>1, <3>2
  <2>3. CASE Head(events) # "rules"
    <3>1. lastModified'["rules"] = lastModified["rules"] /\ pc' \in {"select", "load"}
      BY <1>1, <1>3, <2>1, <2>3 DEF HandleEvent, TypeOK
    <3>2. Waiting => Waiting'
      <4>1. \A i \in DOMAIN events : events[i] = "rules"
               => \E j \in DOMAIN Tail(events) : Tail(events)[j] = "rules"
        BY <1>1, <2>1, <2>3, Popped
      <4> QED  BY <2>1, <3>1, <4>1 DEF Waiting, Debounced
    <3> QED  BY <2>1, <3>1, <3>2 DEF Heard, HalfRead
  <2> QED  BY <2>2, <2>3
<1>4. CASE OnRulesChange \/ ReloadRules
  <2>1. UNCHANGED <<now, disk, events, lastModified, unheard>>
    BY <1>4 DEF OnRulesChange, ReloadRules
  <2>2. Waiting' <=> Waiting
    BY <2>1 DEF Waiting, Debounced
  <2> QED  BY <1>4, <2>1, <2>2 DEF OnRulesChange, ReloadRules, Heard, HalfRead
<1>5. CASE OnDictChange \/ SyncDictsToMatcher \/ LoopEnds \/ Stop \/ UNCHANGED vars
  <2>1. /\ UNCHANGED <<now, disk, events, lastModified, unheard, rules, engineRules, file>>
        /\ pc' = pc \/ (/\ pc \in {"select", "load", "sync"} /\ pc' \in {"select", "sync", "done"}
                      /\ ~(pc = "load" /\ file = "rules"))
    BY <1>5 DEF OnDictChange, SyncDictsToMatcher, LoopEnds, Stop, vars, watcher, loaded
  <2>2. Waiting' <=> Waiting
    BY <2>1 DEF Waiting, Debounced
  <2> QED  BY <2>1, <2>2 DEF Heard, HalfRead
<1>6. CASE Tick
  <2>1. Waiting => Waiting'
    BY <1>1, <1>6 DEF Tick, watcher, Waiting, Debounced
  <2> QED  BY <1>6, <2>1 DEF Tick, watcher, loaded, Heard
<1> QED  BY <1>0, <1>2, <1>3, <1>4, <1>5, <1>6 DEF Next, Handle

\* Once the watcher runs and the rules file is quiet, the engine and ConfigWatcher both
\* have the last save, unless it raised no event that counts: for any debounce time
\* and number of saves, at every moment of the start and of the handlers.
THEOREM ReadersAlwaysAgree == Spec => []ReadersAgree
<1>1. Init => TypeOK /\ Heard
  BY TypesInit DEF Init, Heard
<1>2. TypeOK /\ Heard /\ [Next]_vars => (TypeOK /\ Heard)'
  BY TypesStep, HeardStep
<1>3. TypeOK /\ Heard => ReadersAgree
  <2> SUFFICES ASSUME TypeOK, Heard, Quiet, "rules" \notin unheard, disk["rules"] # Partial
               PROVE  engineRules = disk["rules"] /\ rules = disk["rules"]
    BY DEF ReadersAgree
  <2>1. ~Waiting
    BY DEF Quiet, Waiting
  <2> QED  BY <2>1 DEF Heard, HalfRead, Quiet
<1> QED  BY <1>1, <1>2, <1>3, PTL DEF Spec

===============================================================================
