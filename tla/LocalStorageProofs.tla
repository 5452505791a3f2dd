-------------------------- MODULE LocalStorageProofs ---------------------------
(***************************************************************************)
(* Proofs about the local storage, for any goroutines, keys, times and     *)
(* offsets: the deadlines of counters stand, and a window is lost before   *)
(* its end only to a GetInt that deletes an entry it had not looked at;    *)
(* lists are sliced as Redis slices them, and what the cleanup can take    *)
(* along with them is bounded.                                             *)
(***************************************************************************)
EXTENDS LocalCounters, LocalLists, FiniteSetTheorems, SequenceTheorems, TLAPS

-------------------------------------------------------------------------------
(* There is room for every entry.                                          *)

\* Threads that may still allocate an entry they have been counted for.
Entering == {t \in Threads : pc[t] = "enter"}

Room == allocated + Cardinality(Entering) <= updates

\* A call that is under way has its arguments, and the entry it works on.
Underway(t) ==
  /\ pc[t] # "idle" => call[t] \in Request
  /\ pc[t] = "install" => call[t].op = "SetInt"
  /\ pc[t] \in {"inspect", "load", "evict", "install", "add"} => held[t] \in Ids

TypeInv == TypeOK /\ Room /\ \A t \in Threads : Underway(t)

LEMMA ThreadsCounted ==
  ASSUME NEW S \in SUBSET Threads
  PROVE  IsFiniteSet(S) /\ Cardinality(S) \in Nat
BY CountersAssumption, FS_Subset, FS_CardinalityType

LEMMA SameRoom ==
  ASSUME TypeInv, UNCHANGED <<allocated, updates>>, NEW t \in Threads, NEW place \in PCs \ {"enter"},
         Goto(t, place), pc[t] # "enter"
  PROVE  Room'
<1>1. Entering' = Entering
  BY DEF Entering, Goto, TypeInv, TypeOK
<1> QED  BY <1>1 DEF Room, TypeInv

LEMMA TypesInit == Init => TypeInv
<1> SUFFICES ASSUME Init  PROVE TypeInv
  OBVIOUS
<1>1. Entering = {} /\ Cardinality({}) = 0
  BY FS_EmptySet DEF Init, Entering
<1>2. Room
  BY <1>1 DEF Init, Room
<1>3. 1 \in 1..MaxTime /\ 0 \in 0..MaxUpdates /\ <<>> \in Seq(Ids) /\ 0 \in Nat
  BY CountersAssumption, EmptySeq
<1>4. TypeOK
  BY <1>3 DEF Init, TypeOK, PCs, Nil, NoExpiry
<1> QED  BY <1>2, <1>4 DEF Init, TypeInv, Underway

\* Numbers and records.
LEMMA Facts ==
  ASSUME TypeInv
  PROVE  /\ now \in Nat /\ now >= 1 /\ allocated \in Nat /\ updates \in Nat /\ MaxUpdates \in Nat
         /\ allocated <= updates /\ updates <= MaxUpdates
         /\ \A d \in TTLs : Deadline(d) \in Nat /\ d \in Nat
         /\ \A t \in Threads : pc[t] # "idle" => /\ call[t].key \in Keys /\ call[t].op \in Ops
                                                 /\ call[t].ttl \in TTLs
<1>1. now \in Nat /\ now >= 1 /\ allocated \in Nat /\ updates \in Nat /\ updates <= MaxUpdates
      /\ MaxUpdates \in Nat
  BY CountersAssumption DEF TypeInv, TypeOK
<1>2. Cardinality(Entering) \in Nat
  BY ThreadsCounted DEF Entering
<1>3. allocated <= updates
  BY <1>1, <1>2 DEF TypeInv, Room
<1>4. \A d \in TTLs : Deadline(d) \in Nat /\ d \in Nat
  BY <1>1, CountersAssumption DEF Deadline, NoExpiry
<1>5. \A t \in Threads : pc[t] # "idle" => /\ call[t].key \in Keys /\ call[t].op \in Ops
                                           /\ call[t].ttl \in TTLs
  BY DEF TypeInv, Underway, Request
<1> QED  BY <1>1, <1>3, <1>4, <1>5

\* What a step of t leaves alone.
LEMMA OthersUnderway ==
  ASSUME TypeInv, NEW t \in Threads, NEW d \in Threads \ {t},
         pc'[d] = pc[d], call'[d] = call[d], held'[d] = held[d]
  PROVE  Underway(d)'
BY DEF TypeInv, Underway

LEMMA ReturnsTyped ==
  ASSUME TypeInv, NEW t \in Threads, Return(t), pc[t] # "enter", UNCHANGED <<allocated, updates>>
  PROVE  /\ pc' \in [Threads -> PCs] /\ held' \in [Threads -> Ids \cup {Nil}]
         /\ call' \in [Threads -> Request \cup {Idle}]
         /\ Room' /\ \A d \in Threads : Underway(d)'
<1>1. /\ pc' \in [Threads -> PCs] /\ held' \in [Threads -> Ids \cup {Nil}]
      /\ call' \in [Threads -> Request \cup {Idle}] /\ pc'[t] = "idle"
      /\ \A d \in Threads \ {t} : pc'[d] = pc[d] /\ call'[d] = call[d] /\ held'[d] = held[d]
  BY DEF Return, Goto, TypeInv, TypeOK, PCs
<1>2. Room'
  BY SameRoom DEF Return, PCs
<1>3. Underway(t)'
  BY <1>1 DEF Underway
<1> QED  BY <1>1, <1>2, <1>3, OthersUnderway

LEMMA InstalledTyped ==
  ASSUME TypeInv, NEW t \in Threads, NEW k \in Keys, NEW e \in Ids, call[t].op \in Ops,
         Installed(k, e, t)
  PROVE  /\ counters' \in [Keys -> Ids \cup {Nil}]
         /\ log' \in [Keys -> Seq(Ids)]
         /\ born' \in [Ids -> Nat] /\ maker' \in [Ids -> Ops \cup {"none"}]
<1>1. log \in [Keys -> Seq(Ids)] /\ Append(log[k], e) \in Seq(Ids)
  BY AppendProperties DEF TypeInv, TypeOK
<1>2. log' \in [Keys -> Seq(Ids)]
  BY <1>1 DEF Installed
<1>3. now \in Nat
  BY Facts
<1> QED  BY <1>2, <1>3 DEF Installed, TypeInv, TypeOK

\* A call is counted when it begins, so that an entry is there for it.
LEMMA CallTyped ==
  ASSUME TypeInv, NEW t \in Threads, NEW o \in Ops, NEW k \in Keys, NEW d \in TTLs, Call(t, o, k, d)
  PROVE  TypeInv'
<1>0. /\ o \in AllOps /\ pc[t] = "idle" /\ Deadline(d) \in Nat /\ allocated <= updates
      /\ allocated \in Nat /\ updates \in Nat /\ MaxUpdates \in Nat /\ updates <= MaxUpdates
  BY Facts, CountersAssumption DEF Call
<1>1. /\ pc' = [pc EXCEPT ![t] = FirstStep(o)]
      /\ call' = [call EXCEPT ![t] = [op |-> o, key |-> k, ttl |-> d]]
      /\ FirstStep(o) = IF o = "GetInt" THEN "lookup" ELSE IF o = "SetInt" THEN "install" ELSE "enter"
  BY <1>0 DEF Call, Goto, FirstStep, AllOps
<1>2. /\ pc' \in [Threads -> PCs] /\ pc'[t] = FirstStep(o)
      /\ call' \in [Threads -> Request \cup {Idle}] /\ call'[t] = [op |-> o, key |-> k, ttl |-> d]
      /\ \A u \in Threads \ {t} : pc'[u] = pc[u] /\ call'[u] = call[u]
  BY <1>1 DEF TypeInv, TypeOK, PCs, Request
<1>3. /\ Cardinality(Entering) \in Nat /\ IsFiniteSet(Entering) /\ t \notin Entering
      /\ allocated + Cardinality(Entering) <= updates
  BY <1>0, ThreadsCounted DEF Entering, TypeInv, Room
<1>4. CASE o = "SetInt"
  <2>1. /\ allocated' = allocated + 1 /\ updates' = updates + 1 /\ updates < MaxUpdates
        /\ held' = [held EXCEPT ![t] = allocated']
        /\ expires' = [expires EXCEPT ![allocated'] = Deadline(d)]
    BY <1>4 DEF Call
  <2>2. allocated' \in Ids /\ allocated' \in 0..MaxUpdates /\ updates' \in 0..MaxUpdates
    BY <1>0, <2>1 DEF Ids
  <2>3. Entering' = Entering
    BY <1>0, <1>1, <1>2, <1>4 DEF Entering
  <2>4. Room'
    BY <1>0, <1>3, <2>1, <2>3 DEF Room
  <2>5. TypeOK'
    BY <1>0, <1>2, <2>1, <2>2 DEF TypeInv, TypeOK, Call, history
  <2>6. ASSUME NEW u \in Threads  PROVE Underway(u)'
    <3>1. CASE u = t
      <4>1. call'[t] \in Request /\ call'[t].op = "SetInt" /\ held'[t] \in Ids
        BY <1>2, <1>4, <2>1, <2>2 DEF Request, TypeInv, TypeOK
      <4> QED  BY <3>1, <4>1 DEF Underway
    <3>2. CASE u # t
      <4>1. held'[u] = held[u]
        BY <2>1, <3>2 DEF TypeInv, TypeOK
      <4> QED  BY <1>2, <3>2, <4>1, OthersUnderway
    <3> QED  BY <3>1, <3>2
  <2> QED  BY <2>4, <2>5, <2>6 DEF TypeInv
<1>5. CASE o # "SetInt"
  <2>1. /\ updates' = IF o = "GetInt" THEN updates ELSE updates + 1
        /\ o # "GetInt" => updates < MaxUpdates
        /\ UNCHANGED <<allocated, expires, held>>
    BY <1>5 DEF Call
  <2>2. updates' \in 0..MaxUpdates
    BY <1>0, <2>1
  <2>3. Room'
    <3>1. CASE o = "GetInt"
      <4>1. Entering' = Entering
        BY <1>0, <1>1, <1>2, <3>1 DEF Entering
      <4> QED  BY <2>1, <3>1, <4>1 DEF Room, TypeInv
    <3>2. CASE o # "GetInt"
      <4>1. Entering' = Entering \cup {t}
        BY <1>1, <1>2, <1>5, <3>2 DEF Entering
      <4>2. Cardinality(Entering \cup {t}) = Cardinality(Entering) + 1
        BY <1>3, FS_AddElement
      <4> QED  BY <1>0, <1>3, <2>1, <3>2, <4>1, <4>2 DEF Room
    <3> QED  BY <3>1, <3>2
  <2>4. TypeOK'
    BY <1>2, <2>1, <2>2 DEF TypeInv, TypeOK, Call, history
  <2>5. ASSUME NEW u \in Threads  PROVE Underway(u)'
    <3>1. CASE u = t
      <4>1. call'[t] \in Request
        BY <1>2 DEF Request
      <4>2. pc'[t] \in {"lookup", "enter"}
        BY <1>1, <1>2, <1>5
      <4> QED  BY <3>1, <4>1, <4>2 DEF Underway
    <3>2. CASE u # t
      BY <1>2, <2>1, <3>2, OthersUnderway
    <3> QED  BY <3>1, <3>2
  <2> QED  BY <2>3, <2>4, <2>5 DEF TypeInv
<1> QED  BY <1>4, <1>5

LEMMA EnterTyped ==
  ASSUME TypeInv, NEW t \in Threads, Enter(t)
  PROVE  TypeInv'
<1>0. /\ pc[t] = "enter" /\ Key(t) \in Keys /\ call[t].op \in Ops
      /\ call[t].ttl \in TTLs /\ Deadline(call[t].ttl) \in Nat
      /\ allocated \in Nat /\ updates \in Nat /\ MaxUpdates \in Nat /\ updates <= MaxUpdates
  BY Facts DEF Enter, Key
<1>1. /\ pc' \in [Threads -> PCs] /\ pc'[t] = "add"
      /\ call' = call /\ updates' = updates
      /\ \A u \in Threads \ {t} : pc'[u] = pc[u]
  BY DEF Enter, Goto, TypeInv, TypeOK, PCs
<1>2. Entering' = Entering \ {t} /\ t \in Entering
  BY <1>0, <1>1 DEF Entering
<1>3. /\ Cardinality(Entering) \in Nat /\ Cardinality(Entering \ {t}) \in Nat
      /\ Cardinality(Entering \ {t}) = Cardinality(Entering) - 1
      /\ allocated + Cardinality(Entering) <= updates
  <2>1. IsFiniteSet(Entering) /\ Cardinality(Entering) \in Nat /\ Cardinality(Entering \ {t}) \in Nat
    BY ThreadsCounted DEF Entering
  <2> QED  BY <1>2, <2>1, FS_RemoveElement DEF TypeInv, Room
<1>4. /\ held' \in [Threads -> Ids \cup {Nil}] /\ held'[t] \in Ids
      /\ \A u \in Threads \ {t} : held'[u] = held[u]
      /\ allocated' \in {allocated, allocated + 1}
      /\ allocated' \in 0..MaxUpdates
      /\ expires' \in [Ids -> Nat] /\ counters' \in [Keys -> Ids \cup {Nil}]
      /\ log' \in [Keys -> Seq(Ids)]
      /\ born' \in [Ids -> Nat] /\ maker' \in [Ids -> Ops \cup {"none"}]
  <2> DEFINE current == counters[Key(t)]
  <2>1. CASE current # Nil /\ ~Expired(current)
    <3>1. held' = [held EXCEPT ![t] = current]
          /\ UNCHANGED <<counters, allocated, expires, log, born, maker>>
      BY <2>1 DEF Enter
    <3>2. current \in Ids
      BY <1>0, <2>1 DEF TypeInv, TypeOK
    <3> QED  BY <3>1, <3>2 DEF TypeInv, TypeOK
  <2>2. CASE ~(current # Nil /\ ~Expired(current))
    <3>1. /\ allocated' = allocated + 1
          /\ held' = [held EXCEPT ![t] = allocated']
          /\ expires' = [expires EXCEPT ![allocated'] = IF call[t].op = "IncrWithTTL"
                                                         THEN Deadline(call[t].ttl)
                                                         ELSE NoExpiry]
          /\ Installed(Key(t), allocated', t)
      BY <2>2 DEF Enter
    <3>2. allocated' \in Ids /\ allocated' \in 0..MaxUpdates
      BY <1>0, <1>3, <3>1 DEF Ids
    <3>3. expires' \in [Ids -> Nat]
      BY <1>0, <3>1, <3>2 DEF NoExpiry, TypeInv, TypeOK
    <3>4. PICK e \in Ids : e = allocated'
      BY <3>2
    <3>5. Installed(Key(t), e, t)
      BY <3>1, <3>4 DEF Installed
    <3> QED  BY <1>0, <3>1, <3>2, <3>3, <3>5, InstalledTyped DEF TypeInv, TypeOK
  <2> QED  BY <2>1, <2>2
<1>5. Room'
  BY <1>0, <1>1, <1>2, <1>3, <1>4 DEF Room
<1>6. TypeOK'
  BY <1>1, <1>4 DEF Enter, TypeInv, TypeOK
<1>7. ASSUME NEW u \in Threads  PROVE Underway(u)'
  <2>1. CASE u = t
    BY <1>0, <1>1, <1>4, <2>1 DEF Underway, TypeInv
  <2>2. CASE u # t
    BY <1>1, <1>4, <2>2, OthersUnderway
  <2> QED  BY <2>1, <2>2
<1> QED  BY <1>5, <1>6, <1>7 DEF TypeInv

\* The other steps allocate nothing.
LEMMA TypesStep ==
  ASSUME TypeInv, [Next]_vars
  PROVE  TypeInv'
<1>1. ASSUME NEW t \in Threads, RefusedCall(t)  PROVE TypeInv'
  BY <1>1, ReturnsTyped DEF RefusedCall, history, TypeInv, TypeOK
<1>2. ASSUME NEW t \in Threads, NEW o \in Ops, NEW k \in Keys, NEW d \in TTLs, Call(t, o, k, d)
      PROVE  TypeInv'
  BY <1>2, CallTyped
<1>3. ASSUME NEW t \in Threads, Lookup(t)  PROVE TypeInv'
  <2>0. pc[t] = "lookup" /\ Key(t) \in Keys
    BY <1>3, Facts DEF Lookup, Key
  <2>1. CASE counters[Key(t)] = Nil
    BY <1>3, <2>0, <2>1, ReturnsTyped DEF Lookup, history, TypeInv, TypeOK
  <2>2. CASE counters[Key(t)] # Nil
    <3>1. counters[Key(t)] \in Ids
      BY <2>0, <2>2 DEF TypeInv, TypeOK
    <3>2. held' = [held EXCEPT ![t] = counters[Key(t)]] /\ Goto(t, "inspect") /\ call' = call
      BY <1>3, <2>2 DEF Lookup
    <3>3. /\ held' \in [Threads -> Ids \cup {Nil}] /\ held'[t] \in Ids
          /\ pc' \in [Threads -> PCs] /\ pc'[t] = "inspect"
          /\ \A u \in Threads \ {t} : held'[u] = held[u] /\ pc'[u] = pc[u]
      BY <3>1, <3>2 DEF Goto, TypeInv, TypeOK, PCs
    <3>4. Room'
      BY <1>3, <2>0, <3>2, SameRoom DEF Lookup, PCs
    <3>5. \A u \in Threads : Underway(u)'
      BY <2>0, <3>2, <3>3, OthersUnderway DEF Underway, TypeInv
    <3> QED  BY <1>3, <3>2, <3>3, <3>4, <3>5 DEF Lookup, history, TypeInv, TypeOK
  <2> QED  BY <2>1, <2>2
<1>4. ASSUME NEW t \in Threads, Inspect(t)  PROVE TypeInv'
  <2>1. PICK place \in {"evict", "load"} : Goto(t, place)
    BY <1>4 DEF Inspect
  <2>2. /\ pc' \in [Threads -> PCs] /\ pc'[t] = place
        /\ \A u \in Threads \ {t} : pc'[u] = pc[u]
    BY <2>1 DEF Goto, TypeInv, TypeOK, PCs
  <2>3. Room'
    BY <1>4, <2>1, SameRoom DEF Inspect, PCs
  <2>4. \A u \in Threads : Underway(u)'
    BY <1>4, <2>1, <2>2, OthersUnderway DEF Inspect, Underway, TypeInv
  <2> QED  BY <1>4, <2>2, <2>3, <2>4 DEF Inspect, history, TypeInv, TypeOK
<1>5. ASSUME NEW t \in Threads, Evict(t)  PROVE TypeInv'
  <2>1. Key(t) \in Keys /\ pc[t] = "evict"
    BY <1>5, Facts DEF Evict, Key
  <2>2. counters' \in [Keys -> Ids \cup {Nil}] /\ staleEvictions' \in [Keys -> Nat]
    BY <1>5, <2>1 DEF Evict, TypeInv, TypeOK
  <2> QED  BY <1>5, <2>1, <2>2, ReturnsTyped DEF Evict, TypeInv, TypeOK
<1>6. ASSUME NEW t \in Threads, Load(t)  PROVE TypeInv'
  BY <1>6, ReturnsTyped DEF Load, history, TypeInv, TypeOK
<1>7. ASSUME NEW t \in Threads, Install(t)  PROVE TypeInv'
  <2>1. Key(t) \in Keys /\ pc[t] = "install" /\ call[t].op \in Ops /\ held[t] \in Ids
    BY <1>7, Facts DEF Install, Key, TypeInv, Underway
  <2>2. /\ counters' \in [Keys -> Ids \cup {Nil}] /\ log' \in [Keys -> Seq(Ids)]
        /\ born' \in [Ids -> Nat] /\ maker' \in [Ids -> Ops \cup {"none"}]
    BY <1>7, <2>1, InstalledTyped DEF Install
  <2> QED  BY <1>7, <2>1, <2>2, ReturnsTyped DEF Install, TypeInv, TypeOK
<1>8. ASSUME NEW t \in Threads, Enter(t)  PROVE TypeInv'
  BY <1>8, EnterTyped
<1>9. ASSUME NEW t \in Threads, Add(t)  PROVE TypeInv'
  <2>1. value' \in [Ids -> Nat]
    BY <1>9 DEF Add, TypeInv, TypeOK, Underway
  <2> QED  BY <1>9, <2>1, ReturnsTyped DEF Add, history, TypeInv, TypeOK
<1>10. CASE Close
  BY <1>10 DEF Close, thread, history, TypeInv, TypeOK, Room, Entering, Underway
<1>11. CASE Tick
  <2>1. now' \in 1..MaxTime
    BY <1>11, CountersAssumption DEF Tick, TypeInv, TypeOK
  <2> QED  BY <1>11, <2>1 DEF Tick, thread, history, TypeInv, TypeOK, Room, Entering, Underway
<1>12. CASE UNCHANGED vars
  BY <1>12 DEF vars, thread, history, TypeInv, TypeOK, Room, Entering, Underway
<1> QED  BY <1>1, <1>2, <1>3, <1>4, <1>5, <1>6, <1>7, <1>8, <1>9, <1>10, <1>11, <1>12 DEF Next

-------------------------------------------------------------------------------
(* Entries are made once.                                                  *)

Entries(k) == 1..Len(log[k])
LastEntry(k) == log[k][Len(log[k])]

\* What stands under a key is the last entry installed there; everything
\* installed or held has been allocated; what SetInt is about to install is its own.
Heap ==
  /\ \A k \in Keys : counters[k] # Nil => log[k] # <<>> /\ counters[k] = LastEntry(k)
  /\ \A k \in Keys : \A n \in Entries(k) : log[k][n] <= allocated
  /\ \A t \in Threads : held[t] <= allocated
  /\ \A t \in Threads : pc[t] = "install" => \A k \in Keys : \A n \in Entries(k) : log[k][n] # held[t]
  /\ \A t, u \in Threads : t # u /\ pc[t] = "install" /\ pc[u] = "install" => held[t] # held[u]

HeapInv == TypeInv /\ Heap

\* Standing entries have been allocated.
LEMMA Standing ==
  ASSUME HeapInv, NEW k \in Keys, counters[k] # Nil
  PROVE  counters[k] \in Ids /\ counters[k] <= allocated
<1>1. log[k] \in Seq(Ids) /\ log[k] # <<>> /\ counters[k] = log[k][Len(log[k])]
  BY DEF HeapInv, Heap, TypeInv, TypeOK, LastEntry
<1>2. Len(log[k]) \in Entries(k)
  BY <1>1, EmptySeq, LenProperties DEF Entries
<1> QED  BY <1>1, <1>2 DEF HeapInv, Heap, TypeInv, TypeOK

\* A step that installs nothing and lets nobody start an install keeps the heap.
LEMMA HeapQuiet ==
  ASSUME HeapInv, UNCHANGED <<allocated, log>>, NEW t \in Threads,
         \A u \in Threads \ {t} : pc'[u] = pc[u] /\ held'[u] = held[u],
         pc'[t] # "install", held'[t] <= allocated,
         \A k \in Keys : counters'[k] \in {Nil, counters[k]}
  PROVE  Heap'
<1>1. \A k \in Keys : Entries(k)' = Entries(k) /\ LastEntry(k)' = LastEntry(k)
  BY DEF Entries, LastEntry
<1> QED  BY <1>1 DEF HeapInv, Heap

LEMMA ReturnsMove ==
  ASSUME HeapInv, NEW t \in Threads, Return(t)
  PROVE  /\ pc'[t] = "idle" /\ held'[t] = Nil /\ Nil <= allocated
         /\ \A u \in Threads \ {t} : pc'[u] = pc[u] /\ held'[u] = held[u]
<1>1. allocated \in Nat
  BY Facts DEF HeapInv
<1> QED  BY <1>1 DEF Return, Goto, HeapInv, TypeInv, TypeOK, Nil

\* An entry that is in no log becomes the last one of k.
LEMMA Appended ==
  ASSUME HeapInv, NEW t \in Threads, NEW k \in Keys, NEW e \in Ids, Installed(k, e, t)
  PROVE  /\ Len(log[k]) \in Nat /\ Len(log[k])' = Len(log[k]) + 1 /\ log'[k] # <<>>
         /\ LastEntry(k)' = e /\ counters'[k] = e
         /\ \A n \in Entries(k) : log'[k][n] = log[k][n]
         /\ \A n \in Entries(k)' : n \in Entries(k) \/ n = Len(log[k]) + 1
         /\ \A j \in Keys \ {k} : log'[j] = log[j] /\ counters'[j] = counters[j]
<1>1. log[k] \in Seq(Ids) /\ log' = [log EXCEPT ![k] = Append(log[k], e)]
      /\ counters' = [counters EXCEPT ![k] = e] /\ log \in [Keys -> Seq(Ids)]
      /\ counters \in [Keys -> Ids \cup {Nil}]
  BY DEF Installed, HeapInv, TypeInv, TypeOK
<1>2. log'[k] = Append(log[k], e) /\ counters'[k] = e
      /\ \A j \in Keys \ {k} : log'[j] = log[j] /\ counters'[j] = counters[j]
  BY <1>1
<1>3. /\ Append(log[k], e) # <<>> /\ Len(Append(log[k], e)) = Len(log[k]) + 1 /\ Len(log[k]) \in Nat
      /\ \A n \in 1..Len(log[k]) : Append(log[k], e)[n] = log[k][n]
      /\ Append(log[k], e)[Len(log[k]) + 1] = e
  BY <1>1, AppendProperties, LenProperties
<1> QED  BY <1>2, <1>3 DEF Entries, LastEntry

\* An entry that nobody else has may be installed.
LEMMA HeapInstalled ==
  ASSUME HeapInv, NEW t \in Threads, NEW k \in Keys, NEW e \in Ids, Installed(k, e, t),
         allocated \in Nat, allocated' \in Nat, allocated <= allocated', e <= allocated',
         \A u \in Threads \ {t} : pc'[u] = pc[u] /\ held'[u] = held[u]
                                  /\ (pc[u] = "install" => held[u] # e),
         pc'[t] # "install", held'[t] \in {Nil, e}
  PROVE  Heap'
<1>1. /\ \A j \in Keys : counters[j] # Nil => log[j] # <<>> /\ counters[j] = LastEntry(j)
      /\ \A j \in Keys : \A n \in Entries(j) : log[j][n] \in Ids /\ log[j][n] <= allocated
      /\ \A u \in Threads : held[u] \in Nat /\ held[u] <= allocated
      /\ \A u \in Threads : pc[u] = "install" => \A j \in Keys : \A n \in Entries(j) : log[j][n] # held[u]
      /\ \A u, v \in Threads : u # v /\ pc[u] = "install" /\ pc[v] = "install" => held[u] # held[v]
  <2>1. \A j \in Keys : log[j] \in Seq(Ids) /\ \A n \in Entries(j) : log[j][n] \in Ids
    BY ElementOfSeq DEF HeapInv, TypeInv, TypeOK, Entries
  <2>2. \A u \in Threads : held[u] \in Nat
    BY DEF HeapInv, TypeInv, TypeOK, Ids, Nil
  <2> QED  BY <2>1, <2>2 DEF HeapInv, Heap
<1>2. /\ log'[k] # <<>> /\ LastEntry(k)' = e /\ counters'[k] = e
      /\ \A n \in Entries(k) : log'[k][n] = log[k][n]
      /\ \A n \in Entries(k)' : n \in Entries(k) \/ log'[k][n] = e
      /\ \A j \in Keys \ {k} : /\ log'[j] = log[j] /\ counters'[j] = counters[j]
                               /\ Entries(j)' = Entries(j) /\ LastEntry(j)' = LastEntry(j)
  BY Appended DEF Entries, LastEntry
<1>3. \A j \in Keys : counters'[j] # Nil => log'[j] # <<>> /\ counters'[j] = LastEntry(j)'
  BY <1>1, <1>2
<1>4. \A j \in Keys : \A n \in Entries(j)' : log'[j][n] = e \/ (n \in Entries(j) /\ log'[j][n] = log[j][n])
  BY <1>2
<1>5. \A j \in Keys : \A n \in Entries(j)' : log'[j][n] <= allocated'
  BY <1>1, <1>4 DEF Ids
<1>6. \A u \in Threads : held'[u] <= allocated'
  BY <1>1 DEF Nil
<1>7. \A u \in Threads : pc'[u] = "install" => \A j \in Keys : \A n \in Entries(j)' : log'[j][n] # held'[u]
  BY <1>1, <1>4
<1>8. \A u, v \in Threads : u # v /\ pc'[u] = "install" /\ pc'[v] = "install" => held'[u] # held'[v]
  BY <1>1
<1> QED  BY <1>3, <1>5, <1>6, <1>7, <1>8 DEF Heap

LEMMA HeapInit == Init => HeapInv
<1> SUFFICES ASSUME Init  PROVE HeapInv
  OBVIOUS
<1>1. \A k \in Keys : log[k] = <<>> /\ Len(log[k]) = 0 /\ counters[k] = Nil
  BY EmptySeq DEF Init
<1>2. \A t \in Threads : pc[t] = "idle" /\ held[t] <= allocated
  BY DEF Init, Nil
<1>3. \A k \in Keys : Entries(k) = {}
  BY <1>1 DEF Entries
<1> QED  BY <1>1, <1>2, <1>3, TypesInit DEF HeapInv, Heap

\* Facts about the heap in the form the steps need.
LEMMA HeapFacts ==
  ASSUME HeapInv
  PROVE  /\ \A k \in Keys : log[k] \in Seq(Ids) /\ Len(log[k]) \in Nat
         /\ \A k \in Keys : \A n \in Entries(k) : log[k][n] \in Ids /\ log[k][n] <= allocated
         /\ \A t \in Threads : held[t] \in Nat /\ held[t] <= allocated
<1>1. \A k \in Keys : log[k] \in Seq(Ids) /\ Len(log[k]) \in Nat
  BY LenProperties DEF HeapInv, TypeInv, TypeOK
<1>2. \A k \in Keys : \A n \in Entries(k) : log[k][n] \in Ids
  BY <1>1, ElementOfSeq DEF Entries
<1>3. \A t \in Threads : held[t] \in Nat
  BY DEF HeapInv, TypeInv, TypeOK, Ids, Nil
<1> QED  BY <1>1, <1>2, <1>3 DEF HeapInv, Heap

LEMMA CallHeap ==
  ASSUME HeapInv, NEW t \in Threads, NEW o \in Ops, NEW k \in Keys, NEW d \in TTLs, Call(t, o, k, d)
  PROVE  Heap'
<1>0. /\ allocated \in Nat /\ pc[t] = "idle"
      /\ pc' = [pc EXCEPT ![t] = FirstStep(o)] /\ pc \in [Threads -> PCs]
      /\ held \in [Threads -> Ids \cup {Nil}]
      /\ UNCHANGED <<counters, log>>
  BY Facts DEF Call, HeapInv, TypeInv, TypeOK, Goto, history
<1>1. CASE o = "SetInt"
  <2>1. allocated' = allocated + 1 /\ held' = [held EXCEPT ![t] = allocated']
    BY <1>1 DEF Call
  <2>2. /\ held'[t] = allocated + 1
        /\ \A u \in Threads \ {t} : held'[u] = held[u] /\ pc'[u] = pc[u]
    BY <1>0, <2>1
  <2>3. \A j \in Keys : Entries(j)' = Entries(j) /\ LastEntry(j)' = LastEntry(j) /\ log'[j] = log[j]
    BY <1>0 DEF Entries, LastEntry
  <2>4. /\ \A j \in Keys : \A n \in Entries(j)' : log'[j][n] <= allocated' /\ log'[j][n] # held'[t]
        /\ \A u \in Threads : held'[u] <= allocated'
        /\ \A u \in Threads \ {t} : held'[u] # held'[t]
    BY <1>0, <2>1, <2>2, <2>3, HeapFacts DEF Ids
  <2> QED  BY <1>0, <2>2, <2>3, <2>4 DEF HeapInv, Heap
<1>2. CASE o # "SetInt"
  <2>1. UNCHANGED <<allocated, held>>
    BY <1>2 DEF Call
  <2>2. o \in AllOps
    BY CountersAssumption
  <2>3. FirstStep(o) # "install"
    BY <1>2, <2>2 DEF FirstStep, AllOps
  <2> QED  BY <1>0, <2>1, <2>3, HeapQuiet, HeapFacts
<1> QED  BY <1>1, <1>2

\* What Enter does when it makes an entry.
LEMMA Entered ==
  ASSUME HeapInv, NEW t \in Threads, Enter(t), ~(counters[Key(t)] # Nil /\ ~Expired(counters[Key(t)]))
  PROVE  /\ allocated \in Nat /\ allocated' = allocated + 1 /\ allocated' \in Ids
         /\ Key(t) \in Keys /\ Installed(Key(t), allocated', t)
         /\ pc'[t] = "add" /\ held'[t] = allocated'
         /\ \A u \in Threads \ {t} : pc'[u] = pc[u] /\ held'[u] = held[u]
         /\ \A e \in Ids : e <= allocated => expires'[e] = expires[e]
<1>1. /\ allocated' = allocated + 1 /\ Installed(Key(t), allocated', t)
      /\ held' = [held EXCEPT ![t] = allocated']
      /\ expires' = [expires EXCEPT ![allocated'] = IF call[t].op = "IncrWithTTL"
                                                     THEN Deadline(call[t].ttl)
                                                     ELSE NoExpiry]
      /\ pc' = [pc EXCEPT ![t] = "add"] /\ pc[t] = "enter"
  BY DEF Enter, Goto
<1>2. allocated \in Nat /\ Key(t) \in Keys
  BY <1>1, Facts DEF Key, HeapInv
<1>3. allocated' \in Ids
  <2>1. allocated' \in 0..MaxUpdates
    BY EnterTyped DEF TypeInv, TypeOK, HeapInv
  <2> QED  BY <1>1, <1>2, <2>1 DEF Ids
<1> QED  BY <1>1, <1>2, <1>3 DEF HeapInv, TypeInv, TypeOK, Ids

LEMMA HeapStep ==
  ASSUME HeapInv, [Next]_vars
  PROVE  HeapInv'
<1>0. TypeInv'
  BY TypesStep DEF HeapInv
<1>1. ASSUME NEW t \in Threads, RefusedCall(t)  PROVE Heap'
  BY <1>1, ReturnsMove, HeapQuiet DEF RefusedCall, history
<1>2. ASSUME NEW t \in Threads, NEW o \in Ops, NEW k \in Keys, NEW d \in TTLs, Call(t, o, k, d)
      PROVE  Heap'
  BY <1>2, CallHeap
<1>3. ASSUME NEW t \in Threads, Lookup(t)  PROVE Heap'
  <2>1. CASE counters[Key(t)] = Nil
    BY <1>3, <2>1, ReturnsMove, HeapQuiet DEF Lookup, history
  <2>2. CASE counters[Key(t)] # Nil
    <3>1. Key(t) \in Keys
      BY <1>3, Facts DEF Lookup, Key, HeapInv
    <3>2. held' = [held EXCEPT ![t] = counters[Key(t)]] /\ pc' = [pc EXCEPT ![t] = "inspect"]
      BY <1>3, <2>2 DEF Lookup, Goto
    <3>3. /\ held'[t] = counters[Key(t)] /\ pc'[t] = "inspect"
          /\ \A u \in Threads \ {t} : pc'[u] = pc[u] /\ held'[u] = held[u]
      BY <3>2 DEF HeapInv, TypeInv, TypeOK
    <3> QED  BY <1>3, <2>2, <3>1, <3>3, Standing, HeapQuiet DEF Lookup, history
  <2> QED  BY <2>1, <2>2
<1>4. ASSUME NEW t \in Threads, Inspect(t)  PROVE Heap'
  <2>1. pc'[t] # "install" /\ \A u \in Threads \ {t} : pc'[u] = pc[u]
    BY <1>4 DEF Inspect, Goto, HeapInv, TypeInv, TypeOK
  <2> QED  BY <1>4, <2>1, HeapFacts, HeapQuiet DEF Inspect, history
<1>5. ASSUME NEW t \in Threads, Evict(t)  PROVE Heap'
  <2>1. \A k \in Keys : counters'[k] \in {Nil, counters[k]}
    BY <1>5 DEF Evict, HeapInv, TypeInv, TypeOK
  <2> QED  BY <1>5, <2>1, ReturnsMove, HeapQuiet DEF Evict
<1>6. ASSUME NEW t \in Threads, Load(t)  PROVE Heap'
  BY <1>6, ReturnsMove, HeapQuiet DEF Load, history
<1>7. ASSUME NEW t \in Threads, Install(t)  PROVE Heap'
  <2>1. Key(t) \in Keys /\ pc[t] = "install" /\ held[t] \in Ids /\ Installed(Key(t), held[t], t)
    BY <1>7, Facts DEF Install, Key, HeapInv, TypeInv, Underway
  <2>2. \A u \in Threads \ {t} : pc[u] = "install" => held[u] # held[t]
    BY <2>1 DEF HeapInv, Heap
  <2>3. allocated \in Nat /\ held[t] <= allocated /\ allocated' = allocated
    BY <1>7, Facts, HeapFacts DEF HeapInv, Install
  <2>4. pc'[t] = "idle" /\ held'[t] = Nil /\ \A u \in Threads \ {t} : pc'[u] = pc[u] /\ held'[u] = held[u]
    BY <1>7, ReturnsMove DEF Install
  <2> QED  BY <2>1, <2>2, <2>3, <2>4, HeapInstalled
<1>8. ASSUME NEW t \in Threads, Enter(t)  PROVE Heap'
  <2>0. pc[t] = "enter" /\ Key(t) \in Keys
    BY <1>8, Facts DEF Enter, Key, HeapInv
  <2>1. CASE counters[Key(t)] # Nil /\ ~Expired(counters[Key(t)])
    <3>1. /\ held' = [held EXCEPT ![t] = counters[Key(t)]] /\ pc' = [pc EXCEPT ![t] = "add"]
          /\ UNCHANGED <<counters, allocated, log>>
      BY <1>8, <2>1 DEF Enter, Goto
    <3>2. /\ held'[t] = counters[Key(t)] /\ pc'[t] = "add"
          /\ \A u \in Threads \ {t} : pc'[u] = pc[u] /\ held'[u] = held[u]
      BY <3>1 DEF HeapInv, TypeInv, TypeOK
    <3> QED  BY <2>0, <2>1, <3>1, <3>2, Standing, HeapQuiet
  <2>2. CASE ~(counters[Key(t)] # Nil /\ ~Expired(counters[Key(t)]))
    <3>1. \A u \in Threads : held[u] # allocated'
      BY <1>8, <2>2, Entered, HeapFacts
    <3>2. PICK e \in Ids : e = allocated'
      BY <1>8, <2>2, Entered
    <3>3. /\ Installed(Key(t), e, t) /\ allocated \in Nat /\ allocated' = allocated + 1
          /\ pc'[t] = "add" /\ held'[t] = e
          /\ \A u \in Threads \ {t} : pc'[u] = pc[u] /\ held'[u] = held[u]
      BY <1>8, <2>2, <3>2, Entered
    <3> QED  BY <2>0, <3>1, <3>2, <3>3, HeapInstalled
  <2> QED  BY <2>1, <2>2
<1>9. ASSUME NEW t \in Threads, Add(t)  PROVE Heap'
  BY <1>9, ReturnsMove, HeapQuiet DEF Add, history
<1>10. CASE Close \/ Tick \/ UNCHANGED vars
  <2>1. UNCHANGED <<counters, log, allocated, held, pc>>
    BY <1>10 DEF Close, Tick, vars, thread, history
  <2>2. \A k \in Keys : Entries(k)' = Entries(k) /\ LastEntry(k)' = LastEntry(k)
    BY <2>1 DEF Entries, LastEntry
  <2>3. /\ \A k \in Keys : counters'[k] # Nil => log'[k] # <<>> /\ counters'[k] = LastEntry(k)'
        /\ \A k \in Keys : \A n \in Entries(k)' : log'[k][n] <= allocated'
    BY <2>1, <2>2 DEF HeapInv, Heap
  <2>4. \A t \in Threads : pc'[t] = "install" => \A k \in Keys : \A n \in Entries(k)' : log'[k][n] # held'[t]
    BY <2>1, <2>2 DEF HeapInv, Heap
  <2>5. /\ \A t \in Threads : held'[t] <= allocated'
        /\ \A t, u \in Threads : t # u /\ pc'[t] = "install" /\ pc'[u] = "install" => held'[t] # held'[u]
    BY <2>1 DEF HeapInv, Heap
  <2> QED  BY <1>0, <2>3, <2>4, <2>5 DEF HeapInv, Heap
<1> QED  BY <1>0, <1>1, <1>2, <1>3, <1>4, <1>5, <1>6, <1>7, <1>8, <1>9, <1>10 DEF Next, HeapInv

-------------------------------------------------------------------------------
(* Deadlines.                                                              *)

\* Only the deadline of the entry being made is written.
LEMMA OldDeadlines ==
  ASSUME HeapInv, [Next]_vars
  PROVE  \A e \in Ids : e <= allocated => expires'[e] = expires[e]
<1>1. ASSUME NEW t \in Threads, NEW o \in Ops, NEW k \in Keys, NEW d \in TTLs, Call(t, o, k, d)
      PROVE  \A e \in Ids : e <= allocated => expires'[e] = expires[e]
  <2>1. allocated \in Nat /\ \A e \in Ids : e \in Nat
    BY Facts DEF HeapInv, Ids
  <2>2. CASE o = "SetInt"
    <3>1. allocated' = allocated + 1 /\ expires' = [expires EXCEPT ![allocated'] = Deadline(d)]
      BY <1>1, <2>2 DEF Call
    <3> QED  BY <2>1, <3>1 DEF HeapInv, TypeInv, TypeOK
  <2>3. CASE o # "SetInt"
    BY <1>1, <2>3 DEF Call
  <2> QED  BY <2>2, <2>3
<1>2. ASSUME NEW t \in Threads, Enter(t)
      PROVE  \A e \in Ids : e <= allocated => expires'[e] = expires[e]
  <2>1. CASE counters[Key(t)] # Nil /\ ~Expired(counters[Key(t)])
    BY <1>2, <2>1 DEF Enter
  <2> QED  BY <1>2, <2>1, Entered
<1> QED
  BY <1>1, <1>2 DEF Next, RefusedCall, Lookup, Inspect, Evict, Load, Install, Add, Close, Tick, vars

LEMMA HeapAlways == Spec => []HeapInv
BY HeapInit, HeapStep, PTL DEF Spec

\* No operation moves the deadline of an entry that stands in the map
\* (local.go:236-295), whatever the goroutines do.
THEOREM DeadlinesAlwaysStand == Spec => DeadlinesStand
<1>1. HeapInv /\ [Next]_vars
        => [\A k \in Keys : counters[k] # Nil => expires'[counters[k]] = expires[counters[k]]]_vars
  BY Standing, OldDeadlines
<1> QED  BY <1>1, HeapAlways, PTL DEF Spec, DeadlinesStand

-------------------------------------------------------------------------------
(* Windows.                                                                *)

\* The last window of k was lost before its end, and the overlap it allows has
\* not come about.
Lost(k) == counters[k] = Nil /\ log[k] # <<>> /\ ~Expired(LastEntry(k))
Owed(k) == IF Lost(k) THEN 1 ELSE 0

WindowsInv ==
  /\ HeapInv
  /\ \A t \in Threads : pc[t] = "evict" => Expired(held[t])
  /\ \A k \in Keys : Cardinality(Overlaps(k)) + Owed(k) <= staleEvictions[k]

LEMMA OverlapsCounted ==
  ASSUME HeapInv, NEW k \in Keys
  PROVE  IsFiniteSet(Overlaps(k)) /\ Cardinality(Overlaps(k)) \in Nat
<1>1. Len(log[k]) \in Nat
  BY HeapFacts
<1>2. IsFiniteSet(2..Len(log[k])) /\ Overlaps(k) \subseteq 2..Len(log[k])
  BY <1>1, FS_Interval DEF Overlaps
<1> QED  BY <1>2, FS_Subset, FS_CardinalityType

\* What has been logged is not rewritten.
Kept(e) == expires'[e] = expires[e] /\ born'[e] = born[e] /\ maker'[e] = maker[e]

LEMMA LoggedKept ==
  ASSUME HeapInv, [Next]_vars
  PROVE  \A k \in Keys : \A n \in Entries(k) : Kept(log[k][n])
<1>1. \A k \in Keys : \A n \in Entries(k) : expires'[log[k][n]] = expires[log[k][n]]
  BY HeapFacts, OldDeadlines
<1>2. ASSUME NEW t \in Threads, Install(t)
      PROVE  \A k \in Keys : \A n \in Entries(k) : born'[log[k][n]] = born[log[k][n]]
                                                   /\ maker'[log[k][n]] = maker[log[k][n]]
  <2>1. \A k \in Keys : \A n \in Entries(k) : log[k][n] # held[t]
    BY <1>2 DEF Install, HeapInv, Heap
  <2> QED  BY <1>2, <2>1, HeapFacts DEF Install, Installed, HeapInv, TypeInv, TypeOK
<1>3. ASSUME NEW t \in Threads, Enter(t)
      PROVE  \A k \in Keys : \A n \in Entries(k) : born'[log[k][n]] = born[log[k][n]]
                                                   /\ maker'[log[k][n]] = maker[log[k][n]]
  <2>1. CASE counters[Key(t)] # Nil /\ ~Expired(counters[Key(t)])
    BY <1>3, <2>1 DEF Enter
  <2>2. CASE ~(counters[Key(t)] # Nil /\ ~Expired(counters[Key(t)]))
    <3>1. allocated \in Nat /\ allocated' = allocated + 1 /\ Installed(Key(t), allocated', t)
      BY <1>3, <2>2, Entered
    <3>2. \A k \in Keys : \A n \in Entries(k) : log[k][n] \in Nat /\ log[k][n] # allocated'
      BY <3>1, HeapFacts DEF Ids
    <3> QED  BY <3>1, <3>2, HeapFacts DEF Installed, HeapInv, TypeInv, TypeOK
  <2> QED  BY <2>1, <2>2
<1>4. UNCHANGED <<born, maker>> \/ \E t \in Threads : Install(t) \/ Enter(t)
  BY DEF Next, RefusedCall, Call, Lookup, Inspect, Evict, Load, Add, Close, Tick, vars, history
<1> QED  BY <1>1, <1>2, <1>3, <1>4 DEF Kept

\* A log that is not added to overlaps where it did.
LEMMA SameOverlaps ==
  ASSUME HeapInv, [Next]_vars, NEW k \in Keys, log'[k] = log[k]
  PROVE  Overlaps(k)' = Overlaps(k)
<1>1. Len(log[k]) \in Nat
  BY HeapFacts
<1>2. ASSUME NEW n \in 2..Len(log[k])  PROVE Overlap(k, n)' <=> Overlap(k, n)
  <2>1. n \in Entries(k) /\ n - 1 \in Entries(k)
    BY <1>1 DEF Entries
  <2>2. Kept(log[k][n]) /\ Kept(log[k][n - 1])
    BY <2>1, LoggedKept
  <2> QED  BY <2>2 DEF Overlap, Kept, NoExpiry
<1> QED  BY <1>1, <1>2 DEF Overlaps

\* One that is added to can overlap at its new end as well.
LEMMA MoreOverlaps ==
  ASSUME HeapInv, [Next]_vars, NEW t \in Threads, NEW k \in Keys, NEW e \in Ids, Installed(k, e, t)
  PROVE  /\ \A n \in Overlaps(k)' : n \in Overlaps(k) \/ n = Len(log[k]) + 1
         /\ \A n \in Overlaps(k)' : n = Len(log[k]) + 1 =>
              Len(log[k]) >= 1 /\ call[t].op # "SetInt" /\ (expires[LastEntry(k)] = NoExpiry \/ now <= expires[LastEntry(k)])
<1>1. /\ Len(log[k]) \in Nat /\ Len(log[k])' = Len(log[k]) + 1
      /\ LastEntry(k)' = e /\ \A n \in Entries(k) : log'[k][n] = log[k][n]
  BY Appended
<1>2. \A n \in Entries(k) : Kept(log[k][n])
  BY LoggedKept
<1>3. ASSUME NEW n \in 2..Len(log[k])  PROVE Overlap(k, n)' <=> Overlap(k, n)
  <2>1. n \in Entries(k) /\ n - 1 \in Entries(k)
    BY <1>1 DEF Entries
  <2>2. /\ Kept(log[k][n]) /\ Kept(log[k][n - 1])
        /\ log'[k][n] = log[k][n] /\ log'[k][n - 1] = log[k][n - 1]
    BY <1>1, <1>2, <2>1
  <2> QED  BY <2>2 DEF Overlap, Kept, NoExpiry
<1>4. ASSUME NEW n \in Overlaps(k)'  PROVE n \in Overlaps(k) \/ n = Len(log[k]) + 1
  <2>1. n \in 2..(Len(log[k]) + 1) /\ Overlap(k, n)'
    BY <1>1 DEF Overlaps
  <2>2. n \in 2..Len(log[k]) \/ n = Len(log[k]) + 1
    BY <1>1, <2>1
  <2> QED  BY <1>3, <2>1, <2>2 DEF Overlaps
<1>5. ASSUME NEW n \in Overlaps(k)', n = Len(log[k]) + 1
      PROVE  /\ Len(log[k]) >= 1
             /\ call[t].op # "SetInt" /\ (expires[LastEntry(k)] = NoExpiry \/ now <= expires[LastEntry(k)])
  <2>1. n \in 2..(Len(log[k]) + 1) /\ Overlap(k, n)'
    BY <1>1 DEF Overlaps
  <2>2. Len(log[k]) >= 1 /\ Len(log[k]) \in Entries(k) /\ n - 1 = Len(log[k])
    BY <1>1, <1>5, <2>1 DEF Entries
  <2>3. log'[k][n - 1] = LastEntry(k) /\ expires'[LastEntry(k)] = expires[LastEntry(k)]
    BY <1>1, <1>2, <2>2 DEF Kept, LastEntry
  <2>4. log'[k][n] = e
    BY <1>1, <1>5 DEF LastEntry
  <2>5. maker'[e] = call[t].op /\ born'[e] = now
    BY DEF Installed, HeapInv, TypeInv, TypeOK
  <2>6. /\ maker'[log'[k][n]] # "SetInt"
        /\ expires'[log'[k][n - 1]] = NoExpiry \/ born'[log'[k][n]] <= expires'[log'[k][n - 1]]
    BY <2>1 DEF Overlap, NoExpiry
  <2> QED  BY <2>2, <2>3, <2>4, <2>5, <2>6
<1> QED  BY <1>4, <1>5

\* A step that adds to no log and leaves the evictions alone.
LEMMA SameWindows ==
  ASSUME WindowsInv, [Next]_vars, UNCHANGED <<log, staleEvictions>>, NEW k \in Keys, Lost(k)' => Lost(k)
  PROVE  Cardinality(Overlaps(k))' + Owed(k)' <= staleEvictions'[k]
<1>1. Overlaps(k)' = Overlaps(k)
  BY SameOverlaps DEF WindowsInv
<1>2. Cardinality(Overlaps(k)) \in Nat /\ staleEvictions[k] \in Nat
  BY OverlapsCounted DEF WindowsInv, HeapInv, TypeInv, TypeOK
<1> QED  BY <1>1, <1>2 DEF WindowsInv, Owed

\* Nothing but the clock, an eviction or an installation decides what is lost.
LEMMA SameLost ==
  ASSUME WindowsInv, [Next]_vars, UNCHANGED <<now, log>>, NEW k \in Keys, counters'[k] = counters[k]
  PROVE  Lost(k)' => Lost(k)
<1> SUFFICES ASSUME Lost(k)'  PROVE Lost(k)
  OBVIOUS
<1>1. log[k] \in Seq(Ids) /\ log[k] # <<>>
  BY DEF Lost, WindowsInv, HeapInv, TypeInv, TypeOK
<1>2. Len(log[k]) \in Entries(k) /\ LastEntry(k)' = LastEntry(k)
  BY <1>1, EmptySeq, LenProperties DEF Entries, LastEntry
<1>3. expires'[LastEntry(k)] = expires[LastEntry(k)]
  BY <1>2, LoggedKept DEF Kept, LastEntry, WindowsInv
<1> QED  BY <1>2, <1>3 DEF Lost, Expired, Nil, NoExpiry

LEMMA OneMore ==
  ASSUME NEW S, IsFiniteSet(S), NEW x
  PROVE  IsFiniteSet(S \cup {x}) /\ Cardinality(S \cup {x}) <= Cardinality(S) + 1
<1>1. Cardinality(S) \in Nat
  BY FS_CardinalityType
<1>2. CASE x \in S
  <2>1. IsFiniteSet(S \cup {x}) /\ Cardinality(S \cup {x}) = Cardinality(S)
    BY <1>2, FS_AddElement
  <2> QED  BY <1>1, <2>1
<1>3. CASE x \notin S
  <2>1. IsFiniteSet(S \cup {x}) /\ Cardinality(S \cup {x}) = Cardinality(S) + 1
    BY <1>3, FS_AddElement
  <2> QED  BY <1>1, <2>1
<1> QED  BY <1>2, <1>3

\* An installation puts an end to a lost window: by an overlap if need be.
LEMMA InstalledWindows ==
  ASSUME WindowsInv, [Next]_vars, UNCHANGED <<now, staleEvictions>>,
         NEW t \in Threads, NEW k \in Keys, NEW e \in Ids, Installed(k, e, t),
         call[t].op # "SetInt" => counters[k] = Nil \/ Expired(counters[k])
  PROVE  \A j \in Keys : Cardinality(Overlaps(j))' + Owed(j)' <= staleEvictions'[j]
<1>1. ASSUME NEW j \in Keys \ {k}  PROVE Cardinality(Overlaps(j))' + Owed(j)' <= staleEvictions'[j]
  <2>1. log'[j] = log[j] /\ counters'[j] = counters[j]
    BY Appended DEF WindowsInv
  <2>2. Overlaps(j)' = Overlaps(j)
    BY <2>1, SameOverlaps DEF WindowsInv
  <2>3. Cardinality(Overlaps(j)) \in Nat /\ staleEvictions[j] \in Nat
    BY OverlapsCounted DEF WindowsInv, HeapInv, TypeInv, TypeOK
  <2>4. Lost(j)' => Lost(j)
    <3>1. log[j] # <<>> /\ log[j] \in Seq(Ids) => Len(log[j]) \in Entries(j)
      BY EmptySeq, LenProperties DEF Entries
    <3>2. log[j] # <<>> => expires'[LastEntry(j)] = expires[LastEntry(j)]
      BY <3>1, LoggedKept DEF Kept, LastEntry, WindowsInv, HeapInv, TypeInv, TypeOK
    <3>3. LastEntry(j)' = LastEntry(j)
      BY <2>1 DEF LastEntry
    <3> QED  BY <2>1, <3>2, <3>3 DEF Lost, Expired, Nil, NoExpiry
  <2> QED  BY <2>2, <2>3, <2>4 DEF WindowsInv, Owed
<1>2. Cardinality(Overlaps(k))' + Owed(k)' <= staleEvictions'[k]
  <2>1. Owed(k)' = 0
    BY Appended DEF Owed, Lost, WindowsInv, Nil, Ids
  <2>2. /\ IsFiniteSet(Overlaps(k)) /\ Cardinality(Overlaps(k)) \in Nat /\ staleEvictions[k] \in Nat
        /\ Cardinality(Overlaps(k)) + Owed(k) <= staleEvictions[k]
    BY OverlapsCounted DEF WindowsInv, HeapInv, TypeInv, TypeOK
  <2>3. CASE Len(log[k]) + 1 \notin Overlaps(k)'
    <3>1. Overlaps(k)' \subseteq Overlaps(k)
      BY <2>3, MoreOverlaps DEF WindowsInv
    <3>2. Cardinality(Overlaps(k)') <= Cardinality(Overlaps(k)) /\ Cardinality(Overlaps(k)') \in Nat
      BY <2>2, <3>1, FS_Subset, FS_CardinalityType
    <3> QED  BY <2>1, <2>2, <3>2 DEF Owed
  <2>4. CASE Len(log[k]) + 1 \in Overlaps(k)'
    <3>1. /\ Len(log[k]) >= 1 /\ call[t].op # "SetInt"
          /\ expires[LastEntry(k)] = NoExpiry \/ now <= expires[LastEntry(k)]
      BY <2>4, MoreOverlaps DEF WindowsInv
    <3>2. log[k] # <<>> /\ log[k] \in Seq(Ids) /\ Len(log[k]) \in Entries(k)
      BY <3>1, HeapFacts, EmptySeq DEF Entries, WindowsInv
    <3>3. LastEntry(k) \in Ids /\ expires[LastEntry(k)] \in Nat /\ now \in Nat
      BY <3>2, HeapFacts, Facts DEF LastEntry, WindowsInv, HeapInv, TypeInv, TypeOK
    <3>4. ~Expired(LastEntry(k))
      BY <3>1, <3>3 DEF Expired
    <3>5. counters[k] = Nil
      BY <3>1, <3>4 DEF WindowsInv, HeapInv, Heap
    <3>6. Owed(k) = 1
      BY <3>2, <3>4, <3>5 DEF Owed, Lost
    <3>7. Overlaps(k)' \subseteq Overlaps(k) \cup {Len(log[k]) + 1}
      BY MoreOverlaps DEF WindowsInv
    <3>8. /\ IsFiniteSet(Overlaps(k) \cup {Len(log[k]) + 1})
          /\ Cardinality(Overlaps(k) \cup {Len(log[k]) + 1}) <= Cardinality(Overlaps(k)) + 1
      BY <2>2, OneMore
    <3>9. /\ Cardinality(Overlaps(k)') <= Cardinality(Overlaps(k) \cup {Len(log[k]) + 1})
          /\ Cardinality(Overlaps(k)') \in Nat
          /\ Cardinality(Overlaps(k) \cup {Len(log[k]) + 1}) \in Nat
      BY <3>7, <3>8, FS_Subset, FS_CardinalityType
    <3> QED  BY <2>1, <2>2, <3>6, <3>8, <3>9
  <2> QED  BY <2>3, <2>4
<1> QED  BY <1>1, <1>2

\* A standing entry that has expired stays so.
LEMMA ExpiredStays ==
  ASSUME HeapInv, [Next]_vars, now <= now', now' \in Nat, NEW e \in Ids, e <= allocated, Expired(e)
  PROVE  Expired(e)'
<1>1. expires'[e] = expires[e] /\ expires[e] \in Nat /\ now \in Nat
  BY OldDeadlines, Facts DEF HeapInv, TypeInv, TypeOK
<1> QED  BY <1>1 DEF Expired, NoExpiry

\* The clock does not go back.
LEMMA ClockAdvances ==
  ASSUME TypeInv, [Next]_vars
  PROVE  now <= now' /\ now' \in Nat
<1>1. now \in Nat
  BY Facts
<1>2. now' \in {now, now + 1}
  BY DEF Next, RefusedCall, Call, Lookup, Inspect, Evict, Load, Install, Enter, Add, Close, Tick, vars
<1> QED  BY <1>1, <1>2

\* A thread about to delete has seen its entry expired.
LEMMA EvictorsSaw ==
  ASSUME WindowsInv, [Next]_vars, NEW t \in Threads, pc'[t] = "evict"
  PROVE  Expired(held[t])' /\ held'[t] = held[t]
<1>1. pc[t] \in {"evict", "inspect"} /\ held'[t] = held[t] /\ (pc[t] = "inspect" => Inspect(t))
  <2>1. ASSUME NEW u \in Threads, Return(u)  PROVE u # t /\ pc'[t] = pc[t] /\ held'[t] = held[t]
    BY <2>1, ReturnsMove DEF WindowsInv
  <2>2. ASSUME NEW u \in Threads, NEW o \in Ops, NEW k \in Keys, NEW d \in TTLs, Call(u, o, k, d)
        PROVE  u # t /\ pc'[t] = pc[t] /\ held'[t] = held[t]
    <3>1. o \in AllOps /\ pc' = [pc EXCEPT ![u] = FirstStep(o)] /\ pc \in [Threads -> PCs]
          /\ held \in [Threads -> Ids \cup {Nil}]
      BY <2>2, CountersAssumption DEF Call, Goto, WindowsInv, HeapInv, TypeInv, TypeOK
    <3>2. FirstStep(o) # "evict"
      BY <3>1 DEF FirstStep, AllOps
    <3>3. u # t /\ pc'[t] = pc[t]
      BY <3>1, <3>2
    <3>4. held' = held \/ held' = [held EXCEPT ![u] = allocated']
      BY <2>2 DEF Call
    <3> QED  BY <3>1, <3>3, <3>4
  <2>3. ASSUME NEW u \in Threads, Lookup(u)  PROVE u # t /\ pc'[t] = pc[t] /\ held'[t] = held[t]
    <3>1. CASE counters[Key(u)] = Nil
      BY <2>1, <2>3, <3>1 DEF Lookup
    <3>2. CASE counters[Key(u)] # Nil
      BY <2>3, <3>2 DEF Lookup, Goto, WindowsInv, HeapInv, TypeInv, TypeOK
    <3> QED  BY <3>1, <3>2
  <2>4. ASSUME NEW u \in Threads, Inspect(u)
        PROVE  held'[t] = held[t] /\ (u # t => pc'[t] = pc[t])
    BY <2>4 DEF Inspect, Goto, WindowsInv, HeapInv, TypeInv, TypeOK
  <2>5. ASSUME NEW u \in Threads, Enter(u)  PROVE u # t /\ pc'[t] = pc[t] /\ held'[t] = held[t]
    <3>1. pc' = [pc EXCEPT ![u] = "add"]
          /\ (held' = [held EXCEPT ![u] = counters[Key(u)]] \/ held' = [held EXCEPT ![u] = allocated'])
      BY <2>5 DEF Enter, Goto
    <3> QED  BY <3>1 DEF WindowsInv, HeapInv, TypeInv, TypeOK
  <2>6. CASE Close \/ Tick \/ UNCHANGED vars
    BY <2>6 DEF Close, Tick, vars, thread
  <2>7. \/ \E u \in Threads : Return(u) \/ Lookup(u) \/ Enter(u) \/ Inspect(u)
        \/ \E u \in Threads, o \in Ops, k \in Keys, d \in TTLs : Call(u, o, k, d)
        \/ Close \/ Tick \/ UNCHANGED vars
    BY DEF Next, RefusedCall, Evict, Load, Install, Add
  <2>8. ASSUME NEW u \in Threads, Inspect(u)
        PROVE  /\ pc[t] \in {"evict", "inspect"} /\ held'[t] = held[t]
               /\ (pc[t] = "inspect" => Inspect(t))
    <3>1. CASE u = t
      BY <2>4, <2>8, <3>1 DEF Inspect
    <3>2. CASE u # t
      BY <2>4, <2>8, <3>2
    <3> QED  BY <3>1, <3>2
  <2> QED  BY <2>1, <2>2, <2>3, <2>5, <2>6, <2>7, <2>8
<1>2. held[t] \in Ids /\ held[t] <= allocated
  BY <1>1, HeapFacts DEF WindowsInv, HeapInv, TypeInv, Underway
<1>3. Expired(held[t])
  <2>1. CASE pc[t] = "evict"
    BY <2>1 DEF WindowsInv
  <2>2. CASE pc[t] = "inspect"
    <3>1. pc' = [pc EXCEPT ![t] = IF Expired(held[t]) THEN "evict" ELSE "load"]
      BY <1>1, <2>2 DEF Inspect, Goto
    <3> QED  BY <3>1 DEF WindowsInv, HeapInv, TypeInv, TypeOK
  <2> QED  BY <1>1, <2>1, <2>2
<1> QED  BY <1>1, <1>2, <1>3, ClockAdvances, ExpiredStays DEF WindowsInv, HeapInv, Expired, NoExpiry

LEMMA WindowsInit == Init => WindowsInv
<1> SUFFICES ASSUME Init  PROVE WindowsInv
  OBVIOUS
<1>1. \A k \in Keys : Overlaps(k) = {} /\ Owed(k) = 0 /\ staleEvictions[k] = 0
  <2>1. \A k \in Keys : log[k] = <<>> /\ Len(log[k]) = 0
    BY EmptySeq DEF Init
  <2> QED  BY <2>1 DEF Init, Overlaps, Owed, Lost
<1>2. \A t \in Threads : pc[t] # "evict"
  BY DEF Init
<1> QED  BY <1>1, <1>2, HeapInit, FS_EmptySet DEF WindowsInv

LEMMA WindowsStep ==
  ASSUME WindowsInv, [Next]_vars
  PROVE  WindowsInv'
<1>0. HeapInv' /\ \A t \in Threads : pc'[t] = "evict" => Expired(held[t])'
  BY HeapStep, EvictorsSaw DEF WindowsInv
<1>1. SUFFICES \A k \in Keys : Cardinality(Overlaps(k))' + Owed(k)' <= staleEvictions'[k]
  <2>1. ASSUME NEW t \in Threads, pc'[t] = "evict"  PROVE Expired(held[t])' /\ held'[t] = held[t]
    BY <2>1, EvictorsSaw
  <2> QED  BY <1>0, <2>1 DEF WindowsInv, Expired, NoExpiry
<1>2. CASE UNCHANGED <<now, log, counters, staleEvictions>>
  BY <1>2, SameLost, SameWindows
<1>3. ASSUME NEW t \in Threads, Evict(t)
      PROVE  \A k \in Keys : Cardinality(Overlaps(k))' + Owed(k)' <= staleEvictions'[k]
  <2>0. Key(t) \in Keys
    BY <1>3, Facts DEF Evict, Key, WindowsInv, HeapInv
  <2>7. PICK mine \in Keys : mine = Key(t)
    BY <2>0
  <2>1. /\ mine \in Keys /\ pc[t] = "evict" /\ UNCHANGED <<now, log>>
        /\ counters' = [counters EXCEPT ![mine] = Nil]
        /\ staleEvictions' = IF counters[mine] \in {Nil, held[t]} THEN staleEvictions
                             ELSE [staleEvictions EXCEPT ![mine] = @ + 1]
    BY <1>3, <2>7 DEF Evict
  <2>2. ASSUME NEW k \in Keys  PROVE /\ Overlaps(k)' = Overlaps(k) /\ Cardinality(Overlaps(k)) \in Nat
                                     /\ staleEvictions[k] \in Nat
    BY <2>1, SameOverlaps, OverlapsCounted DEF WindowsInv, HeapInv, TypeInv, TypeOK
  <2>3. ASSUME NEW k \in Keys \ {mine}  PROVE Cardinality(Overlaps(k))' + Owed(k)' <= staleEvictions'[k]
    <3>1. counters'[k] = counters[k] /\ staleEvictions'[k] = staleEvictions[k]
      BY <2>1 DEF WindowsInv, HeapInv, TypeInv, TypeOK
    <3>2. Lost(k)' => Lost(k)
      BY <2>1, <3>1, SameLost
    <3> QED  BY <2>2, <3>1, <3>2 DEF WindowsInv, Owed
  <2>4. CASE counters[mine] = Nil
    <3>1. counters'[mine] = counters[mine] /\ staleEvictions'[mine] = staleEvictions[mine]
      BY <2>1, <2>4 DEF WindowsInv, HeapInv, TypeInv, TypeOK
    <3>2. Lost(mine)' => Lost(mine)
      BY <2>1, <3>1, SameLost
    <3> QED  BY <2>1, <2>2, <2>3, <3>1, <3>2 DEF WindowsInv, Owed
  <2>5. CASE counters[mine] # Nil /\ counters[mine] = held[t]
    <3>1. Expired(held[t]) /\ LastEntry(mine) = held[t] /\ held[t] \in Ids /\ held[t] <= allocated
      BY <2>1, <2>5, Standing DEF WindowsInv, HeapInv, Heap
    <3>2. LastEntry(mine)' = LastEntry(mine)
      BY <2>1 DEF LastEntry
    <3>3. expires'[held[t]] = expires[held[t]]
      BY <3>1, OldDeadlines DEF WindowsInv
    <3>4. ~Lost(mine)'
      BY <2>1, <3>1, <3>2, <3>3 DEF Lost, Expired, NoExpiry
    <3>5. staleEvictions'[mine] = staleEvictions[mine]
      BY <2>1, <2>5
    <3> QED  BY <2>1, <2>2, <2>3, <3>4, <3>5 DEF WindowsInv, Owed
  <2>6. CASE counters[mine] # Nil /\ counters[mine] # held[t]
    <3>1. staleEvictions'[mine] = staleEvictions[mine] + 1
      BY <2>1, <2>6 DEF WindowsInv, HeapInv, TypeInv, TypeOK
    <3>2. Owed(mine) = 0 /\ Owed(mine)' <= 1
      BY <2>6 DEF Owed, Lost
    <3>3. Cardinality(Overlaps(mine)) + Owed(mine) <= staleEvictions[mine]
      BY <2>1 DEF WindowsInv
    <3>4. Owed(mine)' \in {0, 1}
      BY DEF Owed
    <3>5. Cardinality(Overlaps(mine))' + Owed(mine)' <= staleEvictions'[mine]
      BY <2>1, <2>2, <3>1, <3>2, <3>3, <3>4
    <3> QED  BY <2>3, <3>5
  <2> QED  BY <2>4, <2>5, <2>6
<1>4. ASSUME NEW t \in Threads, Install(t)
      PROVE  \A k \in Keys : Cardinality(Overlaps(k))' + Owed(k)' <= staleEvictions'[k]
  <2>1. /\ Key(t) \in Keys /\ pc[t] = "install" /\ held[t] \in Ids /\ Installed(Key(t), held[t], t)
        /\ call[t].op = "SetInt" /\ UNCHANGED <<now, staleEvictions>>
    BY <1>4, Facts DEF Install, Key, WindowsInv, HeapInv, TypeInv, Underway
  <2> QED  BY <2>1, InstalledWindows
<1>5. ASSUME NEW t \in Threads, Enter(t)
      PROVE  \A k \in Keys : Cardinality(Overlaps(k))' + Owed(k)' <= staleEvictions'[k]
  <2>0. UNCHANGED <<now, staleEvictions>>
    BY <1>5 DEF Enter
  <2>1. CASE counters[Key(t)] # Nil /\ ~Expired(counters[Key(t)])
    <3>1. UNCHANGED <<counters, log>>
      BY <1>5, <2>1 DEF Enter
    <3> QED  BY <1>2, <2>0, <3>1
  <2>2. CASE ~(counters[Key(t)] # Nil /\ ~Expired(counters[Key(t)]))
    <3>1. PICK e \in Ids : e = allocated'
      BY <1>5, <2>2, Entered DEF WindowsInv
    <3>2. Key(t) \in Keys /\ Installed(Key(t), e, t)
      BY <1>5, <2>2, <3>1, Entered DEF WindowsInv
    <3> QED  BY <2>0, <2>2, <3>2, InstalledWindows
  <2> QED  BY <2>1, <2>2
<1>6. CASE Tick
  <2>1. UNCHANGED <<counters, log, staleEvictions>>
    BY <1>6 DEF Tick, history
  <2>2. ASSUME NEW k \in Keys, Lost(k)'  PROVE Lost(k)
    <3>1. /\ counters[k] = Nil /\ log[k] # <<>> /\ log[k] \in Seq(Ids)
          /\ LastEntry(k)' = LastEntry(k) /\ ~Expired(LastEntry(k))'
      BY <2>1, <2>2 DEF Lost, LastEntry, Nil, WindowsInv, HeapInv, TypeInv, TypeOK
    <3>2. LastEntry(k) \in Ids /\ LastEntry(k) <= allocated
      BY <3>1, EmptySeq, LenProperties, HeapFacts DEF LastEntry, Entries, WindowsInv
    <3>3. now <= now' /\ now' \in Nat
      BY ClockAdvances DEF WindowsInv, HeapInv
    <3>4. ~Expired(LastEntry(k))
      <4>1. SUFFICES ASSUME Expired(LastEntry(k))  PROVE FALSE
        OBVIOUS
      <4>2. PICK e \in Ids : e = LastEntry(k)
        BY <3>2
      <4>3. Expired(e)'
        BY <3>2, <3>3, <4>1, <4>2, ExpiredStays DEF WindowsInv
      <4> QED  BY <3>1, <4>2, <4>3 DEF Expired, NoExpiry
    <3> QED  BY <3>1, <3>4 DEF Lost
  <2> QED  BY <2>1, <2>2, SameWindows
<1>7. UNCHANGED <<now, log, counters, staleEvictions>>
      \/ Tick \/ \E t \in Threads : Evict(t) \/ Install(t) \/ Enter(t)
  BY DEF Next, RefusedCall, Call, Lookup, Inspect, Load, Add, Close, vars, history
<1> QED  BY <1>2, <1>3, <1>4, <1>5, <1>6, <1>7

\* Windows of one counter follow one another, but for one window for each GetInt
\* that deletes an entry it had not looked at (local.go:203-213).
THEOREM OnlyStaleEvictionsEverOverlap == Spec => []OnlyStaleEvictionsOverlap
<1>1. ASSUME WindowsInv  PROVE OnlyStaleEvictionsOverlap
  <2>1. ASSUME NEW k \in Keys  PROVE Cardinality(Overlaps(k)) <= staleEvictions[k]
    <3>1. /\ Cardinality(Overlaps(k)) \in Nat /\ staleEvictions[k] \in Nat
          /\ Cardinality(Overlaps(k)) + Owed(k) <= staleEvictions[k]
      BY <1>1, OverlapsCounted DEF WindowsInv, HeapInv, TypeInv, TypeOK
    <3> QED  BY <3>1 DEF Owed
  <2> QED  BY <1>1, <2>1 DEF OnlyStaleEvictionsOverlap, WindowsInv, HeapInv, TypeInv
<1> QED  BY <1>1, WindowsInit, WindowsStep, PTL DEF Spec

-------------------------------------------------------------------------------
(* The lists.                                                              *)

Bounds(s, sp) ==
  [start |-> IF FromEnd(s, sp.start) < 0 THEN 0 ELSE FromEnd(s, sp.start),
   stop  |-> IF FromEnd(s, sp.stop) >= Len(s) THEN Len(s) - 1 ELSE FromEnd(s, sp.stop)]

LEMMA SpansAreInts ==
  ASSUME NEW sp \in Span \cup {NoSpan}
  PROVE  sp.start \in Int /\ sp.stop \in Int
<1>1. Indices \subseteq Int
  BY ListsAssumption
<1>2. CASE sp \in Span
  BY <1>1, <1>2 DEF Span
<1>3. CASE sp = NoSpan
  BY <1>3 DEF NoSpan
<1> QED  BY <1>2, <1>3

LEMMA BoundsOf ==
  ASSUME NEW S, NEW s \in Seq(S), NEW sp \in Span \cup {NoSpan}
  PROVE  LET a == Bounds(s, sp).start  b == Bounds(s, sp).stop
         IN  /\ a \in Nat /\ b \in Int /\ b < Len(s) /\ Len(s) \in Nat
             /\ Slice(s, sp) = IF a > b THEN << >> ELSE SubSeq(s, a + 1, b + 1)
             /\ Between(s, sp) = (a + 1)..(b + 1)
<1> DEFINE a == Bounds(s, sp).start  b == Bounds(s, sp).stop
<1>1. Len(s) \in Nat /\ DOMAIN s = 1..Len(s) /\ (s = << >> <=> Len(s) = 0)
  BY LenProperties, EmptySeq
<1>2. sp.start \in Int /\ sp.stop \in Int
  BY SpansAreInts
<1>3. /\ FromEnd(s, sp.start) \in Int /\ FromEnd(s, sp.stop) \in Int
      /\ a = IF FromEnd(s, sp.start) < 0 THEN 0 ELSE FromEnd(s, sp.start)
      /\ b = IF FromEnd(s, sp.stop) >= Len(s) THEN Len(s) - 1 ELSE FromEnd(s, sp.stop)
  BY <1>1, <1>2 DEF FromEnd, Bounds
<1>4. a \in Nat /\ b \in Int /\ b < Len(s)
  BY <1>1, <1>3
<1>5. Slice(s, sp) = IF s = << >> \/ a > b \/ a >= Len(s) THEN << >> ELSE SubSeq(s, a + 1, b + 1)
  BY <1>3 DEF Slice
<1>6. Between(s, sp) = (a + 1)..(b + 1)
  <2>1. Between(s, sp) = {i \in 1..Len(s) : FromEnd(s, sp.start) <= i - 1
                                              /\ i - 1 <= FromEnd(s, sp.stop)}
    BY <1>1 DEF Between, FromEnd
  <2>2. ASSUME NEW i \in Int
        PROVE  /\ i \in 1..Len(s)
               /\ FromEnd(s, sp.start) <= i - 1 /\ i - 1 <= FromEnd(s, sp.stop)
               <=> a + 1 <= i /\ i <= b + 1
    BY <1>1, <1>3
  <2>3. \A i \in Int : i \in Between(s, sp) <=> i \in (a + 1)..(b + 1)
    BY <1>4, <2>1, <2>2
  <2>4. Between(s, sp) \subseteq Int /\ (a + 1)..(b + 1) \subseteq Int
    BY <2>1
  <2> QED  BY <2>3, <2>4
<1>7. s = << >> \/ a > b \/ a >= Len(s) <=> a > b
  BY <1>1, <1>4
<1> QED  BY <1>1, <1>4, <1>5, <1>6, <1>7

LEMMA SliceType ==
  ASSUME NEW S, NEW s \in Seq(S), NEW sp \in Span \cup {NoSpan}
  PROVE  Slice(s, sp) \in Seq(S) /\ Len(Slice(s, sp)) <= Len(s)
<1> DEFINE a == Bounds(s, sp).start  b == Bounds(s, sp).stop
<1>1. /\ a \in Nat /\ b \in Int /\ b < Len(s) /\ Len(s) \in Nat
      /\ Slice(s, sp) = IF a > b THEN << >> ELSE SubSeq(s, a + 1, b + 1)
  BY BoundsOf
<1> HIDE DEF a, b
<1>2. CASE a > b
  BY <1>1, <1>2, EmptySeq
<1>3. CASE ~ (a > b)
  <2>1. \A i \in (a + 1)..(b + 1) : s[i] \in S
    BY <1>1, <1>3, ElementOfSeq
  <2>2. /\ a + 1 \in Int /\ b + 1 \in Int
    BY <1>1
  <2>3. /\ SubSeq(s, a + 1, b + 1) \in Seq(S)
        /\ Len(SubSeq(s, a + 1, b + 1)) = IF a + 1 <= b + 1 THEN (b + 1) - (a + 1) + 1 ELSE 0
    BY <2>1, <2>2, SubSeqProperties
  <2> QED  BY <1>1, <1>3, <2>3
<1> QED  BY <1>1, <1>2, <1>3

LEMMA IntervalSize ==
  ASSUME NEW m \in Int, NEW n \in Int
  PROVE  IsFiniteSet(m..n) /\ Cardinality(m..n) = IF m > n THEN 0 ELSE n - m + 1
BY FS_Interval

\* The code's two corrections and its slice are what the documentation of Redis says.
LEMMA SliceIsSelected ==
  ASSUME NEW S, NEW s \in Seq(S), NEW sp \in Span \cup {NoSpan}
  PROVE  Slice(s, sp) = Selected(s, sp)
<1> DEFINE a == Bounds(s, sp).start  b == Bounds(s, sp).stop
           chosen == Between(s, sp)
           nth(n) == CHOOSE i \in chosen : Cardinality({j \in chosen : j <= i}) = n
<1>1. /\ a \in Nat /\ b \in Int /\ b < Len(s) /\ Len(s) \in Nat
      /\ Slice(s, sp) = IF a > b THEN << >> ELSE SubSeq(s, a + 1, b + 1)
      /\ chosen = (a + 1)..(b + 1)
  BY BoundsOf
<1>2. Selected(s, sp) = [n \in 1..Cardinality(chosen) |-> s[nth(n)]]
  BY DEF Selected
<1> HIDE DEF a, b, chosen
<1>3. Cardinality(chosen) = IF a > b THEN 0 ELSE b - a + 1
  <2>1. a + 1 \in Int /\ b + 1 \in Int
    BY <1>1
  <2>2. Cardinality(chosen) = IF a + 1 > b + 1 THEN 0 ELSE (b + 1) - (a + 1) + 1
    BY <1>1, <2>1, IntervalSize
  <2> QED  BY <1>1, <2>2
<1>4. CASE a > b
  <2>1. 1..Cardinality(chosen) = {}
    BY <1>3, <1>4
  <2>2. Selected(s, sp) = [n \in {} |-> s[nth(n)]]
    BY <1>2, <2>1
  <2>3. Selected(s, sp) = << >>
    BY <2>2
  <2> QED  BY <1>1, <1>4, <2>3
<1>5. CASE ~ (a > b)
  <2> DEFINE len == b - a + 1
  <2>1. len \in Nat /\ Cardinality(chosen) = len /\ a + 1 \in Int /\ b + 1 \in Int
        /\ (b + 1) - (a + 1) + 1 = len
    BY <1>1, <1>3, <1>5
  <2>2. ASSUME NEW i \in chosen  PROVE Cardinality({j \in chosen : j <= i}) = i - a
    <3>1. i \in Int /\ a + 1 <= i /\ i <= b + 1
      BY <1>1, <2>2
    <3>2. {j \in chosen : j <= i} = (a + 1)..i
      <4>1. \A j \in Int : j \in {k \in chosen : k <= i} <=> j \in (a + 1)..i
        BY <1>1, <3>1
      <4>2. chosen \subseteq Int /\ (a + 1)..i \subseteq Int
        BY <1>1
      <4> QED  BY <4>1, <4>2
    <3>3. Cardinality((a + 1)..i) = IF a + 1 > i THEN 0 ELSE i - (a + 1) + 1
      BY <2>1, <3>1, IntervalSize
    <3>4. (IF a + 1 > i THEN 0 ELSE i - (a + 1) + 1) = i - a
      BY <1>1, <3>1
    <3> QED  BY <3>2, <3>3, <3>4
  <2>3. ASSUME NEW n \in 1..len  PROVE nth(n) = a + n
    <3>1. n \in Int /\ a + n \in Int /\ a + 1 <= a + n /\ a + n <= b + 1
      BY <1>1, <2>1, <2>3
    <3>2. a + n \in chosen
      BY <1>1, <3>1
    <3>3. \A i \in chosen : i \in Int
      BY <1>1
    <3>4. ASSUME NEW i \in chosen
          PROVE  Cardinality({j \in chosen : j <= i}) = n <=> i = a + n
      <4>1. Cardinality({j \in chosen : j <= i}) = i - a
        BY <2>2
      <4>2. i - a = n <=> i = a + n
        BY <1>1, <3>1, <3>3
      <4> QED  BY <4>1, <4>2
    <3> QED  BY <3>2, <3>4
  <2>4. \A i \in (a + 1)..(b + 1) : s[i] \in S
    BY <1>1, ElementOfSeq
  <2> DEFINE slice == SubSeq(s, a + 1, b + 1)
  <2>5. /\ slice \in Seq(S)
        /\ Len(slice) = IF a + 1 <= b + 1 THEN (b + 1) - (a + 1) + 1 ELSE 0
        /\ \A i \in 1..((b + 1) - (a + 1) + 1) : slice[i] = s[(a + 1) + i - 1]
    BY <2>1, <2>4, SubSeqProperties
  <2>6. Len(slice) = len /\ \A i \in 1..len : slice[i] = s[a + i]
    <3>1. \A i \in 1..len : (a + 1) + i - 1 = a + i
      BY <1>1
    <3>2. a + 1 <= b + 1
      BY <1>1, <1>5
    <3> HIDE DEF slice
    <3> QED  BY <2>1, <2>5, <3>1, <3>2
  <2>7. slice = [n \in 1..len |-> slice[n]]
    BY <2>5, <2>6, SeqDef, LenProperties
  <2>8. [n \in 1..len |-> slice[n]] = [n \in 1..len |-> s[nth(n)]]
    <3> HIDE DEF slice, nth, len
    <3> QED  BY <2>3, <2>6
  <2>9. Slice(s, sp) = slice
    BY <1>1, <1>5
  <2> HIDE DEF slice, nth, len
  <2> QED  BY <1>2, <2>1, <2>7, <2>8, <2>9
<1> QED  BY <1>4, <1>5

LEMMA ListsTypesInit == ListsInit => ListsTypes
<1> SUFFICES ASSUME ListsInit  PROVE ListsTypes
  OBVIOUS
<1>1. 0 \in 0..MaxPushes
  BY ListsAssumption
<1>2. << >> \in Seq(ListIds)
  BY EmptySeq
<1> QED  BY <1>1, <1>2 DEF ListsInit, ListsTypes

\* Who holds an entry to push into it.
Pushing(e) == {t \in Callers : doing[t] = "push" /\ taken[t] = e}

\* The map has the newest entry or none; the older ones left it by a removal, empty, and
\* can only be filled by those who held them then.
OrphanInv ==
  /\ lists # NoList => lists = created
  /\ created = removals + (IF lists = NoList THEN 0 ELSE 1)
  /\ created <= pushes
  /\ \A t \in Callers : doing[t] # "idle" => taken[t] \in 1..created
  /\ \A t \in Callers : doing[t] = "push" => pushed[t] \in ListIds
  /\ \A e \in 1..created : e # lists =>
       Len(data[e]) + Cardinality(Pushing(e)) <= Cardinality(Callers)

LEMMA PushingCounted ==
  ASSUME NEW e
  PROVE  /\ IsFiniteSet(Pushing(e)) /\ Cardinality(Pushing(e)) \in Nat
         /\ Cardinality(Callers) \in Nat /\ Cardinality(Pushing(e)) <= Cardinality(Callers)
BY ListsAssumption, FS_Subset, FS_CardinalityType DEF Pushing

LEMMA ListFacts ==
  ASSUME ListsTypes, OrphanInv
  PROVE  /\ MaxPushes \in Nat /\ pushes \in Nat /\ created \in Nat /\ removals \in Nat
         /\ created <= pushes /\ pushes <= MaxPushes /\ lists \in Nat
         /\ 1..created \subseteq ListIds
         /\ \A e \in ListIds : e \in Nat /\ e # NoList
BY ListsAssumption DEF ListsTypes, OrphanInv, ListIds, NoList

\* The entry of a caller is an entry, and so is what LPush pushes.
LEMMA ListsTypesStep ==
  ListsTypes /\ OrphanInv /\ [ListsNext]_listsVars => ListsTypes'
<1> SUFFICES ASSUME ListsTypes, OrphanInv, [ListsNext]_listsVars  PROVE ListsTypes'
  OBVIOUS
<1> USE DEF ListsTypes
<1>0. /\ MaxPushes \in Nat /\ pushes \in Nat /\ created \in Nat /\ removals \in Nat
      /\ created <= pushes /\ pushes <= MaxPushes /\ lists \in Nat
      /\ 1..created \subseteq ListIds
  BY ListFacts
<1>1. ASSUME NEW t \in Callers, LPush(t)  PROVE ListsTypes'
  <2>1. pushes' = pushes + 1 /\ pushes' \in 0..MaxPushes /\ pushes < MaxPushes
    BY <1>0, <1>1 DEF LPush
  <2>2. created + 1 \in ListIds /\ created + 1 \in 0..MaxPushes
    BY <1>0, <2>1 DEF ListIds
  <2>3. lists' \in ListIds \cup {NoList} /\ created' \in 0..MaxPushes
    BY <1>1, <2>2 DEF LPush
  <2> QED  BY <1>1, <2>1, <2>3 DEF LPush
<1>2. ASSUME NEW t \in Callers, Finish(t)
      PROVE  /\ doing' \in [Callers -> {"idle", "push", "trim", "range"}]
             /\ taken' \in [Callers -> ListIds \cup {NoList}]
             /\ pushed' \in [Callers -> 0..MaxPushes]
             /\ span' \in [Callers -> Span \cup {NoSpan}]
  BY <1>0, <1>2 DEF Finish
<1>3. ASSUME NEW t \in Callers, doing[t] # "idle"
      PROVE  taken[t] \in ListIds /\ data[taken[t]] \in Seq(ListIds)
  BY <1>0, <1>3 DEF OrphanInv
<1>4. ASSUME NEW t \in Callers, Push(t)  PROVE ListsTypes'
  <2>1. <<pushed[t]>> \o data[taken[t]] \in Seq(ListIds)
    <3>1. pushed[t] \in ListIds
      BY <1>4 DEF Push, OrphanInv
    <3>2. <<pushed[t]>> \in Seq(ListIds)
      BY <3>1
    <3> QED  BY <1>3, <1>4, <3>2, ConcatProperties DEF Push
  <2>2. data' \in [ListIds -> Seq(ListIds)]
    BY <1>4, <2>1 DEF Push
  <2> QED  BY <1>2, <1>4, <2>2 DEF Push
<1>5. ASSUME NEW t \in Callers, NEW op \in {"trim", "range"}, NEW sp \in Span, Find(t, op, sp)
      PROVE  ListsTypes'
  BY <1>5 DEF Find
<1>6. ASSUME NEW t \in Callers, LTrim(t)  PROVE ListsTypes'
  <2>1. Slice(data[taken[t]], span[t]) \in Seq(ListIds)
    BY <1>3, <1>6, SliceType DEF LTrim
  <2>2. data' \in [ListIds -> Seq(ListIds)]
    BY <1>6, <2>1 DEF LTrim
  <2> QED  BY <1>2, <1>6, <2>2 DEF LTrim
<1>7. ASSUME NEW t \in Callers, LRange(t)  PROVE ListsTypes'
  <2>1. result' \in Seq(ListIds)
    BY <1>3, <1>7, SliceType DEF LRange
  <2> QED  BY <1>2, <1>7, <2>1 DEF LRange
<1>8. CASE Collect \/ Shut \/ CleanupEnds \/ UNCHANGED listsVars
  BY <1>8 DEF Collect, Shut, CleanupEnds, listsVars, args
<1>9. CASE RemoveEmpty
  <2>1. removals' \in Nat /\ lists' \in ListIds \cup {NoList}
    BY <1>0, <1>9 DEF RemoveEmpty
  <2> QED  BY <1>9, <2>1 DEF RemoveEmpty, args
<1> QED  BY <1>1, <1>4, <1>5, <1>6, <1>7, <1>8, <1>9 DEF ListsNext

LEMMA OrphanInit == ListsInit => OrphanInv
BY ListsAssumption DEF ListsInit, OrphanInv, NoList

LEMMA OrphanStep ==
  ListsTypes /\ OrphanInv /\ [ListsNext]_listsVars => OrphanInv'
<1> SUFFICES ASSUME ListsTypes, OrphanInv, [ListsNext]_listsVars  PROVE OrphanInv'
  OBVIOUS
<1>0. /\ MaxPushes \in Nat /\ pushes \in Nat /\ created \in Nat /\ removals \in Nat
      /\ created <= pushes /\ pushes <= MaxPushes /\ lists \in Nat
      /\ 1..created \subseteq ListIds
      /\ \A e \in ListIds : e \in Nat /\ e # NoList
  BY ListFacts
<1>1. ASSUME NEW t \in Callers, LPush(t)  PROVE OrphanInv'
  <2>1. /\ doing[t] = "idle" /\ pushes' = pushes + 1 /\ pushes < MaxPushes
        /\ doing' = [doing EXCEPT ![t] = "push"] /\ taken' = [taken EXCEPT ![t] = lists']
        /\ pushed' = [pushed EXCEPT ![t] = pushes + 1]
        /\ UNCHANGED <<data, removals>>
    BY <1>1 DEF LPush
  <2>2. lists' # NoList /\ lists' = created' /\ created' = removals + 1
        /\ (lists' = lists \/ lists = NoList) /\ created' <= pushes + 1 /\ created' \in Nat
        /\ created <= created' /\ (lists # NoList => created' = created)
        /\ (lists = NoList => created' = created + 1)
    BY <1>0, <1>1 DEF LPush, OrphanInv, NoList
  <2>3. \A u \in Callers : doing'[u] # "idle" => taken'[u] \in 1..created'
    <3>1. created' \in 1..created' /\ \A i \in 1..created : i \in 1..created'
      BY <1>0, <2>2
    <3> QED  BY <2>1, <2>2, <3>1 DEF ListsTypes, OrphanInv
  <2>4. \A u \in Callers : doing'[u] = "push" => pushed'[u] \in ListIds
    BY <1>0, <2>1 DEF ListsTypes, OrphanInv, ListIds
  <2>5. ASSUME NEW e \in 1..created', e # lists'
        PROVE  Len(data'[e]) + Cardinality(Pushing(e)') <= Cardinality(Callers)
    <3>1. e \in 1..created /\ e # lists
      BY <1>0, <2>2, <2>5 DEF NoList
    <3>2. Pushing(e)' = Pushing(e)
      BY <2>1, <2>5 DEF Pushing, ListsTypes
    <3> QED  BY <2>1, <3>1, <3>2 DEF OrphanInv
  <2> QED  BY <2>1, <2>2, <2>3, <2>4, <2>5 DEF OrphanInv
\* The other operations begin or end, and change only the entry they took.
<1>2. ASSUME UNCHANGED <<lists, created, pushes, removals>>,
             \A u \in Callers : doing'[u] # "idle" => taken'[u] \in 1..created,
             \A u \in Callers : doing'[u] = "push" => doing[u] = "push" /\ pushed'[u] = pushed[u],
             \A e \in 1..created : e # lists =>
               Len(data'[e]) + Cardinality(Pushing(e)') <= Cardinality(Callers)
      PROVE  OrphanInv'
  BY <1>2 DEF OrphanInv
<1>3. ASSUME NEW t \in Callers, doing[t] # "idle", Finish(t)
      PROVE  /\ \A u \in Callers : doing'[u] # "idle" => taken'[u] \in 1..created
             /\ \A u \in Callers : doing'[u] = "push" => doing[u] = "push" /\ pushed'[u] = pushed[u]
             /\ \A e : Pushing(e)' = Pushing(e) \ {t}
  BY <1>3 DEF Finish, ListsTypes, OrphanInv, Pushing
<1>4. ASSUME NEW t \in Callers, Push(t)  PROVE OrphanInv'
  <2>1. ASSUME NEW e \in 1..created, e # lists
        PROVE  Len(data'[e]) + Cardinality(Pushing(e)') <= Cardinality(Callers)
    <3>0. e \in ListIds /\ data[e] \in Seq(ListIds) /\ Len(data[e]) \in Nat
      BY <1>0, <2>1, LenProperties DEF ListsTypes
    <3>1. Pushing(e)' = Pushing(e) \ {t}
      BY <1>3, <1>4 DEF Push
    <3>2. CASE taken[t] = e
      <4>1. data'[e] = <<pushed[t]>> \o data[e]
        BY <1>4, <3>0, <3>2 DEF Push, ListsTypes
      <4>2. Len(data'[e]) = Len(data[e]) + 1
        <5>1. <<pushed[t]>> \in Seq(ListIds) /\ Len(<<pushed[t]>>) = 1
          <6>1. pushed[t] \in ListIds
            BY <1>4 DEF Push, OrphanInv
          <6> QED  BY <6>1
        <5>2. Len(data'[e]) = 1 + Len(data[e])
          BY <3>0, <4>1, <5>1, ConcatProperties
        <5> QED  BY <3>0, <5>2
      <4>3. t \in Pushing(e)
        BY <1>4, <3>2 DEF Push, Pushing
      <4>4. Cardinality(Pushing(e)') = Cardinality(Pushing(e)) - 1
        BY <3>1, <4>3, PushingCounted, FS_RemoveElement
      <4>5. Len(data[e]) + Cardinality(Pushing(e)) <= Cardinality(Callers)
        BY <2>1 DEF OrphanInv
      <4>6. Cardinality(Pushing(e)) \in Nat /\ Cardinality(Callers) \in Nat
        BY PushingCounted
      <4> QED  BY <3>0, <4>2, <4>4, <4>5, <4>6
    <3>3. CASE taken[t] # e
      <4>1. data'[e] = data[e]
        BY <1>4, <3>0, <3>3 DEF Push, ListsTypes
      <4>2. Pushing(e)' = Pushing(e)
        BY <3>1, <3>3 DEF Pushing
      <4> QED  BY <2>1, <4>1, <4>2 DEF OrphanInv
    <3> QED  BY <3>2, <3>3
  <2>2. doing[t] # "idle" /\ Finish(t) /\ UNCHANGED <<lists, created, pushes, removals>>
    BY <1>4 DEF Push
  <2> QED  BY <1>2, <1>3, <2>1, <2>2
<1>5. ASSUME NEW t \in Callers, NEW op \in {"trim", "range"}, NEW sp \in Span, Find(t, op, sp)
      PROVE  OrphanInv'
  <2>1. /\ UNCHANGED <<lists, created, pushes, removals, data>>
        /\ \A u \in Callers : doing'[u] = "push" => doing[u] = "push" /\ pushed'[u] = pushed[u]
    BY <1>5 DEF Find, ListsTypes
  <2>2. \A u \in Callers : doing'[u] # "idle" => taken'[u] \in 1..created
    <3>1. lists \in 1..created
      BY <1>0, <1>5 DEF Find, OrphanInv, NoList
    <3> QED  BY <1>5, <3>1 DEF Find, ListsTypes, OrphanInv
  <2>3. \A e : Pushing(e)' = Pushing(e)
    BY <1>5 DEF Find, ListsTypes, Pushing
  <2> QED  BY <1>2, <2>1, <2>2, <2>3 DEF OrphanInv
<1>6. ASSUME NEW t \in Callers, LTrim(t) \/ LRange(t)  PROVE OrphanInv'
  <2>1. doing[t] # "idle" /\ Finish(t) /\ UNCHANGED <<lists, created, pushes, removals>>
    BY <1>6 DEF LTrim, LRange
  <2>2. ASSUME NEW e \in 1..created, e # lists
        PROVE  Len(data'[e]) + Cardinality(Pushing(e)') <= Cardinality(Callers)
    <3>0. e \in ListIds /\ data[e] \in Seq(ListIds) /\ Len(data[e]) \in Nat
      BY <1>0, <2>2, LenProperties DEF ListsTypes
    <3>1. Pushing(e)' = Pushing(e)
      BY <1>3, <1>6, <2>1 DEF Pushing, LTrim, LRange
    <3>2. Len(data'[e]) <= Len(data[e]) /\ Len(data'[e]) \in Nat
      <4>1. CASE data'[e] = data[e]
        BY <3>0, <4>1
      <4>2. CASE data'[e] = Slice(data[e], span[t])
        <5>1. span[t] \in Span \cup {NoSpan}
          BY DEF ListsTypes
        <5> QED  BY <3>0, <4>2, <5>1, SliceType, LenProperties
      <4>3. data'[e] = data[e] \/ data'[e] = Slice(data[e], span[t])
        BY <1>6, <3>0 DEF LTrim, LRange, ListsTypes
      <4> QED  BY <4>1, <4>2, <4>3
    <3>3. Len(data[e]) + Cardinality(Pushing(e)) <= Cardinality(Callers)
      BY <2>2 DEF OrphanInv
    <3> QED  BY <3>0, <3>1, <3>2, <3>3, PushingCounted
  <2> QED  BY <1>2, <1>3, <2>1, <2>2
<1>7. CASE RemoveEmpty
  <2>1. UNCHANGED <<created, pushes, doing, taken, pushed, data>>
    BY <1>7 DEF RemoveEmpty, args
  <2>2. \A e : Pushing(e)' = Pushing(e)
    BY <2>1 DEF Pushing
  <2>3. CASE UNCHANGED <<lists, removals>>
    BY <2>1, <2>2, <2>3 DEF OrphanInv
  <2>4. CASE lists # NoList /\ data[lists] = << >> /\ lists' = NoList /\ removals' = removals + 1
    <3>1. ASSUME NEW e \in 1..created
          PROVE  Len(data[e]) + Cardinality(Pushing(e)) <= Cardinality(Callers)
      <4>1. CASE e = lists
        BY <2>4, <4>1, PushingCounted, EmptySeq
      <4> QED  BY <4>1 DEF OrphanInv
    <3>2. created = removals' + 0
      BY <1>0, <2>4 DEF OrphanInv
    <3> QED  BY <2>1, <2>2, <2>4, <3>1, <3>2 DEF OrphanInv
  <2> QED  BY <1>7, <2>3, <2>4 DEF RemoveEmpty
<1>8. CASE Collect \/ Shut \/ CleanupEnds \/ UNCHANGED listsVars
  <2>1. UNCHANGED <<lists, removals, created, pushes, doing, taken, pushed, data>>
    BY <1>8 DEF Collect, Shut, CleanupEnds, listsVars, args
  <2> QED  BY <2>1 DEF OrphanInv, Pushing
<1> QED  BY <1>1, <1>4, <1>5, <1>6, <1>7, <1>8 DEF ListsNext

\* Lists drop out of the map only by cleanups, and take along at most one element for
\* each thread.
THEOREM OrphansAreBounded == ListsSpec => []OrphansBounded
<1>1. ListsInit => ListsTypes /\ OrphanInv
  BY ListsTypesInit, OrphanInit
<1>2. ListsTypes /\ OrphanInv /\ [ListsNext]_listsVars => (ListsTypes /\ OrphanInv)'
  BY ListsTypesStep, OrphanStep
<1>3. ListsTypes /\ OrphanInv => OrphansBounded
  <2> SUFFICES ASSUME ListsTypes, OrphanInv  PROVE OrphansBounded
    OBVIOUS
  <2>0. created \in Nat /\ removals \in Nat /\ 1..created \subseteq ListIds
    BY ListFacts
  <2>1. Cardinality(Orphans) <= removals
    <3>1. CASE lists = NoList
      <4>1. Orphans = 1..created /\ created = removals
        BY <2>0, <3>1 DEF Orphans, OrphanInv, NoList
      <4>2. 1 \in Int /\ created \in Int
        BY <2>0
      <4>3. Cardinality(1..created) = IF 1 > created THEN 0 ELSE created - 1 + 1
        BY <4>2, IntervalSize
      <4> QED  BY <2>0, <4>1, <4>3
    <3>2. CASE lists # NoList
      <4>1. lists = created /\ created = removals + 1
        BY <3>2 DEF OrphanInv
      <4>2. Orphans = 1..removals
        BY <2>0, <4>1 DEF Orphans
      <4>3. 1 \in Int /\ removals \in Int
        BY <2>0
      <4>4. Cardinality(1..removals) = IF 1 > removals THEN 0 ELSE removals - 1 + 1
        BY <4>3, IntervalSize
      <4> QED  BY <2>0, <4>2, <4>4
    <3> QED  BY <3>1, <3>2
  <2>2. ASSUME NEW e \in Orphans  PROVE Len(data[e]) <= Cardinality(Callers)
    <3>1. Len(data[e]) \in Nat
      BY <2>0, <2>2, LenProperties DEF Orphans, ListsTypes
    <3>2. Len(data[e]) + Cardinality(Pushing(e)) <= Cardinality(Callers)
      BY <2>2 DEF Orphans, OrphanInv
    <3> QED  BY <3>1, <3>2, PushingCounted
  <2> QED  BY <2>1, <2>2 DEF OrphansBounded
<1> QED  BY <1>1, <1>2, <1>3, PTL DEF ListsSpec

\* LTrim leaves, and LRange returns, the elements that Redis documents, for offsets of
\* any sign and size.
THEOREM SlicesAlwaysLikeRedis == ListsSpec => SlicesLikeRedis
<1>1. ListsInit => ListsTypes /\ OrphanInv
  BY ListsTypesInit, OrphanInit
<1>2. ListsTypes /\ OrphanInv /\ [ListsNext]_listsVars => (ListsTypes /\ OrphanInv)'
  BY ListsTypesStep, OrphanStep
<1> DEFINE Sliced(t) ==
      /\ doing[t] = "trim" /\ doing'[t] = "idle"
           => data'[taken[t]] = Selected(data[taken[t]], span[t])
      /\ doing[t] = "range" /\ doing'[t] = "idle"
           => result' = Selected(data[taken[t]], span[t])
<1>3. ListsTypes /\ OrphanInv /\ [ListsNext]_listsVars
        => [\A t \in Callers : Sliced(t)]_listsVars
  <2> SUFFICES ASSUME ListsTypes, OrphanInv, ListsNext, NEW t \in Callers,
                      doing[t] \in {"trim", "range"}, doing'[t] = "idle"
               PROVE  Sliced(t)
    OBVIOUS
  <2>1. taken[t] \in ListIds
    BY ListFacts DEF OrphanInv
  <2>2. Slice(data[taken[t]], span[t]) = Selected(data[taken[t]], span[t])
    <3>1. data[taken[t]] \in Seq(ListIds) /\ span[t] \in Span \cup {NoSpan}
      BY <2>1 DEF ListsTypes
    <3> QED  BY <3>1, SliceIsSelected
  <2>3. LTrim(t) \/ LRange(t)
    BY DEF ListsNext, ListsTypes, LPush, Push, Find, LTrim, LRange, Finish, Collect, RemoveEmpty,
           Shut, CleanupEnds
  <2>4. CASE LTrim(t)
    BY <2>1, <2>2, <2>4 DEF LTrim, ListsTypes
  <2>5. CASE LRange(t)
    BY <2>2, <2>5 DEF LRange
  <2> QED  BY <2>3, <2>4, <2>5
<1> QED  BY <1>1, <1>2, <1>3, PTL DEF ListsSpec, SlicesLikeRedis
================================================================================
