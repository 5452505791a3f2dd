----------------------------- MODULE LocalCounters -----------------------------
(***************************************************************************)
(* The counter operations of the local storage,                            *)
(* internal/storage/local/local.go: GetInt, SetInt, Incr/IncrBy and        *)
(* IncrWithTTL, with the steps other goroutines can come between.          *)
(*                                                                         *)
(* The map `counters` is guarded by countersMu and holds POINTERS: an      *)
(* operation takes the pointer under the lock and uses the entry after it  *)
(* has released the lock.  Entries are therefore modelled as a heap, by    *)
(* allocation order; 0 is the nil pointer.  A critical section is one step *)
(* (nothing it does can be seen before it unlocks), and so is the atomic   *)
(* Add of an entry's value.                                                *)
(***************************************************************************)
EXTENDS Naturals, Sequences, FiniteSets

CONSTANTS Threads,     \* goroutines that use the storage
          Keys,
          Ops,         \* the operations they call
          TTLs,        \* the ttl arguments; 0 is "no ttl"
          MaxTime,     \* bound: clock ticks
          MaxUpdates   \* bound: calls other than GetInt, hence entries as well

AllOps == {"GetInt", "SetInt", "IncrBy", "IncrWithTTL"}

ASSUME CountersAssumption ==
  /\ IsFiniteSet(Threads)
  /\ Ops \subseteq AllOps
  /\ TTLs \subseteq Nat
  /\ MaxTime \in Nat \ {0} /\ MaxUpdates \in Nat

Ids == 1..MaxUpdates
Nil == 0
NoExpiry == 0
Idle == [op |-> "none"]
Request == [op : Ops, key : Keys, ttl : TTLs]
PCs == {"idle", "lookup", "inspect", "load", "evict", "install", "enter", "add"}

VARIABLES now, closed,
          counters,       \* key -> pointer
          allocated,      \* entries allocated so far
          value, expires, \* the fields of each entry
          updates,        \* calls other than GetInt so far
          pc, call,
          held,           \* the pointer the thread took from the map
          log,            \* history: the entries installed under each key, in order
          born, maker,    \* history: when an entry was installed, by which operation
          staleEvictions  \* history: evictions of an entry other than the one seen

thread == <<updates, pc, call, held>>
history == <<log, born, maker, staleEvictions>>
vars == <<now, closed, counters, allocated, value, expires, thread, history>>

TypeOK ==
  /\ now \in 1..MaxTime /\ closed \in BOOLEAN
  /\ counters \in [Keys -> Ids \cup {Nil}]
  /\ allocated \in 0..MaxUpdates /\ updates \in 0..MaxUpdates
  /\ value \in [Ids -> Nat] /\ expires \in [Ids -> Nat]
  /\ pc \in [Threads -> PCs]
  /\ call \in [Threads -> Request \cup {Idle}]
  /\ held \in [Threads -> Ids \cup {Nil}]
  /\ log \in [Keys -> Seq(Ids)]
  /\ born \in [Ids -> Nat] /\ maker \in [Ids -> Ops \cup {"none"}]
  /\ staleEvictions \in [Keys -> Nat]

Init ==
  /\ now = 1 /\ closed = FALSE
  /\ counters = [k \in Keys |-> Nil]
  /\ allocated = 0 /\ updates = 0
  /\ value = [e \in Ids |-> 0] /\ expires = [e \in Ids |-> NoExpiry]
  /\ pc = [t \in Threads |-> "idle"]
  /\ call = [t \in Threads |-> Idle]
  /\ held = [t \in Threads |-> Nil]
  /\ log = [k \in Keys |-> <<>>]
  /\ born = [e \in Ids |-> 0]
  /\ maker = [e \in Ids |-> "none"]
  /\ staleEvictions = [k \in Keys |-> 0]

\* time.Now().After(entry.expires), for an entry that has an expiry.
Expired(e) == expires[e] # NoExpiry /\ now > expires[e]

Deadline(d) == IF d > 0 THEN now + d ELSE NoExpiry

Goto(t, place) == pc' = [pc EXCEPT ![t] = place]

\* The operation returns; what it returns is not recorded (the value an increment
\* made or a read found, ErrKeyNotFound, ErrStorageClosed).
Return(t) ==
  /\ Goto(t, "idle")
  /\ held' = [held EXCEPT ![t] = Nil]
  /\ call' = [call EXCEPT ![t] = Idle]

Key(t) == call[t].key

Installed(k, e, t) ==
  /\ counters' = [counters EXCEPT ![k] = e]
  /\ log' = [log EXCEPT ![k] = Append(@, e)]
  /\ born' = [born EXCEPT ![e] = now]
  /\ maker' = [maker EXCEPT ![e] = call[t].op]

-------------------------------------------------------------------------------
FirstStep(o) == CASE o = "GetInt" -> "lookup"
                  [] o = "SetInt" -> "install"
                  [] OTHER -> "enter"

\* Every operation first looks at the closed flag.
RefusedCall(t) ==
  /\ pc[t] = "idle"
  /\ closed
  /\ Return(t)
  /\ UNCHANGED <<now, closed, counters, allocated, value, expires, updates, history>>

\* SetInt builds its entry before it takes the lock.
Call(t, o, k, d) ==
  /\ pc[t] = "idle"
  /\ ~closed
  /\ o # "GetInt" => updates < MaxUpdates
  /\ updates' = IF o = "GetInt" THEN updates ELSE updates + 1
  /\ call' = [call EXCEPT ![t] = [op |-> o, key |-> k, ttl |-> d]]
  /\ Goto(t, FirstStep(o))
  /\ IF o = "SetInt"
       THEN /\ allocated' = allocated + 1
            /\ held' = [held EXCEPT ![t] = allocated']
            /\ expires' = [expires EXCEPT ![allocated'] = Deadline(d)]
       ELSE UNCHANGED <<allocated, expires, held>>
  /\ UNCHANGED <<now, closed, counters, value, history>>

\* GetInt: the lookup under the read lock ...
Lookup(t) ==
  /\ pc[t] = "lookup"
  /\ IF counters[Key(t)] = Nil
       THEN Return(t)
       ELSE /\ held' = [held EXCEPT ![t] = counters[Key(t)]]
            /\ Goto(t, "inspect")
            /\ UNCHANGED call
  /\ UNCHANGED <<now, closed, counters, allocated, value, expires, updates, history>>

\* Mutant: a read drops the entry, expired or not.
InspectAndDrop(t) ==
  /\ pc[t] = "inspect"
  /\ Goto(t, "evict")
  /\ UNCHANGED <<now, closed, counters, allocated, value, expires,
                 updates, call, held, history>>

\* ... the look at the entry's deadline, with no lock ...
Inspect(t) ==
  /\ pc[t] = "inspect"
  /\ Goto(t, IF Expired(held[t]) THEN "evict" ELSE "load")
  /\ UNCHANGED <<now, closed, counters, allocated, value, expires,
                 updates, call, held, history>>

\* ... and the delete under the write lock, which removes whatever entry the map
\* holds by then ...
Evict(t) ==
  /\ pc[t] = "evict"
  /\ counters' = [counters EXCEPT ![Key(t)] = Nil]
  /\ staleEvictions' =
       IF counters[Key(t)] \in {Nil, held[t]} THEN staleEvictions
       ELSE [staleEvictions EXCEPT ![Key(t)] = @ + 1]
  /\ Return(t)
  /\ UNCHANGED <<now, closed, allocated, value, expires, updates, log, born, maker>>

\* ... or the atomic load of the value.
Load(t) ==
  /\ pc[t] = "load"
  /\ Return(t)
  /\ UNCHANGED <<now, closed, counters, allocated, value, expires, updates, history>>

\* SetInt installs its entry under the lock.
Install(t) ==
  /\ pc[t] = "install"
  /\ Installed(Key(t), held[t], t)
  /\ Return(t)
  /\ UNCHANGED <<now, closed, allocated, value, expires, updates, staleEvictions>>

\* Mutant: every increment extends the window of the entry it finds.
EnterAndExtend(t) ==
  /\ pc[t] = "enter"
  /\ LET current == counters[Key(t)]
     IN IF current # Nil /\ ~Expired(current)
          THEN /\ held' = [held EXCEPT ![t] = current]
               /\ expires' = [expires EXCEPT ![current] = Deadline(call[t].ttl)]
               /\ UNCHANGED <<counters, allocated, log, born, maker>>
          ELSE /\ allocated' = allocated + 1
               /\ held' = [held EXCEPT ![t] = allocated']
               /\ expires' = [expires EXCEPT ![allocated'] = Deadline(call[t].ttl)]
               /\ Installed(Key(t), allocated', t)
  /\ Goto(t, "add")
  /\ UNCHANGED <<now, closed, value, updates, call, staleEvictions>>

\* The locked part of IncrBy and IncrWithTTL: find the entry, drop an expired
\* one, create a missing one.  Only IncrWithTTL gives a new entry a deadline.
Enter(t) ==
  /\ pc[t] = "enter"
  /\ LET current == counters[Key(t)]
     IN IF current # Nil /\ ~Expired(current)
          THEN /\ held' = [held EXCEPT ![t] = current]
               /\ UNCHANGED <<counters, allocated, expires, log, born, maker>>
          ELSE /\ allocated' = allocated + 1
               /\ held' = [held EXCEPT ![t] = allocated']
               /\ expires' = [expires EXCEPT ![allocated'] = IF call[t].op = "IncrWithTTL"
                                                               THEN Deadline(call[t].ttl)
                                                               ELSE NoExpiry]
               /\ Installed(Key(t), allocated', t)
  /\ Goto(t, "add")
  /\ UNCHANGED <<now, closed, value, updates, call, staleEvictions>>

\* entry.value.Add, after the lock is released.
Add(t) ==
  /\ pc[t] = "add"
  /\ value' = [value EXCEPT ![held[t]] = @ + 1]
  /\ Return(t)
  /\ UNCHANGED <<now, closed, counters, allocated, expires, updates, history>>

Close ==
  /\ ~closed
  /\ closed' = TRUE
  /\ UNCHANGED <<now, counters, allocated, value, expires, thread, history>>

Tick ==
  /\ now < MaxTime
  /\ now' = now + 1
  /\ UNCHANGED <<closed, counters, allocated, value, expires, thread, history>>

Next ==
  \/ \E t \in Threads :
       \/ RefusedCall(t)
       \/ \E o \in Ops, k \in Keys, d \in TTLs : Call(t, o, k, d)
       \/ Lookup(t) \/ Inspect(t) \/ Evict(t) \/ Load(t)
       \/ Install(t)
       \/ Enter(t) \/ Add(t)
  \/ Close
  \/ Tick

Spec == Init /\ [][Next]_vars

-------------------------------------------------------------------------------
(* Properties.                                                             *)

\* The n-th entry of key k was created by an increment although the one before it
\* had not come to its deadline: two windows of one counter overlap, and what
\* the first had counted is forgotten.
Overlap(k, n) ==
  LET before == log[k][n - 1]
      entry == log[k][n]
  IN /\ maker[entry] # "SetInt"
     /\ expires[before] = NoExpiry \/ born[entry] <= expires[before]

Overlaps(k) == {n \in 2..Len(log[k]) : Overlap(k, n)}

\* A counter counts in windows that follow one another: an increment starts a
\* new window only when the last one is over, however the increments of several
\* goroutines interleave.  A window is lost before its end only to a GetInt that
\* looked at an entry, found it expired and deleted another one (local.go:203-213);
\* each such GetInt costs at most one window.
OnlyStaleEvictionsOverlap ==
  /\ TypeOK
  /\ \A k \in Keys : Cardinality(Overlaps(k)) <= staleEvictions[k]

\* The window is fixed: no later operation moves the deadline of an entry that
\* stands in the map, so a counter that is hit all the time still expires.
DeadlinesStand ==
  [][\A k \in Keys : counters[k] # Nil => expires'[counters[k]] = expires[counters[k]]]_vars
==============================================================================
