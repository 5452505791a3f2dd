----------------------------- MODULE LeakBucket -----------------------------
(***************************************************************************)
(* The "freq" algorithm, internal/engine/algorithm/leak.go, as the engine  *)
(* calls it for one key: Browse, and Browse then Update for a Check.       *)
(*                                                                         *)
(* The bucket is a list of timestamps in the storage, newest first.  A     *)
(* Leak holds a mutex per key, so the calls of one Leak exclude each       *)
(* other; but buildRateRule makes a new Leak for every rule set, and a     *)
(* call goes on with the Leak of the rule set it started from.  Storage    *)
(* operations and clock readings are steps of their own.                   *)
(***************************************************************************)
EXTENDS Naturals, Sequences, FiniteSets, Functions

CONSTANTS Threads,
          None,        \* no thread
          Limit,       \* limit.Count
          Window,      \* limit.Time
          MaxTime,     \* bound: clock ticks
          MaxReloads,  \* bound: hot reloads
          MaxFaults    \* bound: failed storage operations

ASSUME BucketAssumption ==
  /\ IsFiniteSet(Threads) /\ Threads # {} /\ None \notin Threads
  /\ Limit \in Nat \ {0} /\ Window \in Nat \ {0}
  /\ MaxTime \in Nat /\ MaxReloads \in Nat /\ MaxFaults \in Nat

Leaks == 0..MaxReloads
Calls == {"Browse", "Check"}
PCs == {"idle", "browse", "update", "range", "trim", "length", "stamp", "push"}

VARIABLES now, current,      \* the clock; the Leak of the current rule set
          list,              \* the bucket
          keyLocks,          \* Leak -> the thread inside
          pc, call,
          method,            \* the method of Leak that runs: "browse" or "update"
          leak,              \* the Leak the call uses
          clock,             \* the last reading of the clock
          keep,              \* how many entries LTrim will keep
          pushed,            \* history: entries pushed, by timestamp
          faults

locals == <<call, method, leak>>
vars == <<now, current, list, keyLocks, pc, locals, clock, keep, pushed, faults>>

Times == 0..MaxTime

TypeOK ==
  /\ now \in Times /\ current \in Leaks
  /\ list \in Seq(Times)
  /\ keyLocks \in [Leaks -> Threads \cup {None}]
  /\ pc \in [Threads -> PCs]
  /\ call \in [Threads -> Calls]
  /\ method \in [Threads -> {"browse", "update"}]
  /\ leak \in [Threads -> Leaks]
  /\ clock \in [Threads -> Times]
  /\ keep \in [Threads -> Nat]
  /\ pushed \in [Times -> Nat]
  /\ faults \in Nat

Init ==
  /\ now = 0 /\ current = 0
  /\ list = <<>>
  /\ keyLocks = [l \in Leaks |-> None]
  /\ pc = [t \in Threads |-> "idle"]
  /\ call = [t \in Threads |-> "Browse"]
  /\ method = [t \in Threads |-> "browse"]
  /\ leak = [t \in Threads |-> 0]
  /\ clock = [t \in Threads |-> 0]
  /\ keep = [t \in Threads |-> 0]
  /\ pushed = [s \in Times |-> 0]
  /\ faults = 0

Goto(t, place) == pc' = [pc EXCEPT ![t] = place]
Unlock(t) == keyLocks' = [keyLocks EXCEPT ![leak[t]] = None]

\* The entry is inside the window that ends at time c.
Fresh(ts, c) == ts + Window >= c

Call(t, c) ==
  /\ pc[t] = "idle"
  /\ call' = [call EXCEPT ![t] = c]
  /\ method' = [method EXCEPT ![t] = "browse"]
  /\ leak' = [leak EXCEPT ![t] = current]
  /\ clock' = [clock EXCEPT ![t] = 0]
  /\ keep' = [keep EXCEPT ![t] = 0]
  /\ Goto(t, "browse")
  /\ UNCHANGED <<now, current, list, keyLocks, pushed, faults>>

\* Browse and Update both begin with the lock and cleanExpired's clock.
Enter(t) ==
  /\ pc[t] \in {"browse", "update"}
  /\ keyLocks[leak[t]] = None
  /\ keyLocks' = [keyLocks EXCEPT ![leak[t]] = t]
  /\ method' = [method EXCEPT ![t] = pc[t]]
  /\ clock' = [clock EXCEPT ![t] = now]
  /\ Goto(t, "range")
  /\ UNCHANGED <<now, current, list, call, leak, keep, pushed, faults>>

Cleaned(t) == IF method[t] = "browse" THEN "length" ELSE "stamp"

\* Mutant: one stale entry empties the bucket.
KeptWhenAllFresh(t) ==
  IF \A i \in DOMAIN list : Fresh(list[i], clock[t]) THEN Len(list) ELSE 0

\* Mutant: nothing is ever trimmed.
KeptAlways(t) == Len(list)

\* cleanExpired: the first fresh entry, from the newest on, decides what is
\* trimmed; the entries after it are counted from the wrong end.
Kept(t) ==
  LET fresh == {i \in DOMAIN list : Fresh(list[i], clock[t])}
  IN IF fresh = {} THEN 0
     ELSE Len(list) + 1 - (CHOOSE i \in fresh : \A j \in fresh : i <= j)

LRange(t) ==
  /\ pc[t] = "range"
  /\ keep' = [keep EXCEPT ![t] = Kept(t)]
  /\ Goto(t, IF Kept(t) = Len(list) THEN Cleaned(t) ELSE "trim")
  /\ UNCHANGED <<now, current, list, keyLocks, locals, clock, pushed, faults>>

LTrim(t) ==
  /\ pc[t] = "trim"
  /\ list' = IF keep[t] < Len(list) THEN SubSeq(list, 1, keep[t]) ELSE list
  /\ Goto(t, Cleaned(t))
  /\ UNCHANGED <<now, current, keyLocks, locals, clock, keep, pushed, faults>>

\* Mutant: the bucket is full above the limit, not at it.
LLenOffByOne(t) ==
  /\ pc[t] = "length"
  /\ Unlock(t)
  /\ Goto(t, IF Len(list) <= Limit /\ call[t] = "Check" THEN "update" ELSE "idle")
  /\ UNCHANGED <<now, current, list, locals, clock, keep, pushed, faults>>

\* Browse's verdict.  A Check that is not hit goes on to Update.
LLen(t) ==
  /\ pc[t] = "length"
  /\ Unlock(t)
  /\ Goto(t, IF Len(list) < Limit /\ call[t] = "Check" THEN "update" ELSE "idle")
  /\ UNCHANGED <<now, current, list, locals, clock, keep, pushed, faults>>

Stamp(t) ==
  /\ pc[t] = "stamp"
  /\ clock' = [clock EXCEPT ![t] = now]
  /\ Goto(t, "push")
  /\ UNCHANGED <<now, current, list, keyLocks, locals, keep, pushed, faults>>

Pushed(t) ==
  /\ list' = <<clock[t]>> \o list
  /\ pushed' = [pushed EXCEPT ![clock[t]] = @ + 1]

LPush(t) ==
  /\ pc[t] = "push"
  /\ Pushed(t)
  /\ Unlock(t)
  /\ Goto(t, "idle")
  /\ UNCHANGED <<now, current, locals, clock, keep, faults>>

\* A storage operation fails; a write may have taken effect.  The method returns
\* its error, and the engine drops the call.
StorageFails(t) ==
  /\ pc[t] \in {"range", "trim", "length", "push"}
  /\ faults < MaxFaults
  /\ faults' = faults + 1
  /\ \/ UNCHANGED <<list, pushed>>
     \/ pc[t] = "push" /\ Pushed(t)
     \/ /\ pc[t] = "trim" /\ keep[t] < Len(list)
        /\ list' = SubSeq(list, 1, keep[t])
        /\ UNCHANGED pushed
  /\ Unlock(t)
  /\ Goto(t, "idle")
  /\ UNCHANGED <<now, current, locals, clock, keep>>

\* A hot reload builds its rules anew, and with them a Leak with no locks taken.
Reload ==
  /\ current < MaxReloads
  /\ current' = current + 1
  /\ UNCHANGED <<now, list, keyLocks, pc, locals, clock, keep, pushed, faults>>

Tick ==
  /\ now < MaxTime
  /\ now' = now + 1
  /\ UNCHANGED <<current, list, keyLocks, pc, locals, clock, keep, pushed, faults>>

ThreadStep(t) ==
  \/ \E c \in Calls : Call(t, c)
  \/ Enter(t) \/ LRange(t) \/ LTrim(t) \/ LLen(t) \/ Stamp(t) \/ LPush(t)
  \/ StorageFails(t)

Next == (\E t \in Threads : ThreadStep(t)) \/ Reload \/ Tick

Spec == Init /\ [][Next]_vars

-------------------------------------------------------------------------------
(* Properties.                                                             *)

N == Cardinality(Threads)

\* The bucket overflows by at most one entry per other thread: Browse and Update
\* take the lock one after the other, and N callers may pass Browse before the
\* first of them pushes.  This holds across reloads and failures.
BucketBound ==
  /\ TypeOK
  /\ Len(list) <= Limit + N - 1

FreshEntries(c) == {i \in DOMAIN list : Fresh(list[i], c)}

\* Until a reload puts a second Leak, with locks of its own, to the same list, the
\* lock does what its comment says (leak.go:23, "避免 LRange+LTrim 竞态"): an entry
\* that is still inside the window is never trimmed away.  (With two Leaks one
\* trims by a length the other has since changed.)
FreshEntriesStand ==
  [][current = 0 /\ now' = now
       => Cardinality(FreshEntries(now)) <= Cardinality(FreshEntries(now)')]_vars

\* So what the limiter is for holds but for the same N - 1 requests: the entries
\* pushed in any one window, forgotten by the bucket or not, are within the limit.
WindowBound ==
  current = 0 =>
    SumFunctionOnSet(pushed, {s \in Times : Fresh(s, now)}) <= Limit + N - 1

\* A call refused by its Browse.
Denied(t) == pc[t] = "length" /\ pc'[t] = "idle" /\ faults' = faults /\ Len(list) >= Limit

\* The cleaning removes nothing while the newest entry is fresh, so a client may be
\* refused for entries long past.  But one that has sent nothing for a whole window
\* is served: a refusal means that the newest entry is inside the window.
DenialsEnd ==
  [][\A t \in Threads : current = 0 /\ Denied(t) => Fresh(list[1], clock[t])]_vars
==============================================================================
