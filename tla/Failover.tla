------------------------------- MODULE Failover -------------------------------
(***************************************************************************)
(* One counter of the engine (internal/engine/algorithm/count.go, under    *)
(* Check of internal/engine/engine.go) over the storage manager            *)
(* (internal/storage/manager) and its two stores: Redis, the primary, and  *)
(* the local storage, the fallback.  They hold counters of their own, and  *)
(* nothing is copied between them.                                         *)
(*                                                                         *)
(* A request looks at the counter (GetInt) and, while it is below the      *)
(* limit, increments it (IncrWithTTL); each call goes through              *)
(* executeWithFailover.  Why and when the manager switches is              *)
(* StorageManager's matter: here its flag and pointer move at any moment,  *)
(* in the order of FailoverCycle, which StorageManager implements.         *)
(***************************************************************************)
EXTENDS Integers, FiniteSets

CONSTANTS Callers, Limit, None,
          MaxMoves,    \* bound on the moves of the flag and the pointer
          MaxElapses   \* bound on the windows that end, or counters Redis loses

Stores == {"primary", "fallback"}

ASSUME FailoverAssumption ==
  /\ IsFiniteSet(Callers) /\ Callers # {}
  /\ Limit \in Nat \ {0} /\ MaxMoves \in Nat /\ MaxElapses \in Nat
  /\ None \notin Stores

VARIABLES degraded, current,   \* of the manager
          count,               \* of each store: the counter; 0 is no counter
          pc,                  \* in executeWithFailover, or "idle"
          target,              \* the store the operation runs on
          err,                 \* its error, kept while it may be retried
          pass,                \* the store whose counter let the request pass; None
                               \* while the request has yet to look
          moves, elapses,
          carried              \* history: increments of each store's counter, in its
                               \* window, by requests the other store let pass

mode == <<degraded, current>>
locals == <<pc, target, err, pass>>
vars == <<mode, count, locals, moves, elapses, carried>>

Cycle == INSTANCE FailoverCycle

Init ==
  /\ Cycle!Init
  /\ count = [s \in Stores |-> 0]
  /\ pc = [c \in Callers |-> "idle"]
  /\ target = [c \in Callers |-> "primary"]
  /\ err = [c \in Callers |-> "none"]
  /\ pass = [c \in Callers |-> None]
  /\ moves = 0 /\ elapses = 0
  /\ carried = [s \in Stores |-> 0]

-------------------------------------------------------------------------------
(* How the operation of caller c, a look or an increment, comes to an end. *)

Looking(c) == pass[c] = None

\* The call returns, and its locals are gone.
Return(c) ==
  /\ target' = [target EXCEPT ![c] = "primary"]
  /\ err' = [err EXCEPT ![c] = "none"]

\* The request is over.
Leave(c) ==
  /\ pc' = [pc EXCEPT ![c] = "idle"]
  /\ pass' = [pass EXCEPT ![c] = None]
  /\ Return(c)

\* The request may pass, says the counter of s: it goes on to the increment.
Pass(c, s) ==
  /\ pc' = [pc EXCEPT ![c] = "load"]
  /\ pass' = [pass EXCEPT ![c] = s]
  /\ Return(c)

\* The first error is returned: a missing counter lets the request pass, any other
\* error refuses it; an increment that failed is logged and forgotten.
GiveUp(c) ==
  IF Looking(c) /\ err[c] = "notFound" THEN Pass(c, target[c]) ELSE Leave(c)

GoOn(c, place) ==
  /\ pc' = [pc EXCEPT ![c] = place]
  /\ UNCHANGED <<target, err, pass>>

Fail(c, e) ==
  /\ pc' = [pc EXCEPT ![c] = "check"]
  /\ err' = [err EXCEPT ![c] = e]
  /\ UNCHANGED <<target, pass>>

-------------------------------------------------------------------------------
(* GetInt and IncrWithTTL, against store s.                                *)

counters == <<count, carried>>

\* A counter decides by its value.
LookOn(c, s) ==
  /\ Looking(c) /\ count[s] > 0
  /\ IF count[s] < Limit THEN Pass(c, s) ELSE Leave(c)
  /\ UNCHANGED counters

Increment(c, s) ==
  /\ ~Looking(c)
  /\ count' = [count EXCEPT ![s] = @ + 1]
  /\ carried' = IF pass[c] # s THEN [carried EXCEPT ![s] = @ + 1] ELSE carried

NotFound(c, s) ==
  /\ Looking(c) /\ count[s] = 0
  /\ UNCHANGED counters

\* Of an increment that Redis answers too late the effect may be there all the same.
RedisFails(c) ==
  /\ target[c] = "primary"
  /\ Increment(c, "primary") \/ UNCHANGED counters

-------------------------------------------------------------------------------
(* executeWithFailover.                                                    *)

rest == <<mode, moves, elapses>>

Arrive(c) ==
  /\ pc[c] = "idle"
  /\ GoOn(c, "load")
  /\ UNCHANGED <<rest, counters>>

GetCurrent(c) ==
  /\ pc[c] = "load"
  /\ target' = [target EXCEPT ![c] = current]
  /\ pc' = [pc EXCEPT ![c] = "run"]
  /\ UNCHANGED <<rest, counters, err, pass>>

Run(c) ==
  /\ pc[c] = "run"
  /\ \/ LookOn(c, target[c])
     \/ NotFound(c, target[c]) /\ Fail(c, "notFound")
     \/ Increment(c, target[c]) /\ Leave(c)
     \/ RedisFails(c) /\ Fail(c, "error")
  /\ UNCHANGED rest

\* Mutant: an error is retried although the manager was degraded before it.
CheckNothing(c) ==
  /\ pc[c] = "check"
  /\ GoOn(c, "recheck")
  /\ UNCHANGED <<rest, counters>>

Check(c) ==
  /\ pc[c] = "check"
  /\ IF degraded THEN GiveUp(c) ELSE GoOn(c, "recheck")
  /\ UNCHANGED <<rest, counters>>

\* After recordFailure.
Recheck(c) ==
  /\ pc[c] = "recheck"
  /\ IF degraded THEN GoOn(c, "retry") ELSE GiveUp(c)
  /\ UNCHANGED <<rest, counters>>

Retry(c) ==
  /\ pc[c] = "retry"
  /\ \/ LookOn(c, "fallback")
     \/ NotFound(c, "fallback") /\ Pass(c, "fallback")
     \/ Increment(c, "fallback") /\ Leave(c)
  /\ UNCHANGED rest

-------------------------------------------------------------------------------
(* The manager and the stores.                                             *)

Move ==
  /\ moves < MaxMoves
  /\ moves' = moves + 1
  /\ Cycle!Next
  /\ UNCHANGED <<counters, locals, elapses>>

\* The window of a store's counter ends, or Redis restarts without it.
Elapse(s) ==
  /\ elapses < MaxElapses /\ count[s] > 0
  /\ elapses' = elapses + 1
  /\ count' = [count EXCEPT ![s] = 0]
  /\ carried' = [carried EXCEPT ![s] = 0]
  /\ UNCHANGED <<mode, locals, moves>>

CallerStep(c) ==
  Arrive(c) \/ GetCurrent(c) \/ Run(c) \/ Check(c) \/ Recheck(c) \/ Retry(c)

Next ==
  \/ \E c \in Callers : CallerStep(c)
  \/ Move
  \/ \E s \in Stores : Elapse(s)

Spec == Init /\ [][Next]_vars

-------------------------------------------------------------------------------
(* Properties.                                                             *)

TypeOK ==
  /\ degraded \in BOOLEAN /\ current \in Stores
  /\ count \in [Stores -> Nat] /\ carried \in [Stores -> Nat]
  /\ pc \in [Callers -> {"idle", "load", "run", "check", "recheck", "retry"}]
  /\ target \in [Callers -> Stores]
  /\ err \in [Callers -> {"none", "notFound", "error"}]
  /\ pass \in [Callers -> Stores \cup {None}]
  /\ moves \in 0..MaxMoves /\ elapses \in 0..MaxElapses

N == Cardinality(Callers)

\* Raising the flag crosses the stores (a retry), and so does each move of the
\* pointer; lowering the flag, every fourth move, does not.
crossings == moves - (moves + 1) \div 4

\* A client can use its limit once in each store, for neither knows the counter of
\* the other (manager.go:166, 184).  But not more than that, however often the
\* manager goes back and forth in a window: switching refills nothing.  Each store
\* counts at most the limit and one request for every other caller, as without the
\* manager, and on top of that what requests that were let pass by the other
\* store carried over: at most one per caller for each crossing.
FailoverBound ==
  /\ TypeOK
  /\ \A s \in Stores : count[s] <= Limit + N - 1 + carried[s]
  /\ carried["primary"] + carried["fallback"] <= N * crossings
===============================================================================
