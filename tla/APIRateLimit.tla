---------------------------- MODULE APIRateLimit ----------------------------
(***************************************************************************)
(* RateLimitMiddleware of internal/api/middleware.go: a fixed-window       *)
(* counter per client address, in front of the handlers, and the goroutine *)
(* that removes idle counters.                                             *)
(*                                                                         *)
(* Everything happens under one mutex, except that a handler and the       *)
(* cleaner read the clock BEFORE they take it: what they act on may be old *)
(* by then.                                                                *)
(***************************************************************************)
EXTENDS Naturals, FiniteSets, Functions

CONSTANTS Handlers,   \* goroutines serving requests
          IPs,
          NoCounter,
          RequestLimit, RequestWindow,
          MaxClock    \* bound: clock ticks

Instants == 0..MaxClock
RateLimitCounter == [count : 1..RequestLimit, windowEnd : Nat, lastAccess : Instants]

ASSUME LimitAssumption ==
  /\ IsFiniteSet(Handlers) /\ Handlers # {}
  /\ NoCounter \notin RateLimitCounter
  /\ RequestLimit \in Nat \ {0} /\ RequestWindow \in Nat \ {0}
  /\ MaxClock \in Nat

VARIABLES wall,      \* the clock
          counters,  \* ip -> its counter
          state, ip, \* a request waits for the mutex ("wait") or there is none ("idle")
          stamp,     \* the clock as the request read it
          cleaner,   \* the cleaner: "idle", "wait" (for the mutex) or "stopped"
          cleanedAt, \* the clock as the cleaner read it
          stopped,   \* stopChan is closed
          served,    \* history: requests served per ip, by the clock they read
          early      \* history: counters removed before their window was over

requests == <<state, ip, stamp>>
cleaning == <<cleaner, cleanedAt, stopped>>
history == <<served, early>>
rateLimitVars == <<wall, counters, requests, cleaning, history>>

RateLimitTypes ==
  /\ wall \in Instants
  /\ counters \in [IPs -> RateLimitCounter \cup {NoCounter}]
  /\ state \in [Handlers -> {"idle", "wait"}]
  /\ ip \in [Handlers -> IPs]
  /\ stamp \in [Handlers -> Instants]
  /\ cleaner \in {"idle", "wait", "stopped"} /\ cleanedAt \in Instants
  /\ stopped \in BOOLEAN
  /\ served \in [IPs -> [Instants -> Nat]] /\ early \in [IPs -> Nat]

RateLimitInit ==
  /\ wall = 0
  /\ counters = [i \in IPs |-> NoCounter]
  /\ state = [t \in Handlers |-> "idle"]
  /\ ip \in {[t \in Handlers |-> i] : i \in IPs}
  /\ stamp = [t \in Handlers |-> 0]
  /\ cleaner = "idle" /\ cleanedAt = 0 /\ stopped = FALSE
  /\ served = [i \in IPs |-> [s \in Instants |-> 0]]
  /\ early = [i \in IPs |-> 0]

-------------------------------------------------------------------------------
Arrive(t, i) ==
  /\ state[t] = "idle"
  /\ state' = [state EXCEPT ![t] = "wait"]
  /\ ip' = [ip EXCEPT ![t] = i]
  /\ stamp' = [stamp EXCEPT ![t] = wall]
  /\ UNCHANGED <<wall, counters, cleaning, history>>

\* The request's locals are gone.
Leave(t) ==
  /\ state' = [state EXCEPT ![t] = "idle"]
  /\ stamp' = [stamp EXCEPT ![t] = 0]
  /\ UNCHANGED ip

WindowOpen(t) ==
  LET counter == counters[ip[t]]
  IN counter # NoCounter /\ stamp[t] <= counter.windowEnd

Serve(t) == served' = [served EXCEPT ![ip[t]][stamp[t]] = @ + 1]

\* Mutant: a window ends when it begins.
OpenEmptyWindow(t) ==
  /\ state[t] = "wait"
  /\ ~WindowOpen(t)
  /\ counters' = [counters EXCEPT ![ip[t]] =
                    [count |-> 1, windowEnd |-> stamp[t], lastAccess |-> stamp[t]]]
  /\ Serve(t)
  /\ Leave(t)
  /\ UNCHANGED <<wall, cleaning, early>>

\* The critical section of the handler: open a window ...
OpenWindow(t) ==
  /\ state[t] = "wait"
  /\ ~WindowOpen(t)
  /\ counters' = [counters EXCEPT ![ip[t]] =
                    [count |-> 1, windowEnd |-> stamp[t] + RequestWindow, lastAccess |-> stamp[t]]]
  /\ Serve(t)
  /\ Leave(t)
  /\ UNCHANGED <<wall, cleaning, early>>

\* ... refuse (which is an access too) ...
Refuse(t) ==
  /\ state[t] = "wait"
  /\ WindowOpen(t)
  /\ counters[ip[t]].count >= RequestLimit
  /\ counters' = [counters EXCEPT ![ip[t]].lastAccess = stamp[t]]
  /\ Leave(t)
  /\ UNCHANGED <<wall, cleaning, history>>

\* ... or count.
Count(t) ==
  /\ state[t] = "wait"
  /\ WindowOpen(t)
  /\ counters[ip[t]].count < RequestLimit
  /\ counters' = [counters EXCEPT ![ip[t]].count = @ + 1, ![ip[t]].lastAccess = stamp[t]]
  /\ Serve(t)
  /\ Leave(t)
  /\ UNCHANGED <<wall, cleaning, early>>

-------------------------------------------------------------------------------
(* The cleaner.                                                            *)

CleanupTick ==
  /\ cleaner = "idle"
  /\ cleaner' = "wait" /\ cleanedAt' = wall
  /\ UNCHANGED <<wall, counters, requests, stopped, history>>

IdleCounter(i) ==
  counters[i] # NoCounter /\ cleanedAt > counters[i].lastAccess + RequestWindow

\* Some request is, or may yet come, to be judged by a clock within the window.
WindowConcerns(i) ==
  \/ wall <= counters[i].windowEnd
  \/ \E t \in Handlers : state[t] = "wait" /\ ip[t] = i /\ stamp[t] <= counters[i].windowEnd

Cleanup ==
  /\ cleaner = "wait"
  /\ counters' = [i \in IPs |-> IF IdleCounter(i) THEN NoCounter ELSE counters[i]]
  /\ cleaner' = "idle" /\ cleanedAt' = 0
  /\ early' = [i \in IPs |-> IF IdleCounter(i) /\ WindowConcerns(i)
                               THEN early[i] + 1 ELSE early[i]]
  /\ UNCHANGED <<wall, requests, stopped, served>>

StopCleanup ==
  /\ ~stopped
  /\ stopped' = TRUE
  /\ UNCHANGED <<wall, counters, requests, cleaner, cleanedAt, history>>

CleanerStops ==
  /\ cleaner = "idle" /\ stopped
  /\ cleaner' = "stopped"
  /\ UNCHANGED <<wall, counters, requests, cleanedAt, stopped, history>>

WallTicks ==
  /\ wall < MaxClock
  /\ wall' = wall + 1
  /\ UNCHANGED <<counters, requests, cleaning, history>>

Handle(t) == OpenWindow(t) \/ Refuse(t) \/ Count(t)

RateLimitNext ==
  \/ \E t \in Handlers : Handle(t) \/ (\E i \in IPs : Arrive(t, i))
  \/ CleanupTick \/ Cleanup \/ StopCleanup \/ CleanerStops
  \/ WallTicks

RateLimitSpec == RateLimitInit /\ [][RateLimitNext]_rateLimitVars
-------------------------------------------------------------------------------
(* Properties.                                                             *)

ServedLately(i) == SumFunctionOnSet(served[i], {s \in Instants : s + RequestWindow >= wall})

\* The windows of an address follow one another, however late its requests come to
\* the mutex after they have read the clock: a span of one window touches at most
\* two of them, and not all of both.  A counter the cleaner removes before its time
\* (startCleanup and cleanup, middleware.go:354 and 373, mean to remove only
\* counters whose window is over) begins this anew.
\* The cleaner removes a counter early only when its last access carries an old
\* clock, which takes a request that was late at the mutex: whatever the cleaner
\* does, the span serves less than a limit for every thread and one more.
ServedBound ==
  /\ RateLimitTypes
  /\ \A i \in IPs :
       /\ ServedLately(i) <= (1 + early[i]) * (2 * RequestLimit - 1)
       /\ ServedLately(i) < (Cardinality(Handlers) + 1) * RequestLimit
==============================================================================
