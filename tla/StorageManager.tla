---------------------------- MODULE StorageManager ----------------------------
(***************************************************************************)
(* Failover between the primary (Redis) and the fallback (local) storage:  *)
(* internal/storage/manager/manager.go.                                    *)
(*                                                                         *)
(* Callers run executeWithFailover; the goroutine Health runs              *)
(* healthCheckLoop.  Both record failures and may degrade the manager,     *)
(* only Health brings it back.  `current`, `degraded` and `failures` are   *)
(* atomics read without the mutex, and degrade and recover write the first *)
(* two one after the other, so every access is a step of its own.          *)
(*                                                                         *)
(* A read may ask for a key that does not exist: ErrKeyNotFound is a       *)
(* non-nil error like any other to the manager.  So is the error of an     *)
(* operation whose request ended (the context of the HTTP request is       *)
(* passed down to Redis) while Redis is well.                              *)
(***************************************************************************)
EXTENDS Naturals, FiniteSets

CONSTANTS Callers,      \* goroutines that use the manager as their storage
          Health,       \* the goroutine of healthCheckLoop
          None,         \* nobody holds the mutex
          Ops,          \* what callers ask: "read" and "incr"
          Cancels,      \* a request may end while its operation waits for Redis
          MaxFailures,
          MaxOutages    \* bound: times the primary goes down

ASSUME ManagerAssumption ==
  /\ IsFiniteSet(Callers)
  /\ Health \notin Callers /\ None \notin Callers \cup {Health}
  /\ Ops \subseteq {"read", "incr"} /\ Cancels \in BOOLEAN
  /\ MaxFailures \in Nat \ {0} /\ MaxOutages \in Nat

Actors == Callers \cup {Health}
Stores == {"primary", "fallback"}
PCs == {"idle", "load", "run", "check", "count", "test", "lock", "degrade", "toFallback",
        "recheck", "retry", "ping", "reset", "healthy", "relock", "recover", "toPrimary",
        "wait", "exit"}

VARIABLES current, degraded, failures, mu,  \* StorageManager
          closing,                          \* stopCh is closed
          pc, op,
          target,                           \* the storage a caller took from current
          primaryUp, outages,
          strays,                           \* history: increments the fallback took
                                            \* since the primary was made current
          blameless                         \* history: operations that failed, but not
                                            \* because the primary was down

manager == <<current, degraded, failures, mu>>
env == <<primaryUp, outages>>
history == <<strays, blameless>>
vars == <<manager, closing, pc, op, target, env, history>>

TypeOK ==
  /\ current \in Stores /\ degraded \in BOOLEAN
  /\ failures \in 0..MaxFailures
  /\ mu \in Actors \cup {None}
  /\ closing \in BOOLEAN
  /\ pc \in [Actors -> PCs]
  /\ op \in [Callers -> Ops \cup {"none"}]
  /\ target \in [Callers -> Stores]
  /\ primaryUp \in BOOLEAN /\ outages \in 0..MaxOutages
  /\ strays \in Nat /\ blameless \in 0..MaxFailures

Init ==
  /\ current = "primary" /\ degraded = FALSE /\ failures = 0 /\ mu = None
  /\ closing = FALSE
  /\ pc = [a \in Actors |-> IF a = Health THEN "ping" ELSE "idle"]
  /\ op = [c \in Callers |-> "none"]
  /\ target = [c \in Callers |-> "primary"]
  /\ primaryUp = TRUE /\ outages = 0
  /\ strays = 0 /\ blameless = 0

Goto(a, place) == pc' = [pc EXCEPT ![a] = place]

-------------------------------------------------------------------------------
(* A storage operation of caller c against store s.                        *)

Results(c, s) ==
  CASE s = "primary" /\ ~primaryUp -> {"error"}
    [] OTHER -> {"ok"}
                  \cup (IF op[c] = "read" THEN {"notFound"} ELSE {})
                  \cup (IF s = "primary" /\ Cancels THEN {"error"} ELSE {})

\* What the operation leaves to account for; `blameless` saturates like `failures`.
RunOn(c, s, result) ==
  /\ strays' = IF op[c] = "incr" /\ s = "fallback" /\ current = "primary" /\ ~degraded
                 THEN strays + 1 ELSE strays
  /\ blameless' = IF result # "ok" /\ (s = "primary" => primaryUp) /\ blameless < MaxFailures
                    THEN blameless + 1 ELSE blameless

\* The operation returns to its caller, and its locals are gone.
Return(c) ==
  /\ Goto(c, "idle")
  /\ op' = [op EXCEPT ![c] = "none"]
  /\ target' = [target EXCEPT ![c] = "primary"]

-------------------------------------------------------------------------------
(* executeWithFailover.                                                    *)

Call(c, o) ==
  /\ pc[c] = "idle"
  /\ op' = [op EXCEPT ![c] = o]
  /\ Goto(c, "load")
  /\ UNCHANGED <<manager, closing, target, env, history>>

GetCurrent(c) ==
  /\ pc[c] = "load"
  /\ target' = [target EXCEPT ![c] = current]
  /\ Goto(c, "run")
  /\ UNCHANGED <<manager, closing, op, env, history>>

Run(c) ==
  /\ pc[c] = "run"
  /\ \E result \in Results(c, target[c]) :
       /\ RunOn(c, target[c], result)
       /\ IF result = "ok"
            THEN Return(c)
            ELSE /\ Goto(c, "check")
                 /\ target' = [target EXCEPT ![c] = "primary"]  \* read no more
                 /\ UNCHANGED op
  /\ UNCHANGED <<manager, closing, env>>

\* An error counts only against a manager that is not degraded; otherwise it is
\* returned as it is.
Check(c) ==
  /\ pc[c] = "check"
  /\ IF degraded THEN Return(c) ELSE Goto(c, "count") /\ UNCHANGED <<op, target>>
  /\ UNCHANGED <<manager, closing, env, history>>

\* Mutant: a failed operation is always retried on the fallback.
RecheckNothing(c) ==
  /\ pc[c] = "recheck"
  /\ Goto(c, "retry")
  /\ UNCHANGED <<manager, closing, op, target, env, history>>

\* After recordFailure: the operation is retried on the fallback if the manager
\* is degraded by now, else its first error is returned.
Recheck(c) ==
  /\ pc[c] = "recheck"
  /\ IF degraded THEN Goto(c, "retry") /\ UNCHANGED <<op, target>> ELSE Return(c)
  /\ UNCHANGED <<manager, closing, env, history>>

Retry(c) ==
  /\ pc[c] = "retry"
  /\ \E result \in Results(c, "fallback") : RunOn(c, "fallback", result)
  /\ Return(c)
  /\ UNCHANGED <<manager, closing, env>>

-------------------------------------------------------------------------------
(* recordFailure and degrade, for callers and Health.                      *)

AfterRecord(a) == IF a = Health THEN "wait" ELSE "recheck"

unrelated == <<closing, op, target, env, history>>

\* Mutant: the failures before the last are enough.
CountFailureOffByOne(a) ==
  /\ pc[a] = "count"
  /\ failures' = IF failures < MaxFailures THEN failures + 1 ELSE failures
  /\ Goto(a, IF failures' + 1 >= MaxFailures THEN "test" ELSE AfterRecord(a))
  /\ UNCHANGED <<current, degraded, mu, unrelated>>

\* atomic.AddInt32.  The counter saturates at MaxFailures: beyond it nothing
\* compares differently.
CountFailure(a) ==
  /\ pc[a] = "count"
  /\ failures' = IF failures < MaxFailures THEN failures + 1 ELSE failures
  /\ Goto(a, IF failures' >= MaxFailures THEN "test" ELSE AfterRecord(a))
  /\ UNCHANGED <<current, degraded, mu, unrelated>>

TestDegraded(a) ==
  /\ pc[a] = "test"
  /\ Goto(a, IF degraded THEN AfterRecord(a) ELSE "lock")
  /\ UNCHANGED <<manager, unrelated>>

\* Mutant: degrade and recover do not take the mutex.
LockNothing(a) ==
  /\ pc[a] \in {"lock", "relock"}
  /\ mu' = a
  /\ Goto(a, IF pc[a] = "lock" THEN "degrade" ELSE "recover")
  /\ UNCHANGED <<current, degraded, failures, unrelated>>

Lock(a) ==
  /\ pc[a] \in {"lock", "relock"}
  /\ mu = None
  /\ mu' = a
  /\ Goto(a, IF pc[a] = "lock" THEN "degrade" ELSE "recover")
  /\ UNCHANGED <<current, degraded, failures, unrelated>>

\* Mutant: degrade's early return leaves the mutex locked.
DegradeKeepsLock(a) ==
  /\ pc[a] = "degrade"
  /\ IF degraded
       THEN Goto(a, AfterRecord(a)) /\ UNCHANGED <<mu, degraded>>
       ELSE degraded' = TRUE /\ Goto(a, "toFallback") /\ UNCHANGED mu
  /\ UNCHANGED <<current, failures, unrelated>>

\* degrade, under the mutex: the flag first ...
Degrade(a) ==
  /\ pc[a] = "degrade"
  /\ IF degraded
       THEN mu' = None /\ Goto(a, AfterRecord(a)) /\ UNCHANGED degraded
       ELSE degraded' = TRUE /\ Goto(a, "toFallback") /\ UNCHANGED mu
  /\ UNCHANGED <<current, failures, unrelated>>

\* ... then the pointer.
ToFallback(a) ==
  /\ pc[a] = "toFallback"
  /\ current' = "fallback"
  /\ mu' = None
  /\ Goto(a, AfterRecord(a))
  /\ UNCHANGED <<degraded, failures, unrelated>>

-------------------------------------------------------------------------------
(* healthCheckLoop, checkHealth, recordSuccess and recover.                *)

Ping ==
  /\ pc[Health] = "ping"
  /\ Goto(Health, IF primaryUp THEN "reset" ELSE "count")
  /\ UNCHANGED <<manager, unrelated>>

Reset ==
  /\ pc[Health] = "reset"
  /\ failures' = 0
  /\ Goto(Health, "healthy")
  /\ UNCHANGED <<current, degraded, mu, unrelated>>

\* Mutant: a success does not lead to recover.
HealthyWaits ==
  /\ pc[Health] = "healthy"
  /\ Goto(Health, "wait")
  /\ UNCHANGED <<manager, unrelated>>

Healthy ==
  /\ pc[Health] = "healthy"
  /\ Goto(Health, IF degraded THEN "relock" ELSE "wait")
  /\ UNCHANGED <<manager, unrelated>>

Recover ==
  /\ pc[Health] = "recover"
  /\ IF degraded
       THEN degraded' = FALSE /\ Goto(Health, "toPrimary") /\ UNCHANGED mu
       ELSE mu' = None /\ Goto(Health, "wait") /\ UNCHANGED degraded
  /\ UNCHANGED <<current, failures, unrelated>>

ToPrimary ==
  /\ pc[Health] = "toPrimary"
  /\ current' = "primary"
  /\ mu' = None
  /\ strays' = 0
  /\ Goto(Health, "wait")
  /\ UNCHANGED <<degraded, failures, closing, op, target, env, blameless>>

\* The select of healthCheckLoop: the next tick, or the closed stopCh.
NextTick ==
  /\ pc[Health] = "wait"
  /\ Goto(Health, "ping")
  /\ UNCHANGED <<manager, unrelated>>

Stop ==
  /\ pc[Health] = "wait"
  /\ closing
  /\ Goto(Health, "exit")
  /\ UNCHANGED <<manager, unrelated>>

\* Close closes stopCh and then waits for Health to exit.
Close ==
  /\ ~closing
  /\ closing' = TRUE
  /\ UNCHANGED <<manager, pc, op, target, env, history>>

-------------------------------------------------------------------------------
(* The environment.                                                        *)

PrimaryFails ==
  /\ primaryUp /\ outages < MaxOutages
  /\ primaryUp' = FALSE /\ outages' = outages + 1
  /\ UNCHANGED <<manager, closing, pc, op, target, history>>

PrimaryReturns ==
  /\ ~primaryUp
  /\ primaryUp' = TRUE
  /\ UNCHANGED <<manager, closing, pc, op, target, outages, history>>

RecordStep(a) ==
  CountFailure(a) \/ TestDegraded(a) \/ Degrade(a) \/ ToFallback(a)

CallerStep(c) ==
  GetCurrent(c) \/ Run(c) \/ Check(c) \/ Recheck(c) \/ Retry(c) \/ RecordStep(c)

HealthStep ==
  Ping \/ Reset \/ Healthy \/ Recover \/ ToPrimary \/ NextTick \/ RecordStep(Health)

Next ==
  \/ \E c \in Callers : CallerStep(c) \/ (\E o \in Ops : Call(c, o))
  \/ \E a \in Actors : Lock(a)
  \/ HealthStep
  \/ Stop \/ Close
  \/ PrimaryFails \/ PrimaryReturns

Spec == Init /\ [][Next]_vars

\* Goroutines are scheduled, Health's waiting sync.Mutex.Lock is eventually
\* granted (Go's mutexes are starvation-free), and select picks at random among its
\* ready cases.  Nothing is assumed of calls, outages or Close.
Fairness ==
  /\ \A c \in Callers : WF_vars(CallerStep(c))
  /\ WF_vars(HealthStep)
  /\ SF_vars(Lock(Health))
  /\ SF_vars(Stop)

FairSpec == Spec /\ Fairness

-------------------------------------------------------------------------------
(* Properties.                                                             *)

\* The flag and the pointer are two atomics, written one after the other by two
\* kinds of goroutine: whenever nobody is inside degrade or recover they agree.
ModeAgrees ==
  /\ TypeOK
  /\ mu = None => (degraded <=> current = "fallback")

Cycle == INSTANCE FailoverCycle

\* degrade and recover, run by several goroutines, each test and set the flag and
\* then the pointer, only the mutex keeping them apart: nobody can tell them from
\* one circle in which the two take turns (manager.go:165, 183).
ImplementsFailoverCycle == Cycle!Spec

\* An increment that took the fallback from `current` (or was sent there to be
\* retried) may land after the manager has gone back to the primary, where no
\* reader will find it.  Each recovery strands at most one per caller.
StraysBounded == strays <= Cardinality(Callers)

\* The manager is not degraded lightly: without an outage of the primary it takes
\* at least MaxFailures operations that failed for another reason (a read of a
\* missing key, a request that ended while it waited), however recordFailure and
\* recordSuccess interleave.
DegradedForCause == degraded => outages > 0 \/ blameless >= MaxFailures

\* When the primary stays up and the manager is not closed, the manager comes
\* back to it, whatever callers do, and then again after every later switch.
RecoversEventually ==
  <>[](primaryUp /\ ~closing) => []<>(current = "primary" /\ ~degraded)

\* Close waits for Health without holding the mutex Health may need: it returns.
CloseReturns == closing ~> pc[Health] = "exit"
==============================================================================
