------------------------- MODULE StorageManagerProofs -------------------------
(***************************************************************************)
(* Proofs about the storage manager, for any number of callers and any     *)
(* failure limit: flag and pointer agree and go round in one circle, no    *)
(* caller strands more than one increment, and it takes a cause to         *)
(* degrade.                                                                *)
(***************************************************************************)
EXTENDS StorageManager, FiniteSetTheorems, TLAPS

-------------------------------------------------------------------------------
(* Type correctness.                                                       *)

ManagerTypes ==
  /\ current \in Stores /\ degraded \in BOOLEAN
  /\ failures \in 0..MaxFailures
  /\ mu \in Actors \cup {None}

CallerTypes ==
  /\ closing \in BOOLEAN
  /\ pc \in [Actors -> PCs]
  /\ op \in [Callers -> Ops \cup {"none"}]
  /\ target \in [Callers -> Stores]

HistoryTypes ==
  /\ primaryUp \in BOOLEAN /\ outages \in 0..MaxOutages
  /\ strays \in Nat /\ blameless \in 0..MaxFailures

LEMMA TypesInit == Init => TypeOK
<1> SUFFICES ASSUME Init  PROVE TypeOK
  OBVIOUS
<1>1. ManagerTypes
  <2>1. failures \in 0..MaxFailures
    BY ManagerAssumption DEF Init
  <2> QED  BY <2>1 DEF Init, ManagerTypes, Stores
<1>2. CallerTypes
  BY DEF Init, CallerTypes, PCs, Stores
<1>3. HistoryTypes
  BY ManagerAssumption DEF Init, HistoryTypes
<1> QED  BY <1>1, <1>2, <1>3 DEF TypeOK, ManagerTypes, CallerTypes, HistoryTypes

\* What every step is: one actor moves, or the environment.
ActorStep(a) ==
  \/ a \in Callers /\ ((\E o \in Ops : Call(a, o)) \/ GetCurrent(a) \/ Run(a) \/ Check(a)
                       \/ Recheck(a) \/ Retry(a))
  \/ a = Health /\ (Ping \/ Reset \/ Healthy \/ Recover \/ ToPrimary \/ NextTick \/ Stop)
  \/ RecordStep(a) \/ Lock(a)

LEMMA KindsOfSteps ==
  ASSUME [Next]_vars
  PROVE  \/ \E a \in Actors : ActorStep(a)
         \/ Close \/ PrimaryFails \/ PrimaryReturns
         \/ UNCHANGED vars
BY DEF Next, CallerStep, HealthStep, ActorStep, Actors

LEMMA PlacesStep ==
  ASSUME TypeOK, NEW a \in Actors, ActorStep(a)
  PROVE  \/ UNCHANGED pc
         \/ \E place \in PCs : pc' = [pc EXCEPT ![a] = place]
<1>1. CASE a \in Callers /\ ((\E o \in Ops : Call(a, o)) \/ GetCurrent(a) \/ Run(a)
                             \/ Check(a) \/ Recheck(a) \/ Retry(a))
  BY <1>1 DEF Call, GetCurrent, Run, Check, Recheck, Retry, Return, Goto, PCs
<1>2. CASE a = Health /\ (Ping \/ Reset \/ Healthy \/ Recover \/ ToPrimary \/ NextTick \/ Stop)
  BY <1>2 DEF Ping, Reset, Healthy, Recover, ToPrimary, NextTick, Stop, Goto, PCs
<1>3. CASE RecordStep(a) \/ Lock(a)
  BY <1>3 DEF RecordStep, CountFailure, TestDegraded, Degrade, ToFallback, Lock, AfterRecord,
              Goto, PCs
<1> QED  BY <1>1, <1>2, <1>3 DEF ActorStep

LEMMA ManagerTypesStep ==
  ASSUME TypeOK, NEW a \in Actors, ActorStep(a)
  PROVE  ManagerTypes'
<1>1. current' \in Stores
  BY DEF TypeOK, Stores, ActorStep, Call, GetCurrent, Run, Check, Recheck, Retry, Ping, Reset,
         Healthy, Recover, ToPrimary, NextTick, Stop, RecordStep, CountFailure, TestDegraded,
         Degrade, ToFallback, Lock, manager, unrelated
<1>2. degraded' \in BOOLEAN
  BY DEF TypeOK, ActorStep, Call, GetCurrent, Run, Check, Recheck, Retry, Ping, Reset,
         Healthy, Recover, ToPrimary, NextTick, Stop, RecordStep, CountFailure, TestDegraded,
         Degrade, ToFallback, Lock, manager, unrelated
<1>3. failures' \in 0..MaxFailures
  BY ManagerAssumption
     DEF TypeOK, ActorStep, Call, GetCurrent, Run, Check, Recheck, Retry, Ping, Reset,
         Healthy, Recover, ToPrimary, NextTick, Stop, RecordStep, CountFailure, TestDegraded,
         Degrade, ToFallback, Lock, manager, unrelated
<1>4. mu' \in Actors \cup {None}
  BY DEF TypeOK, ActorStep, Call, GetCurrent, Run, Check, Recheck, Retry, Ping, Reset,
         Healthy, Recover, ToPrimary, NextTick, Stop, RecordStep, CountFailure, TestDegraded,
         Degrade, ToFallback, Lock, manager, unrelated
<1> QED  BY <1>1, <1>2, <1>3, <1>4 DEF ManagerTypes

LEMMA CallerTypesStep ==
  ASSUME TypeOK, NEW a \in Actors, ActorStep(a)
  PROVE  CallerTypes'
<1>1. closing' \in BOOLEAN
  BY DEF TypeOK, ActorStep, Call, GetCurrent, Run, Check, Recheck, Retry, Ping, Reset,
         Healthy, Recover, ToPrimary, NextTick, Stop, RecordStep, CountFailure, TestDegraded,
         Degrade, ToFallback, Lock, unrelated
<1>2. pc' \in [Actors -> PCs]
  BY PlacesStep DEF TypeOK
<1>3. op' \in [Callers -> Ops \cup {"none"}]
  BY DEF TypeOK, ActorStep, Call, GetCurrent, Run, Check, Recheck, Retry, Return, Ping, Reset,
         Healthy, Recover, ToPrimary, NextTick, Stop, RecordStep, CountFailure, TestDegraded,
         Degrade, ToFallback, Lock, unrelated
<1>4. target' \in [Callers -> Stores]
  BY DEF TypeOK, Stores, ActorStep, Call, GetCurrent, Run, Check, Recheck, Retry, Return, Ping,
         Reset, Healthy, Recover, ToPrimary, NextTick, Stop, RecordStep, CountFailure,
         TestDegraded, Degrade, ToFallback, Lock, unrelated
<1> QED  BY <1>1, <1>2, <1>3, <1>4 DEF CallerTypes

LEMMA HistoryTypesStep ==
  ASSUME TypeOK, NEW a \in Actors, ActorStep(a)
  PROVE  HistoryTypes'
<1>1. UNCHANGED <<primaryUp, outages>>
  BY DEF ActorStep, Call, GetCurrent, Run, Check, Recheck, Retry, Ping, Reset, Healthy,
         Recover, ToPrimary, NextTick, Stop, RecordStep, CountFailure, TestDegraded, Degrade,
         ToFallback, Lock, unrelated, env
<1>2. strays' \in {strays, strays + 1, 0}
  BY DEF ActorStep, Call, GetCurrent, Run, Check, Recheck, Retry, RunOn, Ping, Reset, Healthy,
         Recover, ToPrimary, NextTick, Stop, RecordStep, CountFailure, TestDegraded, Degrade,
         ToFallback, Lock, unrelated, history
<1>3. blameless' = blameless \/ (blameless < MaxFailures /\ blameless' = blameless + 1)
  BY DEF ActorStep, Call, GetCurrent, Run, Check, Recheck, Retry, RunOn, Ping, Reset, Healthy,
         Recover, ToPrimary, NextTick, Stop, RecordStep, CountFailure, TestDegraded, Degrade,
         ToFallback, Lock, unrelated, history
<1>4. blameless' \in 0..MaxFailures
  BY <1>3, ManagerAssumption DEF TypeOK
<1> QED  BY <1>1, <1>2, <1>4 DEF TypeOK, HistoryTypes

LEMMA TypesStep ==
  ASSUME TypeOK, [Next]_vars
  PROVE  TypeOK'
<1>1. ASSUME NEW a \in Actors, ActorStep(a)
      PROVE  TypeOK'
  BY <1>1, ManagerTypesStep, CallerTypesStep, HistoryTypesStep
     DEF TypeOK, ManagerTypes, CallerTypes, HistoryTypes
<1>2. CASE Close
  BY <1>2 DEF Close, TypeOK, manager, env, history
<1>3. CASE PrimaryFails \/ PrimaryReturns
  <2>1. outages' \in 0..MaxOutages
    BY <1>3, ManagerAssumption DEF PrimaryFails, PrimaryReturns, TypeOK
  <2> QED  BY <1>3, <2>1 DEF PrimaryFails, PrimaryReturns, TypeOK, manager, history
<1>4. CASE UNCHANGED vars
  BY <1>4 DEF vars, manager, env, history, TypeOK
<1> QED  BY <1>1, <1>2, <1>3, <1>4, KindsOfSteps

-------------------------------------------------------------------------------
(* The mutex, and what it protects.                                        *)

Agree == degraded <=> current = "fallback"

Holding == {"degrade", "toFallback", "recover", "toPrimary"}

\* The mutex is held by who is inside degrade or recover, and flag and pointer differ
\* only between the two writes of one of these.
MutexInv ==
  /\ \A a \in Actors : pc[a] \in Holding <=> mu = a
  /\ \A a \in Actors : pc[a] \in {"degrade", "recover"} => Agree
  /\ \A a \in Actors : pc[a] = "toFallback" => degraded /\ current = "primary"
  /\ \A a \in Actors : pc[a] = "toPrimary" => ~degraded /\ current = "fallback"
  /\ mu = None => Agree

LEMMA MutexInit == Init => MutexInv
BY ManagerAssumption DEF Init, MutexInv, Agree, Holding, Actors

\* The steps that write no flag, no pointer and no mutex.
LEMMA ElsewhereSteps ==
  ASSUME TypeOK, NEW a \in Actors, ActorStep(a),
         ~(Lock(a) \/ Degrade(a) \/ ToFallback(a) \/ (a = Health /\ (Recover \/ ToPrimary)))
  PROVE  /\ UNCHANGED <<degraded, current, mu>>
         /\ pc[a] \notin Holding /\ pc'[a] \notin Holding
         /\ \A b \in Actors \ {a} : pc'[b] = pc[b]
<1>1. UNCHANGED <<degraded, current, mu>>
  BY DEF ActorStep, Call, GetCurrent, Run, Check, Recheck, Retry, Ping, Reset, Healthy,
         NextTick, Stop, RecordStep, CountFailure, TestDegraded, manager, unrelated
<1>2. pc[a] \notin Holding
  BY DEF ActorStep, Call, GetCurrent, Run, Check, Recheck, Retry, Ping, Reset, Healthy,
         NextTick, Stop, RecordStep, CountFailure, TestDegraded, Holding
<1>3. \E place \in PCs \ Holding : pc' = [pc EXCEPT ![a] = place]
  BY DEF ActorStep, Call, GetCurrent, Run, Check, Recheck, Retry, Return, Ping, Reset, Healthy,
         NextTick, Stop, RecordStep, CountFailure, TestDegraded, AfterRecord, Goto, PCs, Holding
<1> QED  BY <1>1, <1>2, <1>3 DEF TypeOK

LEMMA MutexStep ==
  ASSUME TypeOK, MutexInv, [Next]_vars
  PROVE  MutexInv'
<1>1. ASSUME NEW a \in Actors, ActorStep(a)
      PROVE  MutexInv'
  <2>1. CASE Lock(a)
    BY <2>1, ManagerAssumption DEF Lock, Goto, MutexInv, Agree, Holding, TypeOK, Actors
  <2>2. CASE Degrade(a)
    BY <2>2, ManagerAssumption
       DEF Degrade, Goto, AfterRecord, MutexInv, Agree, Holding, TypeOK, Actors, Stores
  <2>3. CASE ToFallback(a)
    BY <2>3, ManagerAssumption
       DEF ToFallback, Goto, AfterRecord, MutexInv, Agree, Holding, TypeOK, Actors
  <2>4. CASE a = Health /\ Recover
    BY <2>4, ManagerAssumption DEF Recover, Goto, MutexInv, Agree, Holding, TypeOK, Actors, Stores
  <2>5. CASE a = Health /\ ToPrimary
    BY <2>5, ManagerAssumption DEF ToPrimary, Goto, MutexInv, Agree, Holding, TypeOK, Actors
  <2>6. CASE ~(Lock(a) \/ Degrade(a) \/ ToFallback(a) \/ (a = Health /\ (Recover \/ ToPrimary)))
    <3>1. /\ UNCHANGED <<degraded, current, mu>>
          /\ pc[a] \notin Holding /\ pc'[a] \notin Holding
          /\ \A b \in Actors \ {a} : pc'[b] = pc[b]
      BY <1>1, <2>6, ElsewhereSteps
    <3> QED  BY <3>1 DEF MutexInv, Agree, Holding
  <2> QED  BY <2>1, <2>2, <2>3, <2>4, <2>5, <2>6
<1>2. CASE Close \/ PrimaryFails \/ PrimaryReturns \/ UNCHANGED vars
  <2>1. UNCHANGED <<manager, pc>>
    BY <1>2 DEF Close, PrimaryFails, PrimaryReturns, vars
  <2> QED  BY <2>1 DEF manager, MutexInv, Agree
<1> QED  BY <1>1, <1>2, KindsOfSteps

\* Whatever callers and the health check do at the same time, flag and pointer agree
\* whenever nobody is between the two.
THEOREM ModesAlwaysAgree == Spec => []ModeAgrees
<1>1. Init => TypeOK /\ MutexInv
  BY TypesInit, MutexInit
<1>2. TypeOK /\ MutexInv /\ [Next]_vars => (TypeOK /\ MutexInv)'
  BY TypesStep, MutexStep
<1>3. TypeOK /\ MutexInv => ModeAgrees
  BY DEF MutexInv, Agree, ModeAgrees
<1> QED  BY <1>1, <1>2, <1>3, PTL DEF Spec

\* Any number of goroutines that degrade and one that recovers move flag and pointer
\* in the one circle of FailoverCycle.
THEOREM ManagerImplementsFailoverCycle == Spec => ImplementsFailoverCycle
<1>1. Init => Cycle!Init
  BY DEF Init, Cycle!Init
<1>2. TypeOK /\ MutexInv /\ [Next]_vars => [Cycle!Next]_<<degraded, current>>
  <2> SUFFICES ASSUME TypeOK, MutexInv, [Next]_vars
               PROVE  Cycle!Next \/ UNCHANGED <<degraded, current>>
    OBVIOUS
  <2>1. ASSUME NEW a \in Actors, ActorStep(a)
        PROVE  Cycle!Next \/ UNCHANGED <<degraded, current>>
    <3>1. CASE Lock(a)
      BY <3>1 DEF Lock
    <3>2. CASE Degrade(a)
      BY <3>2 DEF Degrade, MutexInv, Agree, Cycle!Next, Cycle!Flag
    <3>3. CASE ToFallback(a)
      BY <3>3 DEF ToFallback, MutexInv, Cycle!Next, Cycle!Pointer
    <3>4. CASE a = Health /\ Recover
      BY <3>4 DEF Recover, MutexInv, Agree, Cycle!Next, Cycle!Flag
    <3>5. CASE a = Health /\ ToPrimary
      BY <3>5 DEF ToPrimary, MutexInv, Cycle!Next, Cycle!Pointer
    <3> QED  BY <2>1, <3>1, <3>2, <3>3, <3>4, <3>5, ElsewhereSteps
  <2>2. CASE Close \/ PrimaryFails \/ PrimaryReturns \/ UNCHANGED vars
    BY <2>2 DEF Close, PrimaryFails, PrimaryReturns, vars, manager
  <2> QED  BY <2>1, <2>2, KindsOfSteps
<1>3. Init => TypeOK /\ MutexInv
  BY TypesInit, MutexInit
<1>4. TypeOK /\ MutexInv /\ [Next]_vars => (TypeOK /\ MutexInv)'
  BY TypesStep, MutexStep
<1> QED  BY <1>1, <1>2, <1>3, <1>4, PTL DEF Spec, ImplementsFailoverCycle, Cycle!Spec

-------------------------------------------------------------------------------
(* Counting callers.                                                       *)

LEMMA CallersCounted ==
  ASSUME NEW S \in SUBSET Callers
  PROVE  /\ IsFiniteSet(S) /\ Cardinality(S) \in Nat
         /\ Cardinality(S) <= Cardinality(Callers)
BY ManagerAssumption, FS_Subset, FS_CardinalityType

LEMMA OneLess ==
  ASSUME NEW S \in SUBSET Callers, NEW c \in S
  PROVE  /\ Cardinality(S \ {c}) = Cardinality(S) - 1
         /\ Cardinality(S) >= 1
<1>1. Cardinality(S \ {c}) = Cardinality(S) - 1
  BY CallersCounted, FS_RemoveElement
<1>2. Cardinality(S \ {c}) \in Nat /\ Cardinality(S) \in Nat
  BY CallersCounted
<1> QED  BY <1>1, <1>2

LEMMA OneMore ==
  ASSUME NEW S \in SUBSET Callers, NEW c \in Callers \ S
  PROVE  Cardinality(S \cup {c}) = Cardinality(S) + 1
BY CallersCounted, FS_AddElement

-------------------------------------------------------------------------------
(* Stray increments.                                                       *)

\* Callers whose increment would still go to the fallback.
Adrift == {c \in Callers : (pc[c] = "run" /\ target[c] = "fallback") \/ pc[c] = "retry"}

StraysInv ==
  /\ strays <= Cardinality(Callers)
  /\ current = "primary" /\ ~degraded =>
       strays + Cardinality(Adrift) <= Cardinality(Callers)

LEMMA StraysInit == Init => StraysInv
<1> SUFFICES ASSUME Init  PROVE StraysInv
  OBVIOUS
<1>1. Cardinality(Callers) \in Nat /\ Cardinality(Adrift) \in Nat
      /\ Cardinality(Adrift) <= Cardinality(Callers)
  BY CallersCounted DEF Adrift
<1> QED  BY <1>1 DEF Init, StraysInv

\* An increment on the fallback: what may go astray has gone.
LEMMA FallbackStep ==
  ASSUME TypeOK, StraysInv, NEW c \in Adrift, UNCHANGED <<current, degraded>>,
         strays' = strays \/ (current = "primary" /\ ~degraded /\ strays' = strays + 1),
         Adrift' = Adrift \ {c}
  PROVE  StraysInv'
<1>1. /\ Cardinality(Adrift \ {c}) = Cardinality(Adrift) - 1 /\ Cardinality(Adrift) >= 1
      /\ Cardinality(Adrift) \in Nat /\ Cardinality(Callers) \in Nat /\ strays \in Nat
  BY OneLess, CallersCounted DEF Adrift, TypeOK
<1>2. Cardinality(Adrift)' = Cardinality(Adrift) - 1
  BY <1>1
<1> QED  BY <1>1, <1>2 DEF StraysInv

LEMMA StraysStep ==
  ASSUME TypeOK, MutexInv, StraysInv, [Next]_vars
  PROVE  StraysInv'
<1>0. TypeOK'
  BY TypesStep
<1>1. /\ Cardinality(Callers) \in Nat /\ strays \in Nat
      /\ Cardinality(Adrift) \in Nat /\ Cardinality(Adrift)' \in Nat
      /\ Cardinality(Adrift)' <= Cardinality(Callers)
  <2>1. Adrift \in SUBSET Callers /\ Adrift' \in SUBSET Callers
    BY DEF Adrift
  <2> QED  BY <2>1, CallersCounted DEF TypeOK
<1>2. ASSUME strays' = strays, ~(current' = "primary" /\ ~degraded')
      PROVE  StraysInv'
  BY <1>2 DEF StraysInv
<1>3. ASSUME strays' = strays, UNCHANGED <<current, degraded>>, Adrift' = Adrift
      PROVE  StraysInv'
  BY <1>3 DEF StraysInv
<1>4. ASSUME NEW c \in Callers, Run(c)
      PROVE  StraysInv'
  <2>1. /\ pc[c] = "run" /\ pc'[c] \in {"idle", "check"}
        /\ \A d \in Callers \ {c} : UNCHANGED <<pc[d], target[d]>>
    BY <1>4 DEF Run, Return, Goto, TypeOK, Actors
  <2>2. Adrift' = Adrift \ {c}
    BY <2>1 DEF Adrift
  <2>3. CASE target[c] = "fallback"
    <3>1. c \in Adrift
      BY <2>1, <2>3 DEF Adrift
    <3> QED  BY <1>4, <2>2, <2>3, <3>1, FallbackStep DEF Run, RunOn, manager
  <2>4. CASE target[c] # "fallback"
    <3>1. Adrift' = Adrift
      BY <2>1, <2>2, <2>4 DEF Adrift
    <3> QED  BY <1>3, <1>4, <2>4, <3>1 DEF Run, RunOn, manager
  <2> QED  BY <2>3, <2>4
<1>5. ASSUME NEW c \in Callers, Retry(c)
      PROVE  StraysInv'
  <2>1. /\ pc[c] = "retry" /\ pc'[c] = "idle"
        /\ \A d \in Callers \ {c} : UNCHANGED <<pc[d], target[d]>>
    BY <1>5 DEF Retry, Return, Goto, TypeOK, Actors
  <2>2. Adrift' = Adrift \ {c} /\ c \in Adrift
    BY <2>1 DEF Adrift
  <2> QED  BY <1>5, <2>2, FallbackStep DEF Retry, RunOn, manager
<1>6. ASSUME NEW c \in Callers, GetCurrent(c)
      PROVE  StraysInv'
  <2>1. CASE current = "primary"
    <3>1. /\ pc[c] = "load" /\ pc'[c] = "run" /\ target'[c] = "primary"
          /\ \A d \in Callers \ {c} : UNCHANGED <<pc[d], target[d]>>
      BY <1>6, <2>1 DEF GetCurrent, Goto, TypeOK, Actors
    <3>2. Adrift' = Adrift
      BY <3>1 DEF Adrift
    <3> QED  BY <1>3, <1>6, <3>2 DEF GetCurrent, manager, history
  <2>2. CASE current # "primary"
    BY <1>2, <1>6, <2>2 DEF GetCurrent, manager, history
  <2> QED  BY <2>1, <2>2
<1>7. ASSUME NEW c \in Callers, Recheck(c)
      PROVE  StraysInv'
  <2>1. CASE degraded
    BY <1>2, <1>7, <2>1 DEF Recheck, manager, history
  <2>2. CASE ~degraded
    <3>1. /\ pc[c] = "recheck" /\ pc'[c] = "idle"
          /\ \A d \in Callers \ {c} : UNCHANGED <<pc[d], target[d]>>
      BY <1>7, <2>2 DEF Recheck, Return, Goto, TypeOK, Actors
    <3>2. Adrift' = Adrift
      BY <3>1 DEF Adrift
    <3> QED  BY <1>3, <1>7, <3>2 DEF Recheck, manager, history
  <2> QED  BY <2>1, <2>2
<1>8. ASSUME NEW a \in Actors, Degrade(a) \/ ToFallback(a)
      PROVE  StraysInv'
  <2>1. CASE degraded' \/ current' = "fallback"
    BY <1>2, <1>8, <2>1 DEF Degrade, ToFallback, unrelated, history
  <2> QED  BY <1>8, <2>1 DEF Degrade, ToFallback
<1>9. ASSUME Recover \/ ToPrimary
      PROVE  StraysInv'
  <2>1. CASE Recover
    <3>1. CASE degraded
      <4>1. current' # "primary"
        BY <2>1, <3>1 DEF Recover, MutexInv, Agree, Actors
      <4> QED  BY <1>2, <2>1, <4>1 DEF Recover, unrelated, history
    <3>2. CASE ~degraded
      <4>1. /\ UNCHANGED <<current, degraded, strays, target>>
            /\ \A d \in Callers : UNCHANGED pc[d]
        BY <2>1, <3>2, ManagerAssumption DEF Recover, Goto, unrelated, history, TypeOK, Actors
      <4> QED  BY <1>3, <4>1 DEF Adrift
    <3> QED  BY <3>1, <3>2
  <2>2. CASE ToPrimary
    BY <1>1, <2>2 DEF ToPrimary, StraysInv
  <2> QED  BY <1>9, <2>1, <2>2
<1>10. ASSUME NEW a \in Actors, ActorStep(a),
              a \in Callers => ~(Run(a) \/ Retry(a) \/ GetCurrent(a) \/ Recheck(a)),
              ~(Degrade(a) \/ ToFallback(a) \/ (a = Health /\ (Recover \/ ToPrimary)))
       PROVE  StraysInv'
  <2>1. UNCHANGED <<current, degraded, strays>>
    BY <1>10
       DEF ActorStep, Call, Check, Ping, Reset, Healthy, NextTick, Stop, RecordStep,
           CountFailure, TestDegraded, Lock, manager, unrelated, history
  <2>2. \A d \in Callers \ {a} : UNCHANGED <<pc[d], target[d]>>
    BY <1>10
       DEF ActorStep, Call, Check, Return, Goto, Ping, Reset, Healthy, NextTick, Stop,
           RecordStep, CountFailure, TestDegraded, Lock, unrelated, TypeOK, Actors
  <2>3. pc[a] \notin {"run", "retry"} /\ pc'[a] \notin {"run", "retry"}
    BY <1>10
       DEF ActorStep, Call, Check, Return, Goto, Ping, Reset, Healthy, NextTick, Stop,
           RecordStep, CountFailure, TestDegraded, Lock, AfterRecord, TypeOK, Actors
  <2>4. Adrift' = Adrift
    BY <2>2, <2>3 DEF Adrift
  <2> QED  BY <1>3, <2>1, <2>4
<1>11. ASSUME Close \/ PrimaryFails \/ PrimaryReturns \/ UNCHANGED vars
       PROVE  StraysInv'
  <2>1. UNCHANGED <<current, degraded, strays, pc, target>>
    BY <1>11 DEF Close, PrimaryFails, PrimaryReturns, vars, manager, history
  <2> QED  BY <1>3, <2>1 DEF Adrift
<1>12. ASSUME NEW a \in Actors, ActorStep(a)
       PROVE  StraysInv'
  BY <1>12, <1>4, <1>5, <1>6, <1>7, <1>8, <1>9, <1>10
<1> QED  BY <1>11, <1>12, KindsOfSteps

\* However often the manager switches, and whenever callers get to run, each recovery
\* strands at most one increment of each.
THEOREM StraysAreBounded == Spec => []StraysBounded
<1>1. Init => TypeOK /\ MutexInv /\ StraysInv
  BY TypesInit, MutexInit, StraysInit
<1>2. TypeOK /\ MutexInv /\ StraysInv /\ [Next]_vars => (TypeOK /\ MutexInv /\ StraysInv)'
  BY TypesStep, MutexStep, StraysStep
<1>3. StraysInv => StraysBounded
  BY DEF StraysInv, StraysBounded
<1> QED  BY <1>1, <1>2, <1>3, PTL DEF Spec

-------------------------------------------------------------------------------
(* The cause of a degradation.                                             *)

\* Callers whose failure is on its way to the counter.
Blamed == {c \in Callers : pc[c] \in {"check", "count"}}

Degrading == {"test", "lock", "degrade", "toFallback"}

\* Without an outage the health check records no failure, and every failure that a
\* caller has recorded or is about to record was blameless.
CauseInv ==
  /\ ~primaryUp => outages > 0
  /\ outages = 0 =>
       /\ pc[Health] \notin {"count"} \cup Degrading
       /\ blameless < MaxFailures => failures + Cardinality(Blamed) <= blameless
       /\ degraded \/ (\E c \in Callers : pc[c] \in Degrading) => blameless >= MaxFailures

LEMMA CauseInit == Init => CauseInv
<1> SUFFICES ASSUME Init  PROVE CauseInv
  OBVIOUS
<1>1. Blamed = {} /\ \A c \in Callers : pc[c] \notin Degrading
  BY ManagerAssumption DEF Init, Blamed, Degrading, Actors
<1>2. pc[Health] = "ping"
  BY DEF Init, Actors
<1> QED  BY <1>1, <1>2, FS_EmptySet DEF Init, CauseInv, Degrading

\* The steps that leave the counts alone.
LEMMA CauseStays ==
  ASSUME CauseInv, UNCHANGED <<failures, blameless, primaryUp, outages>>,
         degraded' => degraded,
         pc'[Health] \in {"count"} \cup Degrading => pc[Health] \in {"count"} \cup Degrading,
         \A c \in Callers : pc'[c] \in Degrading => \E d \in Callers : pc[d] \in Degrading,
         Blamed' = Blamed
  PROVE  CauseInv'
BY DEF CauseInv

\* A failure that is not counted after all.
LEMMA BlamedLess ==
  ASSUME TypeOK, CauseInv, UNCHANGED <<failures, blameless, degraded, primaryUp, outages>>,
         NEW c \in Blamed, Blamed' = Blamed \ {c}, pc'[Health] = pc[Health],
         \A d \in Callers : pc'[d] \in Degrading => pc[d] \in Degrading
  PROVE  CauseInv'
<1>1. Cardinality(Blamed)' = Cardinality(Blamed) - 1 /\ Cardinality(Blamed) \in Nat
  BY OneLess, CallersCounted DEF Blamed
<1>2. failures \in Nat /\ blameless \in Nat /\ outages \in Nat
  BY ManagerAssumption DEF TypeOK
<1> QED  BY <1>1, <1>2 DEF CauseInv

LEMMA CauseStep ==
  ASSUME TypeOK, CauseInv, [Next]_vars
  PROVE  CauseInv'
<1>0. TypeOK'
  BY TypesStep
<1>1. CASE outages' # 0
  BY <1>0, <1>1, ManagerAssumption DEF CauseInv, TypeOK
<1> SUFFICES ASSUME outages' = 0  PROVE CauseInv'
  BY <1>1
<1>2. /\ failures \in Nat /\ blameless \in Nat /\ MaxFailures \in Nat /\ blameless' \in Nat
      /\ blameless <= MaxFailures
      /\ Blamed \in SUBSET Callers /\ Cardinality(Blamed) \in Nat
  BY CallersCounted, ManagerAssumption, <1>0 DEF TypeOK, Blamed
<1>3. ASSUME NEW a \in Actors, ActorStep(a)
      PROVE  CauseInv'
  <2>1. /\ UNCHANGED <<primaryUp, outages>> /\ outages = 0 /\ primaryUp
        /\ pc[Health] \notin {"count"} \cup Degrading
        /\ blameless < MaxFailures => failures + Cardinality(Blamed) <= blameless
        /\ degraded \/ (\E c \in Callers : pc[c] \in Degrading) => blameless >= MaxFailures
    <3>1. UNCHANGED <<primaryUp, outages>>
      BY <1>3
         DEF ActorStep, Call, GetCurrent, Run, Check, Recheck, Retry, Ping, Reset, Healthy,
             Recover, ToPrimary, NextTick, Stop, RecordStep, CountFailure, TestDegraded, Degrade,
             ToFallback, Lock, unrelated, env
    <3>2. outages = 0 /\ ~(outages > 0)
      BY <3>1
    <3> QED  BY <3>1, <3>2 DEF CauseInv
  <2>2. /\ \A b \in Actors \ {a} : pc'[b] = pc[b]
        /\ Health \in Actors /\ Callers \subseteq Actors /\ Health \notin Callers
    BY <1>3, PlacesStep, ManagerAssumption DEF TypeOK, Actors
  <2>3. CASE a \in Callers /\ Run(a)
    <3>1. /\ pc[a] = "run" /\ pc'[a] \in {"idle", "check"} /\ UNCHANGED <<failures, degraded>>
          /\ pc'[a] = "idle" => blameless' = blameless
          /\ pc'[a] = "check" => blameless' = IF blameless < MaxFailures
                                                THEN blameless + 1 ELSE blameless
      BY <2>1, <2>2, <2>3 DEF Run, RunOn, Return, Goto, manager, TypeOK
    <3>2. \A c \in Callers : pc'[c] \in Degrading => pc[c] \in Degrading
      BY <2>2, <3>1 DEF Degrading
    <3>3. CASE pc'[a] = "idle"
      <4>1. Blamed' = Blamed
        BY <2>2, <3>1, <3>3 DEF Blamed
      <4> QED  BY <2>1, <2>2, <2>3, <3>1, <3>2, <3>3, <4>1, CauseStays
    <3>4. CASE pc'[a] = "check"
      <4>1. Blamed' = Blamed \cup {a} /\ a \notin Blamed
        BY <2>2, <2>3, <3>1, <3>4 DEF Blamed
      <4>2. Cardinality(Blamed)' = Cardinality(Blamed) + 1
        BY <1>2, <2>3, <4>1, OneMore
      <4>3. blameless' < MaxFailures => failures' + Cardinality(Blamed)' <= blameless'
        BY <1>2, <2>1, <3>1, <3>4, <4>2
      <4>4. blameless' >= blameless
        BY <1>2, <3>1, <3>4
      <4>5. degraded' \/ (\E c \in Callers : pc'[c] \in Degrading) => blameless' >= MaxFailures
        BY <1>2, <2>1, <3>1, <3>2, <4>4
      <4> QED  BY <2>1, <2>2, <2>3, <4>3, <4>5 DEF CauseInv
    <3> QED  BY <3>1, <3>3, <3>4
  <2>4. CASE a \in Callers /\ Retry(a)
    <3>1. /\ pc[a] = "retry" /\ pc'[a] = "idle" /\ UNCHANGED <<failures, degraded>>
          /\ blameless' \in {blameless, blameless + 1}
      BY <2>2, <2>4 DEF Retry, RunOn, Return, Goto, manager, TypeOK
    <3>2. Blamed' = Blamed /\ \A c \in Callers : pc'[c] \in Degrading => pc[c] \in Degrading
      BY <2>2, <3>1 DEF Blamed, Degrading
    <3>3. blameless' >= blameless
      BY <1>2, <3>1
    <3>4. blameless' < MaxFailures => failures' + Cardinality(Blamed)' <= blameless'
      BY <1>2, <2>1, <3>1, <3>2, <3>3
    <3>5. degraded' \/ (\E c \in Callers : pc'[c] \in Degrading) => blameless' >= MaxFailures
      BY <1>2, <2>1, <3>1, <3>2, <3>3
    <3> QED  BY <2>1, <2>2, <2>4, <3>4, <3>5 DEF CauseInv
  <2>5. CASE a \in Callers /\ Check(a)
    <3>1. /\ pc[a] = "check" /\ pc'[a] \in {"idle", "count"}
          /\ UNCHANGED <<failures, degraded, blameless>>
      BY <2>2, <2>5 DEF Check, Return, Goto, manager, history, TypeOK
    <3>2. \A c \in Callers : pc'[c] \in Degrading => pc[c] \in Degrading
      BY <2>2, <3>1 DEF Degrading
    <3>3. CASE pc'[a] = "count"
      <4>1. Blamed' = Blamed
        BY <2>2, <3>1, <3>3 DEF Blamed
      <4> QED  BY <2>1, <2>2, <2>5, <3>1, <3>2, <4>1, CauseStays
    <3>4. CASE pc'[a] = "idle"
      <4>1. Blamed' = Blamed \ {a} /\ a \in Blamed
        BY <2>2, <2>5, <3>1, <3>4 DEF Blamed
      <4> QED  BY <1>2, <2>1, <2>2, <2>5, <3>1, <3>2, <4>1, BlamedLess
    <3> QED  BY <3>1, <3>3, <3>4
  <2>6. CASE CountFailure(a)
    <3>1. a \in Callers /\ pc[a] = "count"
      BY <2>1, <2>6 DEF CountFailure, Actors
    <3>2. /\ UNCHANGED <<degraded, blameless>> /\ pc'[a] \in {"test", "recheck"}
          /\ failures' = IF failures < MaxFailures THEN failures + 1 ELSE failures
          /\ pc'[a] = "test" => failures' >= MaxFailures
      BY <2>2, <2>6, <3>1 DEF CountFailure, AfterRecord, Goto, unrelated, history, TypeOK
    <3>3. Blamed' = Blamed \ {a} /\ a \in Blamed
      BY <2>2, <3>1, <3>2 DEF Blamed
    <3>4. Cardinality(Blamed)' = Cardinality(Blamed) - 1 /\ Cardinality(Blamed) >= 1
      BY <1>2, <3>3, OneLess
    <3>5. blameless' < MaxFailures => failures' + Cardinality(Blamed)' <= blameless'
      BY <1>2, <2>1, <3>2, <3>4
    <3>6. pc'[a] = "test" => blameless >= MaxFailures
      BY <1>2, <2>1, <3>2, <3>4
    <3>7. \A c \in Callers : pc'[c] \in Degrading => pc[c] \in Degrading \/ pc'[a] = "test"
      BY <2>2, <3>2 DEF Degrading
    <3>8. degraded' \/ (\E c \in Callers : pc'[c] \in Degrading) => blameless' >= MaxFailures
      BY <2>1, <3>2, <3>6, <3>7
    <3> QED  BY <2>1, <2>2, <3>1, <3>5, <3>8 DEF CauseInv
  <2>7. CASE Degrade(a)
    <3>1. a \in Callers /\ pc[a] \in Degrading
      BY <2>1, <2>7 DEF Degrade, Actors, Degrading
    <3>2. blameless >= MaxFailures
      BY <2>1, <3>1
    <3>3. UNCHANGED <<failures, blameless>>
      BY <2>7 DEF Degrade, unrelated, history
    <3> QED  BY <1>2, <2>1, <2>2, <3>1, <3>2, <3>3 DEF CauseInv
  <2>8. CASE a = Health /\ Reset
    <3>1. /\ failures' = 0 /\ UNCHANGED <<degraded, blameless>> /\ pc'[Health] = "healthy"
          /\ \A c \in Callers : pc'[c] = pc[c]
      BY <2>2, <2>8 DEF Reset, Goto, unrelated, history, TypeOK
    <3>2. Blamed' = Blamed
      BY <3>1 DEF Blamed
    <3>3. blameless' < MaxFailures => failures' + Cardinality(Blamed)' <= blameless'
      BY <1>2, <2>1, <3>1, <3>2
    <3> QED  BY <2>1, <3>1, <3>3 DEF CauseInv, Degrading
  <2>9. CASE ~(\/ a \in Callers /\ (Run(a) \/ Retry(a) \/ Check(a))
               \/ CountFailure(a) \/ Degrade(a) \/ (a = Health /\ Reset))
    <3>1. UNCHANGED <<failures, blameless>> /\ (degraded' => degraded)
      BY <1>3, <2>9
         DEF ActorStep, Call, GetCurrent, Recheck, Ping, Healthy, Recover, ToPrimary, NextTick,
             Stop, RecordStep, TestDegraded, ToFallback, Lock, manager, unrelated, history
    <3>2. /\ pc'[a] \in Degrading => pc[a] \in Degrading
          /\ pc'[a] \notin {"check", "count"} /\ pc[a] \notin {"check", "count"}
      BY <1>3, <2>1, <2>9
         DEF ActorStep, Call, GetCurrent, Recheck, Return, Goto, Ping, Healthy, Recover,
             ToPrimary, NextTick, Stop, RecordStep, TestDegraded, ToFallback, Lock, AfterRecord,
             Degrading, TypeOK
    <3>3. Blamed' = Blamed
      BY <2>2, <3>2 DEF Blamed
    <3>4. \A c \in Actors : pc'[c] \in Degrading => pc[c] \in Degrading
      BY <2>2, <3>2
    <3>5. pc'[Health] \notin {"count"} \cup Degrading
      BY <2>1, <2>2, <3>2, <3>4
    <3> QED  BY <2>1, <2>2, <3>1, <3>3, <3>4, <3>5, CauseStays
  <2> QED  BY <2>3, <2>4, <2>5, <2>6, <2>7, <2>8, <2>9
<1>4. CASE Close \/ PrimaryReturns \/ UNCHANGED vars
  <2>1. UNCHANGED <<failures, degraded, blameless, pc, outages>> /\ (primaryUp => primaryUp')
    BY <1>4 DEF Close, PrimaryReturns, vars, manager, env, history
  <2> QED  BY <2>1 DEF CauseInv, Blamed
<1>5. CASE PrimaryFails
  <2>1. outages' # 0
    BY <1>5, ManagerAssumption DEF PrimaryFails, TypeOK
  <2> QED  BY <2>1
<1> QED  BY <1>3, <1>4, <1>5, KindsOfSteps

\* However failures, successes and switches interleave, the manager never degrades on
\* fewer failures than it is configured to bear, unless the primary was down.
THEOREM DegradationsHaveACause == Spec => []DegradedForCause
<1>1. Init => TypeOK /\ CauseInv
  BY TypesInit, CauseInit
<1>2. TypeOK /\ CauseInv /\ [Next]_vars => (TypeOK /\ CauseInv)'
  BY TypesStep, CauseStep
<1>3. TypeOK /\ CauseInv => DegradedForCause
  BY ManagerAssumption DEF TypeOK, CauseInv, DegradedForCause
<1> QED  BY <1>1, <1>2, <1>3, PTL DEF Spec

===============================================================================
