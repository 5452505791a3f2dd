---------------------------- MODULE FailoverProofs ----------------------------
(***************************************************************************)
(* Proofs about one counter over two stores, for any limit, any number of  *)
(* callers and any number of failovers: what a client may use in a window. *)
(***************************************************************************)
EXTENDS Failover, FiniteSetTheorems, TLAPS

-------------------------------------------------------------------------------
(* Sets of callers, and numbers.                                           *)

LEMMA CallersCounted ==
  ASSUME NEW S \in SUBSET Callers
  PROVE  IsFiniteSet(S) /\ Cardinality(S) \in Nat /\ Cardinality(S) <= N /\ N \in Nat
BY FailoverAssumption, FS_Subset, FS_CardinalityType DEF N

LEMMA NoMore ==
  ASSUME NEW S \in SUBSET Callers, NEW T \in SUBSET S
  PROVE  Cardinality(T) <= Cardinality(S)
BY CallersCounted, FS_Subset

LEMMA OneLess ==
  ASSUME NEW S \in SUBSET Callers, NEW c \in S, NEW T \in SUBSET (S \ {c})
  PROVE  Cardinality(T) + 1 <= Cardinality(S)
<1>1. IsFiniteSet(S) /\ S \ {c} \in SUBSET Callers
  BY CallersCounted
<1>2. Cardinality(S \ {c}) = Cardinality(S) - 1
  BY <1>1, FS_RemoveElement
<1>3. Cardinality(T) <= Cardinality(S \ {c})
  BY <1>1, NoMore
<1>4. Cardinality(T) \in Nat /\ Cardinality(S) \in Nat
  BY CallersCounted
<1> QED  BY <1>2, <1>3, <1>4

LEMMA SomeCaller == N \in Nat /\ N >= 1
<1>1. N \in Nat
  BY CallersCounted
<1>2. N # 0
  BY FailoverAssumption, FS_EmptySet DEF N
<1> QED  BY <1>1, <1>2

-------------------------------------------------------------------------------
(* Type correctness, and what else is plain.                               *)

\* Nobody is let pass before it arrives, and the mode says how far round the circle
\* the manager is.
Round == moves % 4

Plain ==
  /\ TypeOK
  /\ \A c \in Callers : pc[c] = "idle" => pass[c] = None
  /\ degraded <=> Round \in {1, 2}
  /\ current = "primary" <=> Round \in {0, 1}

LEMMA PlainInit == Init => Plain
<1> SUFFICES ASSUME Init  PROVE Plain
  OBVIOUS
<1>1. 0 % 4 = 0 /\ 0 \in 0..MaxMoves /\ 0 \in 0..MaxElapses
  BY FailoverAssumption
<1>2. degraded = FALSE /\ current = "primary" /\ Round = 0
  BY <1>1 DEF Init, Cycle!Init, Round
<1>3. TypeOK
  BY <1>1, <1>2 DEF Init, TypeOK, Stores
<1>4. \A c \in Callers : pass[c] = None
  BY DEF Init
<1> QED  BY <1>2, <1>3, <1>4 DEF Plain

\* How a request gives up: it is let pass all the same, or leaves.
LEMMA GivesUp ==
  ASSUME TypeOK, NEW c \in Callers, GiveUp(c)
  PROVE  \/ pass[c] = None /\ err[c] = "notFound" /\ Pass(c, target[c])
         \/ ~(pass[c] = None /\ err[c] = "notFound") /\ Leave(c)
BY DEF GiveUp, Looking

LEMMA LocalsTyped ==
  ASSUME TypeOK, NEW c \in Callers,
         \/ \E s \in Stores : Pass(c, s)
         \/ Leave(c)
         \/ GoOn(c, "load") \/ GoOn(c, "recheck") \/ GoOn(c, "retry")
         \/ Fail(c, "notFound") \/ Fail(c, "error")
  PROVE  /\ pc' \in [Callers -> {"idle", "load", "run", "check", "recheck", "retry"}]
         /\ target' \in [Callers -> Stores]
         /\ err' \in [Callers -> {"none", "notFound", "error"}]
         /\ pass' \in [Callers -> Stores \cup {None}]
         /\ \A d \in Callers \ {c} : /\ pc'[d] = pc[d] /\ target'[d] = target[d]
                                     /\ err'[d] = err[d] /\ pass'[d] = pass[d]
BY DEF Pass, Leave, GoOn, Fail, Return, TypeOK, Stores

LEMMA Locals ==
  ASSUME TypeOK, NEW c \in Callers, CallerStep(c)
  PROVE  /\ TypeOK'
         /\ UNCHANGED rest
         /\ \A d \in Callers \ {c} : /\ pc'[d] = pc[d] /\ target'[d] = target[d]
                                     /\ err'[d] = err[d] /\ pass'[d] = pass[d]
<1>1. CASE Arrive(c)
  BY <1>1 DEF Arrive, GoOn, rest, mode, counters,
              TypeOK
<1>2. CASE GetCurrent(c)
  BY <1>2 DEF GetCurrent, rest, mode, counters, TypeOK
<1>3. CASE Run(c)
  BY <1>3 DEF Run, LookOn, NotFound, Increment, RedisFails, Fail, Pass, Leave, Return, rest, mode,
              counters, TypeOK, Looking, Stores
<1>4. CASE Check(c) \/ Recheck(c)
  <2>1. GiveUp(c) \/ GoOn(c, "recheck") \/ GoOn(c, "retry")
    BY <1>4 DEF Check, Recheck
  <2>2. \/ \E s \in Stores : Pass(c, s)
        \/ Leave(c) \/ GoOn(c, "recheck") \/ GoOn(c, "retry")
    BY <2>1, GivesUp DEF TypeOK
  <2>3. UNCHANGED <<rest, counters>>
    BY <1>4 DEF Check, Recheck
  <2> QED  BY <2>2, <2>3, LocalsTyped DEF rest, mode, counters, TypeOK
<1>5. CASE Retry(c)
  BY <1>5 DEF Retry, LookOn, NotFound, Increment, Pass, Leave, Return, rest, mode, counters,
              TypeOK, Looking, Stores
<1> QED  BY <1>1, <1>2, <1>3, <1>4, <1>5 DEF CallerStep

LEMMA LeavesNothing ==
  ASSUME Plain, NEW c \in Callers, CallerStep(c)
  PROVE  \A d \in Callers : pc'[d] = "idle" => pass'[d] = None
<1>1. \A d \in Callers \ {c} : pc'[d] = "idle" => pass'[d] = None
  BY Locals DEF Plain
<1>2. pc'[c] = "idle" => pass'[c] = None
  <2>1. CASE Leave(c)
    BY <2>1 DEF Leave, Plain, TypeOK
  <2>2. CASE pc' = [pc EXCEPT ![c] = "load"] \/ pc' = [pc EXCEPT ![c] = "run"]
             \/ pc' = [pc EXCEPT ![c] = "check"] \/ pc' = [pc EXCEPT ![c] = "recheck"]
             \/ pc' = [pc EXCEPT ![c] = "retry"]
    BY <2>2 DEF Plain, TypeOK
  <2> QED  BY <2>1, <2>2 DEF CallerStep, Arrive, GetCurrent, Run, Check, Recheck, Retry, LookOn,
                             GiveUp, Pass, GoOn, Fail
<1> QED  BY <1>1, <1>2

LEMMA Turns ==
  ASSUME Plain, Move
  PROVE  /\ Plain'
         /\ Round' = IF Round = 3 THEN 0 ELSE Round + 1
         /\ crossings' = IF Round = 2 THEN crossings ELSE crossings + 1
<1>1. moves \in Nat /\ moves' = moves + 1 /\ moves' \in 0..MaxMoves
  BY FailoverAssumption DEF Plain, TypeOK, Move
<1>2. Round \in {0, 1, 2, 3} /\ Round' = IF Round = 3 THEN 0 ELSE Round + 1
  BY <1>1 DEF Round
<1>3. crossings' = IF Round = 2 THEN crossings ELSE crossings + 1
  BY <1>1 DEF Round, crossings
<1>4. /\ degraded' <=> Round' \in {1, 2}
      /\ current' = "primary" <=> Round' \in {0, 1}
      /\ degraded' \in BOOLEAN /\ current' \in Stores
  <2>1. /\ degraded \in BOOLEAN /\ current \in Stores
        /\ degraded <=> Round \in {1, 2}
        /\ current = "primary" <=> Round \in {0, 1}
    BY DEF Plain, TypeOK
  <2>2. CASE Cycle!Flag
    <3>1. degraded' = ~degraded /\ current' = current /\ (degraded <=> current = "fallback")
      BY <2>2 DEF Cycle!Flag
    <3>2. CASE degraded
      <4>1. Round = 2 /\ Round' = 3
        BY <1>2, <2>1, <3>1, <3>2 DEF Stores
      <4>2. ~degraded' /\ current' # "primary" /\ degraded' \in BOOLEAN
        BY <2>1, <3>1, <3>2, <4>1
      <4> QED  BY <2>1, <3>1, <4>1, <4>2
    <3>3. CASE ~degraded
      <4>1. Round = 0 /\ Round' = 1
        BY <1>2, <2>1, <3>1, <3>3 DEF Stores
      <4>2. degraded' /\ current' = "primary" /\ degraded' \in BOOLEAN
        BY <2>1, <3>1, <3>3, <4>1
      <4> QED  BY <2>1, <3>1, <4>1, <4>2
    <3> QED  BY <3>2, <3>3
  <2>3. CASE Cycle!Pointer
    <3>1. /\ degraded' = degraded /\ ~(degraded <=> current = "fallback")
          /\ current' = IF degraded THEN "fallback" ELSE "primary"
      BY <2>3 DEF Cycle!Pointer
    <3>2. Round \in {1, 3}
      BY <1>2, <2>1, <3>1 DEF Stores
    <3> QED  BY <1>2, <2>1, <3>1, <3>2 DEF Stores
  <2> QED  BY <2>2, <2>3 DEF Move, Cycle!Next
<1> QED  BY <1>1, <1>2, <1>3, <1>4 DEF Plain, TypeOK, Move, counters, locals

-------------------------------------------------------------------------------
(* What a caller may still do to the counters.                             *)

\* Store s has let c pass, or is about to, and c has yet to increment it.
Due(c, s) ==
  \/ pass[c] = s /\ (s = "primary" => pc[c] \in {"load", "run"})
  \/ pass[c] = None /\ pc[c] \in {"check", "recheck"} /\ err[c] = "notFound" /\ target[c] = s

\* One store has let c pass, or may yet, and c is on its way to the other, though the
\* manager does not cross over any more.
Able(c) ==
  \/ pc[c] = "load" /\ pass[c] \notin {None, current}
  \/ pc[c] = "run" /\ pass[c] \notin {None, target[c]}
  \/ pc[c] = "run" /\ pass[c] = None /\ target[c] # current
  \/ pc[c] \in {"check", "recheck"} /\ pass[c] = None /\ err[c] = "notFound" /\ target[c] # current
  \/ pc[c] = "recheck" /\ degraded /\ pass[c] = "primary"
  \/ pc[c] = "recheck" /\ degraded /\ pass[c] = None /\ current = "primary"
  \/ pc[c] = "retry" /\ pass[c] = "primary"
  \/ pc[c] = "retry" /\ pass[c] = None /\ current = "primary"

\* A step of c that leaves the counters alone makes it able to do no more, and lets
\* it pass only below the limit.
Looks(c) ==
  /\ UNCHANGED counters
  /\ Able(c)' => Able(c)
  /\ \A s \in Stores : Due(c, s)' => Due(c, s) \/ count[s] < Limit

\* One that increments the counter of s uses up what allowed it to.
Draws(c, s) ==
  /\ count' = [count EXCEPT ![s] = @ + 1]
  /\ Able(c)' => Able(c)
  /\ \A r \in Stores : Due(c, r)' => Due(c, r)
  /\ IF pass[c] = s
       THEN carried' = carried /\ Due(c, s) /\ ~Due(c, s)'
       ELSE carried' = [carried EXCEPT ![s] = @ + 1] /\ Able(c) /\ ~Able(c)'

LEMMA LooksOrDraws ==
  ASSUME Plain, NEW c \in Callers, CallerStep(c)
  PROVE  Looks(c) \/ \E s \in Stores : Draws(c, s)
<1>0. /\ c \in DOMAIN pc /\ c \in DOMAIN target /\ c \in DOMAIN err /\ c \in DOMAIN pass
      /\ target[c] \in Stores /\ current \in Stores /\ None \notin Stores
      /\ pass[c] \in Stores \cup {None}
      /\ count \in [Stores -> Nat] /\ carried \in [Stores -> Nat]
      /\ TypeOK /\ Limit \in Nat \ {0}
  BY FailoverAssumption DEF Plain, TypeOK
<1>1. CASE Arrive(c)
  <2>1. pc'[c] = "load" /\ pass'[c] = None /\ pc[c] = "idle" /\ UNCHANGED <<counters, mode>>
    BY <1>0, <1>1 DEF Arrive, GoOn, rest, Plain
  <2> QED  BY <1>0, <2>1 DEF Looks, Due, Able, Stores
<1>2. CASE GetCurrent(c)
  <2>1. /\ pc[c] = "load" /\ pc'[c] = "run" /\ target'[c] = current
        /\ UNCHANGED <<counters, degraded, current, err, pass>>
    BY <1>0, <1>2 DEF GetCurrent, rest, mode
  <2> QED  BY <1>0, <2>1 DEF Looks, Due, Able, Stores
<1>3. CASE Run(c)
  <2>0. pc[c] = "run" /\ UNCHANGED <<degraded, current>>
    BY <1>3 DEF Run, rest, mode
  <2>1. CASE LookOn(c, target[c])
    <3>1. /\ UNCHANGED counters /\ pass[c] = None
          /\ \/ count[target[c]] < Limit /\ pc'[c] = "load" /\ pass'[c] = target[c]
             \/ pc'[c] = "idle" /\ pass'[c] = None
      BY <1>0, <2>1 DEF LookOn, Looking, Pass, Leave
    <3> QED  BY <1>0, <2>0, <3>1 DEF Looks, Due, Able, Stores
  <2>2. CASE NotFound(c, target[c]) /\ Fail(c, "notFound")
    <3>1. /\ UNCHANGED counters /\ pass[c] = None /\ count[target[c]] = 0
          /\ pc'[c] = "check" /\ err'[c] = "notFound" /\ UNCHANGED <<target, pass>>
      BY <1>0, <2>2 DEF NotFound, Looking, Fail
    <3> QED  BY <1>0, <2>0, <3>1 DEF Looks, Due, Able, Stores
  <2>3. CASE Increment(c, target[c]) /\ Leave(c)
    <3>1. pass[c] # None /\ pc'[c] = "idle" /\ pass'[c] = None
      BY <1>0, <2>3 DEF Increment, Looking, Leave
    <3>2. /\ count' = [count EXCEPT ![target[c]] = @ + 1]
          /\ carried' = IF pass[c] # target[c]
                          THEN [carried EXCEPT ![target[c]] = @ + 1] ELSE carried
      BY <2>3 DEF Increment
    <3>3. PICK s \in Stores : s = target[c]
      BY <1>0
    <3>4. ~Able(c)' /\ \A r \in Stores : ~Due(c, r)'
      BY <1>0, <3>1 DEF Able, Due
    <3>5. IF pass[c] = s THEN Due(c, s) ELSE Able(c)
      BY <1>0, <2>0, <3>1, <3>3 DEF Due, Able
    <3>6. Draws(c, s)
      BY <3>2, <3>3, <3>4, <3>5 DEF Draws
    <3> QED  BY <3>6
  <2>4. CASE RedisFails(c) /\ Fail(c, "error")
    <3>1. /\ target[c] = "primary" /\ pc'[c] = "check" /\ err'[c] = "error"
          /\ UNCHANGED <<target, pass>>
      BY <1>0, <2>4 DEF RedisFails, Fail
    <3>2. CASE UNCHANGED counters
      BY <1>0, <2>0, <3>1, <3>2 DEF Looks, Due, Able, Stores
    <3>3. CASE Increment(c, "primary")
      <4>1. /\ count' = [count EXCEPT !["primary"] = @ + 1] /\ pass[c] # None
            /\ carried' = IF pass[c] # "primary"
                            THEN [carried EXCEPT !["primary"] = @ + 1] ELSE carried
        BY <3>3 DEF Increment, Looking
      <4>2. Draws(c, "primary")
        BY <1>0, <2>0, <3>1, <4>1 DEF Draws, Due, Able, Stores
      <4> QED  BY <4>2 DEF Stores
    <3> QED  BY <2>4, <3>2, <3>3 DEF RedisFails
  <2> QED  BY <1>3, <2>1, <2>2, <2>3, <2>4 DEF Run
<1>4. CASE Check(c) \/ Recheck(c)
  <2>0. /\ pc[c] \in {"check", "recheck"} /\ UNCHANGED <<degraded, current, counters>>
        /\ degraded /\ pc[c] = "recheck" => GoOn(c, "retry")
        /\ ~degraded /\ pc[c] = "check" => GoOn(c, "recheck")
        /\ degraded /\ pc[c] = "check" => GiveUp(c)
        /\ ~degraded /\ pc[c] = "recheck" => GiveUp(c)
    BY <1>4 DEF Check, Recheck, rest, mode
  <2>1. CASE GoOn(c, "retry") /\ degraded /\ pc[c] = "recheck"
    <3>1. pc'[c] = "retry" /\ UNCHANGED <<target, err, pass>>
      BY <1>0, <2>1 DEF GoOn
    <3> QED  BY <1>0, <2>0, <2>1, <3>1 DEF Looks, Due, Able, Stores
  <2>2. CASE GoOn(c, "recheck") /\ ~degraded /\ pc[c] = "check"
    <3>1. pc'[c] = "recheck" /\ UNCHANGED <<target, err, pass>>
      BY <1>0, <2>2 DEF GoOn
    <3> QED  BY <1>0, <2>0, <2>2, <3>1 DEF Looks, Due, Able, Stores
  <2>3. CASE GiveUp(c)
    <3>1. CASE pass[c] = None /\ err[c] = "notFound" /\ Pass(c, target[c])
      <4>1. pc'[c] = "load" /\ pass'[c] = target[c]
        BY <1>0, <3>1 DEF Pass
      <4> QED  BY <1>0, <2>0, <3>1, <4>1 DEF Looks, Due, Able, Stores
    <3>2. CASE Leave(c)
      <4>1. pc'[c] = "idle" /\ pass'[c] = None
        BY <1>0, <3>2 DEF Leave
      <4> QED  BY <1>0, <2>0, <4>1 DEF Looks, Due, Able, Stores
    <3> QED  BY <1>0, <2>3, <3>1, <3>2, GivesUp
  <2> QED  BY <2>0, <2>1, <2>2, <2>3
<1>5. CASE Retry(c)
  <2>0. pc[c] = "retry" /\ UNCHANGED <<degraded, current>>
    BY <1>5 DEF Retry, rest, mode
  <2>1. CASE LookOn(c, "fallback") \/ (NotFound(c, "fallback") /\ Pass(c, "fallback"))
    <3>1. /\ UNCHANGED counters /\ pass[c] = None
          /\ \/ count["fallback"] < Limit /\ pc'[c] = "load" /\ pass'[c] = "fallback"
             \/ pc'[c] = "idle" /\ pass'[c] = None
      BY <1>0, <2>1 DEF LookOn, NotFound, Looking, Pass, Leave
    <3> QED  BY <1>0, <2>0, <3>1 DEF Looks, Due, Able, Stores
  <2>2. CASE Increment(c, "fallback") /\ Leave(c)
    <3>1. pass[c] # None /\ pc'[c] = "idle" /\ pass'[c] = None
      BY <1>0, <2>2 DEF Increment, Looking, Leave
    <3>2. /\ count' = [count EXCEPT !["fallback"] = @ + 1]
          /\ carried' = IF pass[c] # "fallback"
                          THEN [carried EXCEPT !["fallback"] = @ + 1] ELSE carried
      BY <2>2 DEF Increment
    <3>3. Draws(c, "fallback")
      BY <1>0, <2>0, <3>1, <3>2 DEF Draws, Due, Able, Stores
    <3> QED  BY <3>3 DEF Stores
  <2> QED  BY <1>5, <2>1, <2>2 DEF Retry
<1> QED  BY <1>1, <1>2, <1>3, <1>4, <1>5 DEF CallerStep

\* What the others may do depends on their locals and on the mode only.
LEMMA OthersStay ==
  ASSUME TypeOK, NEW c \in Callers, CallerStep(c), NEW d \in Callers \ {c}
  PROVE  /\ Able(d)' <=> Able(d)
         /\ \A s \in Stores : Due(d, s)' <=> Due(d, s)
<1>1. /\ pc'[d] = pc[d] /\ target'[d] = target[d] /\ err'[d] = err[d] /\ pass'[d] = pass[d]
      /\ current' = current /\ degraded' = degraded
  BY Locals DEF rest, mode
<1> QED  BY <1>1 DEF Able, Due

-------------------------------------------------------------------------------
(* The bound.                                                              *)

DueSet(s) == {c \in Callers : Due(c, s)}
AbleSet == {c \in Callers : Able(c)}

\* A store's counter and those who may still increment it stay within the limit, one
\* request for every other caller, and what was carried over.
Filled(s) == count[s] + Cardinality(DueSet(s)) <= Limit + N - 1 + carried[s]

\* What was carried over, and those who may still carry over, are paid for by the
\* crossings so far.
Paid == carried["primary"] + carried["fallback"] + Cardinality(AbleSet) <= N * crossings

FailoverInv == /\ \A s \in Stores : Filled(s)
               /\ Paid

LEMMA Numbers ==
  ASSUME TypeOK
  PROVE  /\ \A s \in Stores : count[s] \in Nat /\ carried[s] \in Nat
         /\ "primary" \in Stores /\ "fallback" \in Stores
         /\ Limit \in Nat \ {0} /\ N \in Nat /\ N >= 1
         /\ crossings \in Nat /\ N * crossings \in Nat
<1>1. moves \in Nat /\ crossings \in Nat
  BY FailoverAssumption DEF TypeOK, crossings
<1>2. N * crossings \in Nat
  BY <1>1, SomeCaller
<1> QED  BY <1>1, <1>2, SomeCaller, FailoverAssumption DEF TypeOK, Stores

LEMMA FailoverInvInit == Init => FailoverInv
<1> SUFFICES ASSUME Init  PROVE FailoverInv
  OBVIOUS
<1>1. AbleSet = {} /\ \A s \in Stores : DueSet(s) = {}
  BY FailoverAssumption DEF Init, AbleSet, DueSet, Able, Due
<1>2. crossings = 0 /\ count = [s \in Stores |-> 0] /\ carried = [s \in Stores |-> 0]
  BY DEF Init, crossings
<1>3. Cardinality({}) = 0
  BY FS_EmptySet
<1>4. \A s \in Stores : Filled(s)
  BY <1>1, <1>2, <1>3, SomeCaller, FailoverAssumption DEF Filled
<1>5. N * crossings = 0
  BY <1>2, SomeCaller
<1>6. Paid
  BY <1>1, <1>2, <1>3, <1>5 DEF Paid, Stores
<1> QED  BY <1>4, <1>6 DEF FailoverInv

\* A caller that looks.
LEMMA LookKeeps ==
  ASSUME Plain, FailoverInv, NEW c \in Callers, CallerStep(c), Looks(c)
  PROVE  FailoverInv'
<1>0. TypeOK /\ crossings' = crossings /\ count' = count /\ carried' = carried
  BY Locals DEF Plain, Looks, counters, rest, crossings
<1>1. AbleSet' \subseteq AbleSet /\ AbleSet \subseteq Callers
  BY <1>0, OthersStay DEF AbleSet, Looks
<1>2. Cardinality(AbleSet') <= Cardinality(AbleSet)
  BY <1>1, NoMore
<1>3. Cardinality(AbleSet') \in Nat /\ Cardinality(AbleSet) \in Nat
  BY <1>1, CallersCounted
<1>4. Paid'
  <2>1. Paid'<=> carried["primary"] + carried["fallback"] + Cardinality(AbleSet') <= N * crossings
    BY <1>0 DEF Paid, N
  <2> QED  BY <1>0, <1>2, <1>3, <2>1, Numbers DEF FailoverInv, Paid
<1>5. ASSUME NEW s \in Stores  PROVE Filled(s)'
  <2>1. Filled(s)' <=> count[s] + Cardinality(DueSet(s)') <= Limit + N - 1 + carried[s]
    BY <1>0 DEF Filled, N
  <2>2. DueSet(s)' \subseteq Callers /\ DueSet(s) \subseteq Callers
    BY DEF DueSet
  <2>3. /\ Cardinality(DueSet(s)') \in Nat /\ Cardinality(DueSet(s)) \in Nat
        /\ Cardinality(DueSet(s)') <= N
    BY <2>2, CallersCounted
  <2>4. CASE count[s] < Limit
    BY <1>0, <2>1, <2>3, <2>4, Numbers
  <2>5. CASE ~(count[s] < Limit)
    <3>1. DueSet(s)' \subseteq DueSet(s)
      BY <1>0, <2>5, OthersStay DEF DueSet, Looks
    <3>2. Cardinality(DueSet(s)') <= Cardinality(DueSet(s))
      BY <2>2, <3>1, NoMore
    <3> QED  BY <1>0, <2>1, <2>3, <3>2, Numbers DEF FailoverInv, Filled
  <2> QED  BY <2>4, <2>5
<1> QED  BY <1>4, <1>5 DEF FailoverInv

\* A caller that increments the counter of s.
LEMMA DrawKeeps ==
  ASSUME Plain, FailoverInv, NEW c \in Callers, CallerStep(c), NEW s \in Stores, Draws(c, s)
  PROVE  FailoverInv'
<1>0. TypeOK /\ crossings' = crossings
  BY Locals DEF Plain, rest, crossings
<1>1. AbleSet' \subseteq AbleSet /\ AbleSet \subseteq Callers
  BY <1>0, OthersStay DEF AbleSet, Draws
<1>2. \A r \in Stores : DueSet(r)' \subseteq DueSet(r) /\ DueSet(r) \subseteq Callers
  BY <1>0, OthersStay DEF DueSet, Draws
<1>3. /\ Cardinality(AbleSet') \in Nat /\ Cardinality(AbleSet) \in Nat
      /\ Cardinality(AbleSet') <= Cardinality(AbleSet)
  BY <1>1, CallersCounted, NoMore
<1>4. \A r \in Stores : /\ Cardinality(DueSet(r)') \in Nat /\ Cardinality(DueSet(r)) \in Nat
                        /\ Cardinality(DueSet(r)') <= Cardinality(DueSet(r))
  BY <1>2, CallersCounted, NoMore
<1>5. /\ count'[s] = count[s] + 1
      /\ \A r \in Stores \ {s} : count'[r] = count[r]
  BY <1>0 DEF Draws, TypeOK
<1>6. Paid' <=> carried'["primary"] + carried'["fallback"] + Cardinality(AbleSet') <= N * crossings
  BY <1>0 DEF Paid, N
<1>7. \A r \in Stores :
        Filled(r)' <=> count'[r] + Cardinality(DueSet(r)') <= Limit + N - 1 + carried'[r]
  BY DEF Filled, N
<1>8. CASE pass[c] = s
  <2>1. carried' = carried /\ c \in DueSet(s) /\ c \notin DueSet(s)'
    BY <1>8 DEF Draws, DueSet
  <2>2. Cardinality(DueSet(s)') + 1 <= Cardinality(DueSet(s))
    BY <1>2, <2>1, OneLess
  <2>3. Paid'
    BY <1>0, <1>3, <1>6, <2>1, Numbers DEF FailoverInv, Paid
  <2>4. Filled(s)'
    BY <1>0, <1>4, <1>5, <1>7, <2>1, <2>2, Numbers DEF FailoverInv, Filled
  <2>5. ASSUME NEW r \in Stores \ {s}  PROVE Filled(r)'
    BY <1>0, <1>4, <1>5, <1>7, <2>1, Numbers DEF FailoverInv, Filled
  <2> QED  BY <2>3, <2>4, <2>5 DEF FailoverInv
<1>9. CASE pass[c] # s
  <2>1. c \in AbleSet /\ c \notin AbleSet'
    BY <1>9 DEF Draws, AbleSet
  <2>2. Cardinality(AbleSet') + 1 <= Cardinality(AbleSet)
    BY <1>1, <2>1, OneLess
  <2>3. carried'[s] = carried[s] + 1 /\ \A r \in Stores \ {s} : carried'[r] = carried[r]
    BY <1>0, <1>9 DEF Draws, TypeOK
  <2>4. carried'["primary"] + carried'["fallback"] = carried["primary"] + carried["fallback"] + 1
    BY <1>0, <2>3, Numbers DEF Stores
  <2>5. Paid'
    BY <1>0, <1>3, <1>6, <2>2, <2>4, Numbers DEF FailoverInv, Paid
  <2>6. ASSUME NEW r \in Stores  PROVE Filled(r)'
    BY <1>0, <1>4, <1>5, <1>7, <2>3, Numbers DEF FailoverInv, Filled
  <2> QED  BY <2>5, <2>6 DEF FailoverInv
<1> QED  BY <1>8, <1>9

\* The manager moves: a crossing pays for every caller once more, and to lower the
\* flag makes nobody able.
LEMMA MoveKeeps ==
  ASSUME Plain, FailoverInv, Move
  PROVE  FailoverInv'
<1>0. TypeOK /\ UNCHANGED <<count, carried, pc, target, err, pass>>
  BY DEF Plain, Move, counters, locals
<1>1. \A s \in Stores : DueSet(s)' = DueSet(s)
  BY <1>0 DEF DueSet, Due
<1>2. \A s \in Stores : Filled(s)'
  BY <1>0, <1>1 DEF FailoverInv, Filled, N
<1>3. /\ AbleSet \subseteq Callers /\ AbleSet' \subseteq Callers
      /\ Cardinality(AbleSet') \in Nat /\ Cardinality(AbleSet) \in Nat
      /\ Cardinality(AbleSet') <= N
  BY CallersCounted DEF AbleSet
<1>4. Paid' <=> carried["primary"] + carried["fallback"] + Cardinality(AbleSet') <= N * crossings'
  BY <1>0 DEF Paid, N
<1>5. CASE Round = 2
  <2>1. crossings' = crossings /\ degraded /\ ~degraded' /\ current' = current
    <3>1. crossings' = crossings /\ Round' = 3 /\ Plain'
      BY <1>5, Turns
    <3>2. degraded /\ current # "primary" /\ current \in Stores
      BY <1>5 DEF Plain, TypeOK
    <3>3. ~degraded' /\ current' # "primary" /\ current' \in Stores
      BY <3>1 DEF Plain, TypeOK
    <3> QED  BY <3>1, <3>2, <3>3 DEF Stores
  <2>2. AbleSet' \subseteq AbleSet
    BY <1>0, <2>1 DEF AbleSet, Able
  <2>3. Cardinality(AbleSet') <= Cardinality(AbleSet)
    BY <1>3, <2>2, NoMore
  <2>4. Paid'
    BY <1>0, <1>3, <1>4, <2>1, <2>3, Numbers DEF FailoverInv, Paid
  <2> QED  BY <1>2, <2>4 DEF FailoverInv
<1>6. CASE Round # 2
  <2>1. crossings' = crossings + 1
    BY <1>6, Turns
  <2>2. N * crossings' = N * crossings + N
    BY <1>0, <2>1, Numbers
  <2>3. Paid'
    BY <1>0, <1>3, <1>4, <2>2, Numbers DEF FailoverInv, Paid
  <2> QED  BY <1>2, <2>3 DEF FailoverInv
<1> QED  BY <1>5, <1>6

\* A counter that starts over takes with it what was carried to it.
LEMMA ElapseKeeps ==
  ASSUME Plain, FailoverInv, NEW s \in Stores, Elapse(s)
  PROVE  Plain' /\ FailoverInv'
<1>0. TypeOK /\ UNCHANGED <<pc, target, err, pass, degraded, current, moves>>
  BY DEF Plain, Elapse, locals, mode
<1>1. /\ count' = [count EXCEPT ![s] = 0] /\ carried' = [carried EXCEPT ![s] = 0]
      /\ elapses' \in 0..MaxElapses
  BY FailoverAssumption DEF Plain, TypeOK, Elapse
<1>2. Plain'
  BY <1>0, <1>1 DEF Plain, TypeOK, Round
<1>3. /\ count'[s] = 0 /\ carried'[s] = 0
      /\ \A r \in Stores \ {s} : count'[r] = count[r] /\ carried'[r] = carried[r]
  BY <1>0, <1>1 DEF TypeOK
<1>4. AbleSet' = AbleSet /\ crossings' = crossings /\ \A r \in Stores : DueSet(r)' = DueSet(r)
  BY <1>0 DEF AbleSet, Able, DueSet, Due, crossings
<1>5. /\ Cardinality(AbleSet) \in Nat
      /\ \A r \in Stores : Cardinality(DueSet(r)) \in Nat /\ Cardinality(DueSet(r)) <= N
  BY CallersCounted DEF AbleSet, DueSet
<1>6. ASSUME NEW r \in Stores  PROVE Filled(r)'
  <2>1. Filled(r)' <=> count'[r] + Cardinality(DueSet(r)) <= Limit + N - 1 + carried'[r]
    BY <1>4 DEF Filled, N
  <2>2. CASE r = s
    <3>1. count'[r] = 0 /\ carried'[r] = 0 /\ Cardinality(DueSet(r)) \in Nat
          /\ Cardinality(DueSet(r)) <= N
      BY <1>3, <1>5, <2>2
    <3>2. Limit \in Nat \ {0} /\ N \in Nat
      BY <1>0, Numbers
    <3> QED  BY <2>1, <3>1, <3>2
  <2>3. CASE r # s
    BY <1>3, <2>1, <2>3 DEF FailoverInv, Filled
  <2> QED  BY <2>2, <2>3
<1>7. Paid'
  <2>1. Paid' <=> carried'["primary"] + carried'["fallback"] + Cardinality(AbleSet) <= N * crossings
    BY <1>4 DEF Paid, N
  <2>2. carried'["primary"] + carried'["fallback"] <= carried["primary"] + carried["fallback"]
    BY <1>0, <1>3, Numbers DEF Stores
  <2>3. carried'["primary"] \in Nat /\ carried'["fallback"] \in Nat
    BY <1>2, Numbers DEF Plain, TypeOK, Stores
  <2> QED  BY <1>0, <1>5, <2>1, <2>2, <2>3, Numbers DEF FailoverInv, Paid
<1> QED  BY <1>2, <1>6, <1>7 DEF FailoverInv

\* However many callers there are and however often the manager goes round: each
\* store counts at most the limit, one request for every other caller, and what was
\* carried over, which is at most one request per caller and crossing
\* (manager.go:166, 184).
THEOREM FailoversAreBounded == Spec => []FailoverBound
<1>1. Init => Plain /\ FailoverInv
  BY PlainInit, FailoverInvInit
<1>2. Plain /\ FailoverInv /\ [Next]_vars => (Plain /\ FailoverInv)'
  <2> SUFFICES ASSUME Plain, FailoverInv, [Next]_vars
               PROVE  Plain' /\ FailoverInv'
    OBVIOUS
  <2>1. ASSUME NEW c \in Callers, CallerStep(c)
        PROVE  Plain' /\ FailoverInv'
    <3>1. FailoverInv'
      BY <2>1, LooksOrDraws, LookKeeps, DrawKeeps
    <3>2. TypeOK' /\ UNCHANGED <<moves, degraded, current>>
      BY <2>1, Locals DEF Plain, rest, mode
    <3>3. \A d \in Callers : pc'[d] = "idle" => pass'[d] = None
      BY <2>1, LeavesNothing
    <3> QED  BY <3>1, <3>2, <3>3 DEF Plain, Round
  <2>2. CASE Move
    BY <2>2, Turns, MoveKeeps
  <2>3. ASSUME NEW s \in Stores, Elapse(s)
        PROVE  Plain' /\ FailoverInv'
    BY <2>3, ElapseKeeps
  <2>4. CASE UNCHANGED vars
    BY <2>4 DEF vars, mode, locals, Plain, TypeOK, Round, FailoverInv, Filled, Paid, DueSet, Due,
                AbleSet, Able, crossings, N
  <2> QED  BY <2>1, <2>2, <2>3, <2>4 DEF Next
<1>3. Plain /\ FailoverInv => FailoverBound
  <2> SUFFICES ASSUME Plain, FailoverInv  PROVE FailoverBound
    OBVIOUS
  <2>1. /\ Cardinality(AbleSet) \in Nat
        /\ \A s \in Stores : Cardinality(DueSet(s)) \in Nat
    BY CallersCounted DEF AbleSet, DueSet
  <2>2. TypeOK
    BY DEF Plain
  <2>3. \A s \in Stores : count[s] <= Limit + N - 1 + carried[s]
    BY <2>1, <2>2, Numbers DEF FailoverInv, Filled
  <2>4. carried["primary"] + carried["fallback"] <= N * crossings
    BY <2>1, <2>2, Numbers DEF FailoverInv, Paid
  <2> QED  BY <2>2, <2>3, <2>4 DEF FailoverBound
<1> QED  BY <1>1, <1>2, <1>3, PTL DEF Spec
===============================================================================
