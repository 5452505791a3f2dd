----------------------------- MODULE EngineProofs -----------------------------
(***************************************************************************)
(* Proofs about the rule engine: type correctness, what the access lists   *)
(* decide, the bound on every counter, and that the counters implement     *)
(* RateBudget.                                                             *)
(***************************************************************************)
EXTENDS Engine, FiniteSetTheorems, WellFoundedInduction, TLAPS

\* matchRules consults one of the rules of the set, one that matches the
\* request, and none that matches stands before it.
LEMMA FirstMatchIsFirst ==
  ASSUME NEW S, NEW rs \in Seq(S), NEW q, AnyMatch(rs, q)
  PROVE  /\ FirstMatch(rs, q) \in Range(rs)
         /\ Matches(FirstMatch(rs, q), q)
         /\ \E i \in DOMAIN rs : FirstMatch(rs, q) = rs[i] /\ IsFirstMatch(rs, q, i)
<1> DEFINE M == {i \in DOMAIN rs : Matches(rs[i], q)}
<1>1. M # {} /\ M \subseteq Nat
  BY DEF AnyMatch
<1>2. PICK i \in M : \A j \in M : ~ (<<j, i>> \in OpToRel(<, Nat))
  <2> HIDE DEF M
  <2> QED  BY <1>1, WFMin, NatLessThanWellFounded
<1>3. \A j \in M : i <= j
  <2>1. ASSUME NEW j \in M, j < i  PROVE FALSE
    <3>1. <<j, i>> \in OpToRel(<, Nat)
      BY <1>1, <2>1 DEF OpToRel
    <3> QED  BY <1>2, <3>1
  <2>2. i \in Nat /\ \A j \in M : j \in Nat
    BY <1>1
  <2> HIDE DEF M
  <2> QED  BY <2>1, <2>2
<1>4. IsFirstMatch(rs, q, i)
  BY <1>3 DEF IsFirstMatch
<1> QED  BY <1>4 DEF FirstMatch, Range, IsFirstMatch

-------------------------------------------------------------------------------
(* Type correctness.                                                       *)

\* A thread that talks to the storage does so for a rule of some rule set, and
\* only a base rule has a second read or a second increment.
Working == {"browse", "browse2", "update", "update2"}
SecondStep == {"browse2", "update2"}
RuleSelected ==
  \A t \in Threads : /\ pc[t] \in Working => rule[t] \in AllRateRules
                     /\ pc[t] \in SecondStep => rule[t].alg = "base"
TypeInv == TypeOK /\ RuleSelected

LEMMA KeyType ==
  ASSUME NEW r \in AllRateRules, NEW q \in Requests
  PROVE  GenerateKey(r, q) \in Keys /\ GenerateKey(r, q)[1] = r.name
BY DEF Keys, GenerateKey

LEMMA RuleFacts ==
  ASSUME NEW r \in AllRateRules
  PROVE  /\ r.count \in Nat /\ r.base \in Int /\ Ceiling[r.name] \in Nat
         /\ r.count <= Ceiling[r.name]
         /\ r.alg \in {"count", "base"}
BY RulesAssumption

\* The rule matchRules selects belongs to the rule set it was taken from.
LEMMA SelectedRuleType ==
  ASSUME NEW rs \in RuleSets, NEW q, RateLimited(rs, q)
  PROVE  SelectedRule(rs, q) \in AllRateRules
<1>1. RateRules(rs) \in Seq(Range(RateRules(rs)))
  BY RulesAssumption
<1>2. FirstMatch(RateRules(rs), q) \in Range(RateRules(rs))
  BY <1>1, FirstMatchIsFirst DEF RateLimited
<1> QED  BY <1>2 DEF SelectedRule, AllRateRules

\* What the return of an engine method does to the threads.
LEMMA MethodReturnsEffect ==
  ASSUME TypeOK, NEW t \in Threads, NEW answer \in Replies, MethodReturns(t, answer)
  PROVE  /\ pc' \in [Threads -> PCs]
         /\ pc'[t] \in {"match", "done"}
         /\ \A u \in Threads \ {t} : pc'[u] = pc[u]
         /\ call' = call /\ req' = req
         /\ inner' \in [Threads -> {"browse", "check"}]
         /\ reply' \in [Threads -> Replies]
         /\ passed' \in [Threads -> Keys \cup {NoKey}]
         /\ granted' \in [Keys -> Nat]
<1>1. CASE BrowseReturns(t, answer)
  <2>1. rule[t].alg = "count" => Key(t) \in Keys
    <3>1. rule[t] \in AllRateRules \cup {NoRule} /\ req[t] \in Requests
      BY DEF TypeOK
    <3>2. NoRule.alg # "count"
      BY DEF NoRule
    <3> QED  BY <3>1, <3>2, KeyType DEF Key
  <2> QED  BY <1>1, <2>1 DEF BrowseReturns, MethodReturns, TypeOK, PCs
<1>2. CASE CheckReturns(t, answer)
  <2>1. granted' \in [Keys -> Nat]
    BY <1>2 DEF CheckReturns, Settle, TypeOK
  <2>2. reply' \in [Threads -> Replies]
    BY <1>2 DEF CheckReturns, TypeOK, Replies
  <2> QED  BY <1>2, <2>1, <2>2 DEF CheckReturns, Settle, MethodReturns, TypeOK, PCs
<1> QED  BY <1>1, <1>2 DEF MethodReturns

LEMMA NotHitEffect ==
  ASSUME TypeOK, NEW t \in Threads, NotHit(t)
  PROVE  /\ pc' \in [Threads -> PCs]
         /\ pc'[t] \in {"match", "done", "update"}
         /\ \A u \in Threads \ {t} : pc'[u] = pc[u]
         /\ call' = call /\ req' = req
         /\ inner' \in [Threads -> {"browse", "check"}]
         /\ reply' \in [Threads -> Replies]
         /\ passed' \in [Threads -> Keys \cup {NoKey}]
         /\ granted' \in [Keys -> Nat]
<1>1. CASE inner[t] = "check" /\ pc' = [pc EXCEPT ![t] = "update"]
           /\ UNCHANGED <<call, req, inner, reply, passed, granted>>
  BY <1>1 DEF TypeOK, PCs
<1>2. CASE MethodReturns(t, "allowed")
  <2>1. "allowed" \in Replies
    BY DEF Replies
  <2> QED  BY <1>2, <2>1, MethodReturnsEffect
<1> QED  BY <1>1, <1>2 DEF NotHit

LEMMA IncrType ==
  ASSUME TypeInv, NEW t \in Threads, pc[t] \in Working, NEW p \in Purposes
  PROVE  /\ Key(t) \in Keys
         /\ Key(t)[1] = rule[t].name
         /\ Counter(t, p) \in Nat
         /\ IncrWithTTL(t, p) \in [CounterIds -> Nat]
<1>1. Key(t) \in Keys /\ Key(t)[1] = rule[t].name
  BY KeyType DEF TypeInv, TypeOK, RuleSelected, Key
<1>2. <<Key(t), p>> \in CounterIds
  BY <1>1 DEF CounterIds
<1> QED  BY <1>1, <1>2 DEF Counter, IncrWithTTL, TypeInv, TypeOK

\* A step of a thread that moves only that thread's pc, and to a place where it
\* works only with a rule it already had, keeps RuleSelected.
LEMMA RuleSelectedKept ==
  ASSUME TypeInv, NEW t \in Threads, rule' = rule,
         \A u \in Threads \ {t} : pc'[u] = pc[u],
         pc'[t] \in Working => pc[t] \in Working,
         pc'[t] \in SecondStep => rule[t].alg = "base"
  PROVE  RuleSelected'
BY DEF TypeInv, RuleSelected

LEMMA TypeStep ==
  ASSUME TypeInv, [Next]_vars
  PROVE  TypeInv'
<1> USE DEF TypeInv
<1>1. ASSUME NEW t \in Threads, NEW c \in Calls, NEW q \in Requests, Arrive(t, c, q)
      PROVE  TypeInv'
  <2>1. TypeOK'
    BY <1>1 DEF Arrive, TypeOK, PCs, Replies
  <2>2. RuleSelected'
    BY <1>1 DEF Arrive, TypeOK, RuleSelected, Working, SecondStep
  <2> QED  BY <2>1, <2>2
<1>2. ASSUME NEW t \in Threads, Match(t)
      PROVE  TypeInv'
  <2>1. ASSUME NEW answer \in Replies, MethodReturns(t, answer), UNCHANGED rule
        PROVE  TypeInv'
    <3>1. TypeOK'
      BY <1>2, <2>1, MethodReturnsEffect DEF Match, TypeOK
    <3>2. RuleSelected'
      BY <2>1, MethodReturnsEffect, RuleSelectedKept DEF Working, SecondStep
    <3> QED  BY <3>1, <3>2
  <2>2. CASE RateLimited(rules, req[t]) /\ rule' = [rule EXCEPT ![t] = SelectedRule(rules, req[t])]
             /\ pc' = [pc EXCEPT ![t] = "browse"]
             /\ UNCHANGED <<call, req, inner, reply, passed, granted>>
    <3>1. SelectedRule(rules, req[t]) \in AllRateRules
      BY <2>2, SelectedRuleType DEF TypeOK
    <3>2. TypeOK'
      BY <1>2, <2>2, <3>1 DEF Match, TypeOK, PCs
    <3>3. RuleSelected'
      BY <2>2, <3>1 DEF RuleSelected, Working, SecondStep, TypeOK
    <3> QED  BY <3>2, <3>3
  <2> QED  BY <1>2, <2>1, <2>2 DEF Match, Replies
<1>3. ASSUME NEW t \in Threads, pc[t] \in Working, counters' \in [CounterIds -> Nat],
             faults' \in Nat, UNCHANGED <<rules, rule, lifetimes, elapses, reloads>>,
             \/ \E answer \in Replies : MethodReturns(t, answer)
             \/ NotHit(t)
             \/ \E p \in SecondStep : /\ rule[t].alg = "base"
                                     /\ pc' = [pc EXCEPT ![t] = p]
                                     /\ UNCHANGED <<call, req, inner, reply, passed, granted>>
      PROVE  TypeInv'
  <2>1. CASE \E answer \in Replies : MethodReturns(t, answer)
    <3>1. PICK answer \in Replies : MethodReturns(t, answer)
      BY <2>1
    <3> QED  BY <1>3, <3>1, MethodReturnsEffect, RuleSelectedKept DEF TypeOK, SecondStep
  <2>2. CASE NotHit(t)
    BY <1>3, <2>2, NotHitEffect, RuleSelectedKept DEF TypeOK, SecondStep
  <2>3. CASE \E p \in SecondStep : /\ rule[t].alg = "base"
                                  /\ pc' = [pc EXCEPT ![t] = p]
                                  /\ UNCHANGED <<call, req, inner, reply, passed, granted>>
    <3>1. TypeOK'
      BY <1>3, <2>3 DEF TypeOK, SecondStep, PCs
    <3>2. RuleSelected'
      BY <1>3, <2>3, RuleSelectedKept DEF TypeOK
    <3> QED  BY <3>1, <3>2
  <2> QED  BY <1>3, <2>1, <2>2, <2>3
<1>4. ASSUME NEW t \in Threads, BrowseCount(t)
      PROVE  TypeInv'
  BY <1>3, <1>4 DEF BrowseCount, Working, Replies, TypeOK
<1>5. ASSUME NEW t \in Threads, BrowseTotal(t)
      PROVE  TypeInv'
  BY <1>3, <1>5 DEF BrowseTotal, Working, SecondStep, Replies, TypeOK
<1>6. ASSUME NEW t \in Threads, BrowseSecondary(t)
      PROVE  TypeInv'
  BY <1>3, <1>6 DEF BrowseSecondary, Working, Replies, TypeOK
<1>7. ASSUME NEW t \in Threads, BrowseFails(t)
      PROVE  TypeInv'
  BY <1>3, <1>7 DEF BrowseFails, Working, Replies, TypeOK
<1>8. ASSUME NEW t \in Threads, UpdateCount(t)
      PROVE  TypeInv'
  BY <1>3, <1>8, IncrType DEF UpdateCount, Working, Replies, TypeOK, Purposes
<1>9. ASSUME NEW t \in Threads, UpdateTotal(t)
      PROVE  TypeInv'
  BY <1>3, <1>9, IncrType DEF UpdateTotal, Working, SecondStep, Replies, TypeOK, Purposes
<1>10. ASSUME NEW t \in Threads, UpdateSecondary(t)
       PROVE  TypeInv'
  BY <1>3, <1>10, IncrType DEF UpdateSecondary, Working, Replies, TypeOK, Purposes
<1>11. ASSUME NEW t \in Threads, UpdateFails(t)
       PROVE  TypeInv'
  <2>1. pc[t] \in Working /\ UpdatedCounter(t) \in Purposes
    BY <1>11 DEF UpdateFails, UpdatedCounter, Working, Purposes
  <2> QED  BY <1>3, <1>11, <2>1, IncrType DEF UpdateFails, Replies, TypeOK
<1>12. ASSUME NEW t \in Threads, Return(t)
       PROVE  TypeInv'
  <2>1. TypeOK'
    BY <1>12 DEF Return, TypeOK, PCs
  <2>2. RuleSelected'
    BY <1>12, RuleSelectedKept DEF Return, TypeOK, Working, SecondStep
  <2> QED  BY <2>1, <2>2
<1>13. ASSUME NEW k \in Keys, NEW p \in Purposes, WindowElapses(k, p)
       PROVE  TypeInv'
  <2>1. counters' \in [CounterIds -> Nat] /\ granted' \in [Keys -> Nat]
    BY <1>13 DEF WindowElapses, TypeOK
  <2>2. lifetimes' \in [Keys -> Nat]
    BY <1>13 DEF WindowElapses, TypeOK
  <2> QED  BY <1>13, <2>1, <2>2 DEF WindowElapses, TypeOK, threadVars, RuleSelected
<1>14. ASSUME NEW rs \in RuleSets, LoadRules(rs)
       PROVE  TypeInv'
  BY <1>14 DEF LoadRules, TypeOK, threadVars, RuleSelected
<1>15. CASE UNCHANGED vars
  BY <1>15 DEF vars, threadVars, TypeOK, RuleSelected
<1> QED
  BY <1>1, <1>2, <1>4, <1>5, <1>6, <1>7, <1>8, <1>9, <1>10, <1>11, <1>12, <1>13, <1>14, <1>15
  DEF Next, ThreadStep

LEMMA TypeInit ==
  ASSUME Init
  PROVE  TypeInv
<1>1. TypeOK
  BY DEF Init, TypeOK, Calls, PCs, Replies
<1>2. RuleSelected
  BY DEF Init, RuleSelected, Working, SecondStep
<1> QED  BY <1>1, <1>2 DEF TypeInv

\* A thread that talks to the storage does so for a rule of some rule set,
\* whatever is reloaded meanwhile.
LEMMA TypeInvariant == Spec => []TypeInv
<1>1. Init => TypeInv
  BY TypeInit
<1>2. TypeInv /\ [Next]_vars => TypeInv'
  BY TypeStep
<1> QED  BY <1>1, <1>2, PTL DEF Spec

\* Every variable of the engine keeps its type.
THEOREM TypeCorrect == Spec => []TypeOK
BY TypeInvariant, PTL DEF TypeInv

-------------------------------------------------------------------------------
(* The access lists.                                                       *)

AllowedByAll(q) == \A rs \in RuleSets : Whitelisted(rs, q)
RefusedByAll(q) == \A rs \in RuleSets : Blacklisted(rs, q)

\* A call reads the rules once or twice, with reloads between.  A request that every
\* version of the rules has on its whitelist is answered "allowed" whatever fails,
\* one that every version has on its blacklist and not on its whitelist "denied",
\* and neither ever reaches a counter.  Update drops the answer of the engine, so its
\* own does not tell of the refusal.
AccessDecides ==
  \A t \in Threads :
    /\ AllowedByAll(req[t]) \/ RefusedByAll(req[t]) => pc[t] \notin Working
    /\ pc[t] = "done" =>
         /\ AllowedByAll(req[t]) => reply[t] = "allowed"
         /\ RefusedByAll(req[t]) /\ call[t] # "Update" => reply[t] = "denied"

\* Between the two looks of Browse with update the answer stands already, and a
\* refusal has no second look.
AccessAt(t) ==
  /\ AllowedByAll(req[t]) \/ RefusedByAll(req[t]) => pc[t] \notin Working
  /\ AllowedByAll(req[t]) =>
       /\ pc[t] = "done" => reply[t] = "allowed"
       /\ pc[t] = "match" /\ inner[t] = "check" /\ call[t] # "Update" => reply[t] = "allowed"
  /\ RefusedByAll(req[t]) /\ call[t] # "Update" =>
       /\ inner[t] = "browse"
       /\ pc[t] = "done" => reply[t] = "denied"
AccessInv == TypeInv /\ \A t \in Threads : AccessAt(t)

\* A step of one thread leaves what the others are at.
Elsewhere(t) ==
  \A u \in Threads \ {t} :
    pc'[u] = pc[u] /\ call'[u] = call[u] /\ req'[u] = req[u] /\ inner'[u] = inner[u] /\ reply'[u] = reply[u]

LEMMA MethodReturnsElsewhere ==
  ASSUME TypeOK, NEW t \in Threads, NEW answer \in Replies, MethodReturns(t, answer)
  PROVE  Elsewhere(t)
BY DEF MethodReturns, BrowseReturns, CheckReturns, TypeOK, Elsewhere

LEMMA NotHitElsewhere ==
  ASSUME TypeOK, NEW t \in Threads, NotHit(t)
  PROVE  Elsewhere(t) /\ req' = req
<1>1. CASE MethodReturns(t, "allowed")
  BY <1>1, MethodReturnsElsewhere DEF MethodReturns, Replies
<1>2. CASE /\ pc' = [pc EXCEPT ![t] = "update"]
           /\ UNCHANGED <<call, req, inner, reply, passed, granted>>
  BY <1>2 DEF TypeOK, Elsewhere
<1> QED BY <1>1, <1>2 DEF NotHit

\* A request the access lists decide is not at work, so the steps that work move
\* other threads.
LEMMA WorkIsElsewhere ==
  ASSUME AccessInv, NEW t \in Threads, pc[t] \in Working, Elsewhere(t), req'[t] = req[t]
  PROVE  \A u \in Threads : AccessAt(u)'
<1>1. AccessAt(t)'
  BY DEF AccessInv, AccessAt, AllowedByAll, RefusedByAll
<1>2. \A u \in Threads \ {t} : AccessAt(u)'
  BY DEF AccessInv, AccessAt, Elsewhere, AllowedByAll, RefusedByAll
<1> QED BY <1>1, <1>2

LEMMA AccessMatch ==
  ASSUME AccessInv, NEW t \in Threads, Match(t)
  PROVE  AccessAt(t)' /\ Elsewhere(t)
<1> USE DEF AccessInv, TypeInv
<1>1. pc[t] = "match" /\ rules \in RuleSets /\ req[t] \in Requests
  BY DEF Match, TypeOK
<1>2. /\ AllowedByAll(req[t]) => Whitelisted(rules, req[t])
      /\ RefusedByAll(req[t]) => Blacklisted(rules, req[t])
  BY <1>1 DEF AllowedByAll, RefusedByAll
<1>3. /\ ~(Whitelisted(rules, req[t]) /\ Blacklisted(rules, req[t]))
      /\ RateLimited(rules, req[t]) => ~Whitelisted(rules, req[t]) /\ ~Blacklisted(rules, req[t])
  BY DEF Blacklisted, RateLimited
<1> DEFINE Given(answer) == /\ answer \in {"allowed", "denied"}
                            /\ MethodReturns(t, answer)
                            /\ AllowedByAll(req[t]) => answer = "allowed"
                            /\ RefusedByAll(req[t]) => answer = "denied"
<1>4. ASSUME NEW answer, Given(answer)
      PROVE  AccessAt(t)' /\ Elsewhere(t)
  <2>1. answer \in Replies /\ call' = call /\ req' = req
    BY <1>4 DEF Replies, MethodReturns
  <2>2. CASE BrowseReturns(t, answer)
    <3>1. /\ inner[t] = "browse" /\ reply'[t] = answer
          /\ \/ call[t] = "BrowseUpdate" /\ answer = "allowed" /\ inner'[t] = "check" /\ pc'[t] = "match"
             \/ inner'[t] = "browse" /\ pc'[t] = "done"
      BY <2>2 DEF BrowseReturns, TypeOK
    <3> QED BY <1>4, <2>1, <3>1, MethodReturnsElsewhere DEF AccessAt, AllowedByAll, RefusedByAll, Working
  <2>3. CASE CheckReturns(t, answer)
    <3>1. /\ inner[t] = "check" /\ pc'[t] = "done" /\ inner'[t] = "check"
          /\ call[t] = "Update" => reply'[t] = "allowed"
          /\ call[t] # "Update" => reply'[t] = reply[t]
      BY <1>4, <2>3 DEF CheckReturns, TypeOK
    <3>2. AccessAt(t) BY DEF AccessInv
    <3> QED BY <1>1, <1>4, <2>1, <3>1, <3>2, MethodReturnsElsewhere
            DEF AccessAt, AllowedByAll, RefusedByAll, Working
  <2> QED BY <1>4, <2>2, <2>3 DEF MethodReturns
<1>5. CASE Whitelisted(rules, req[t]) /\ MethodReturns(t, "allowed")
  BY <1>2, <1>3, <1>4, <1>5
<1>6. CASE Blacklisted(rules, req[t]) /\ MethodReturns(t, "denied")
  BY <1>2, <1>3, <1>4, <1>6
<1>7. CASE ~Whitelisted(rules, req[t]) /\ ~Blacklisted(rules, req[t]) /\ MethodReturns(t, "allowed")
  BY <1>2, <1>4, <1>7
<1>8. CASE /\ RateLimited(rules, req[t])
           /\ pc' = [pc EXCEPT ![t] = "browse"]
           /\ UNCHANGED <<call, req, inner, reply, passed, granted>>
  <2>1. ~AllowedByAll(req[t]) /\ ~RefusedByAll(req[t]) BY <1>2, <1>3, <1>8
  <2> QED BY <1>8, <2>1 DEF AccessAt, AllowedByAll, RefusedByAll, Elsewhere, TypeOK
<1> QED BY <1>5, <1>6, <1>7, <1>8 DEF Match

LEMMA AccessStep == AccessInv /\ [Next]_vars => AccessInv'
<1> SUFFICES ASSUME AccessInv, [Next]_vars PROVE \A u \in Threads : AccessAt(u)'
  BY TypeStep DEF AccessInv
<1>0. TypeOK BY DEF AccessInv, TypeInv
<1>1. ASSUME NEW t \in Threads, AccessAt(t)', Elsewhere(t)
      PROVE  \A u \in Threads : AccessAt(u)'
  BY <1>1 DEF AccessInv, AccessAt, Elsewhere, AllowedByAll, RefusedByAll
<1>2. ASSUME NEW t \in Threads, NEW c \in Calls, NEW q \in Requests, Arrive(t, c, q)
      PROVE  \A u \in Threads : AccessAt(u)'
  <2>1. /\ pc'[t] = "match" /\ call'[t] = c
        /\ inner'[t] = IF c = "Update" THEN "check" ELSE "browse"
    BY <1>0, <1>2 DEF Arrive, TypeOK
  <2>2. AccessAt(t)' BY <2>1 DEF AccessAt, Working
  <2>3. Elsewhere(t) BY <1>0, <1>2 DEF Arrive, TypeOK, Elsewhere
  <2> QED BY <1>1, <2>2, <2>3
<1>3. ASSUME NEW t \in Threads, Match(t)
      PROVE  \A u \in Threads : AccessAt(u)'
  BY <1>1, <1>3, AccessMatch
<1>4. ASSUME NEW t \in Threads, pc[t] \in Working,
             \/ \E answer \in Replies : MethodReturns(t, answer)
             \/ NotHit(t)
             \/ \E p \in SecondStep : /\ pc' = [pc EXCEPT ![t] = p]
                                     /\ UNCHANGED <<call, req, inner, reply, passed, granted>>
      PROVE  \A u \in Threads : AccessAt(u)'
  <2>1. CASE \E answer \in Replies : MethodReturns(t, answer)
    BY <1>0, <1>4, <2>1, MethodReturnsElsewhere, WorkIsElsewhere DEF MethodReturns
  <2>2. CASE NotHit(t)
    BY <1>0, <1>4, <2>2, NotHitElsewhere, WorkIsElsewhere
  <2>3. CASE \E p \in SecondStep : /\ pc' = [pc EXCEPT ![t] = p]
                                  /\ UNCHANGED <<call, req, inner, reply, passed, granted>>
    <3>1. Elsewhere(t) /\ req' = req BY <1>0, <2>3 DEF Elsewhere, TypeOK
    <3> QED BY <1>4, <3>1, WorkIsElsewhere
  <2> QED BY <1>4, <2>1, <2>2, <2>3
<1>5. ASSUME NEW t \in Threads,
             \/ BrowseCount(t) \/ BrowseTotal(t) \/ BrowseSecondary(t) \/ BrowseFails(t)
      PROVE  \A u \in Threads : AccessAt(u)'
  <2>1. pc[t] \in Working
    BY <1>5 DEF BrowseCount, BrowseTotal, BrowseSecondary, BrowseFails, Working
  <2>2. {"allowed", "denied", "error"} \subseteq Replies /\ "browse2" \in SecondStep
    BY DEF Replies, SecondStep
  <2> QED BY <1>4, <1>5, <2>1, <2>2 DEF BrowseCount, BrowseTotal, BrowseSecondary, BrowseFails
<1>6. ASSUME NEW t \in Threads,
             \/ UpdateCount(t) \/ UpdateTotal(t) \/ UpdateSecondary(t) \/ UpdateFails(t)
      PROVE  \A u \in Threads : AccessAt(u)'
  <2>1. pc[t] \in Working
    BY <1>6 DEF UpdateCount, UpdateTotal, UpdateSecondary, UpdateFails, Working
  <2>2. "allowed" \in Replies /\ "update2" \in SecondStep
    BY DEF Replies, SecondStep
  <2> QED BY <1>4, <1>6, <2>1, <2>2 DEF UpdateCount, UpdateTotal, UpdateSecondary, UpdateFails
<1>7. ASSUME NEW t \in Threads, Return(t)
      PROVE  \A u \in Threads : AccessAt(u)'
  <2>1. Elsewhere(t) /\ pc'[t] = "idle" /\ UNCHANGED <<req, call, inner>>
    BY <1>0, <1>7 DEF Return, Elsewhere, TypeOK
  <2>2. AccessAt(t) BY DEF AccessInv
  <2>3. AccessAt(t)' BY <2>1, <2>2 DEF AccessAt, AllowedByAll, RefusedByAll, Working
  <2> QED BY <1>1, <2>1, <2>3
<1>8. ASSUME UNCHANGED <<pc, call, req, inner, reply>>
      PROVE  \A u \in Threads : AccessAt(u)'
  BY <1>8 DEF AccessInv, AccessAt, AllowedByAll, RefusedByAll
<1>9. ASSUME NEW k \in Keys, NEW p \in Purposes, WindowElapses(k, p)
      PROVE  \A u \in Threads : AccessAt(u)'
  BY <1>8, <1>9 DEF WindowElapses, threadVars
<1>10. ASSUME NEW rs \in RuleSets, LoadRules(rs)
       PROVE  \A u \in Threads : AccessAt(u)'
  BY <1>8, <1>10 DEF LoadRules, threadVars
<1>11. CASE UNCHANGED vars
  BY <1>8, <1>11 DEF vars, threadVars
<1> QED BY <1>2, <1>3, <1>5, <1>6, <1>7, <1>9, <1>10, <1>11 DEF Next, ThreadStep

\* What every version of the access lists says of a request is what the client gets,
\* for any threads, rule sets, reloads, failures and expiries (engine.go:183-206,
\* and Browse with update of main.go:164-182).
THEOREM AccessListsDecide == Spec => []AccessDecides
<1>1. Init => AccessInv
  <2> SUFFICES ASSUME Init PROVE \A t \in Threads : AccessAt(t)
    BY TypeInit DEF AccessInv
  <2>1. \A t \in Threads : pc[t] = "idle" /\ inner[t] = "browse"
    BY DEF Init
  <2> QED BY <2>1 DEF AccessAt, Working
<1>2. AccessInv => AccessDecides
  BY DEF AccessInv, AccessAt, AccessDecides
<1> QED BY <1>1, <1>2, AccessStep, PTL DEF Spec

-------------------------------------------------------------------------------
(* The bound on the counters.                                              *)

\* The threads that found key k under its limit and have yet to count.
Pending(k) == {t \in Threads : pc[t] = "update" /\ rule[t].alg = "count" /\ Key(t) = k}

\* CounterBound is not inductive: what a counter may still grow to depends on the
\* threads already past the check.  A thread enters Pending(k) only while the
\* counter is below the limit, and leaves it by at most one increment.
Reserved ==
  \A k \in Keys :
    counters[<<k, "count">>] + Cardinality(Pending(k)) <= Ceiling[k[1]] + N - 1

IInv == TypeInv /\ Reserved

LEMMA NType == N \in Nat /\ N > 0
BY ThreadsAssumption, FS_CardinalityType, FS_EmptySet DEF N

LEMMA PendingType ==
  ASSUME NEW k
  PROVE  /\ IsFiniteSet(Pending(k))
         /\ Cardinality(Pending(k)) \in Nat
         /\ Cardinality(Pending(k)) <= N
<1>1. Pending(k) \subseteq Threads
  BY DEF Pending
<1> QED  BY <1>1, ThreadsAssumption, FS_Subset, FS_CardinalityType DEF N

LEMMA CeilingType ==
  ASSUME NEW k \in Keys
  PROVE  Ceiling[k[1]] \in Nat
<1>1. PICK r \in AllRateRules, q \in Requests : k = GenerateKey(r, q)
  BY DEF Keys
<1> QED  BY <1>1, RuleFacts DEF GenerateKey

\* No thread joins Pending(k) and the counter does not grow: the sum cannot grow.
LEMMA ReservedShrinks ==
  ASSUME IInv, TypeInv', NEW k \in Keys,
         counters'[<<k, "count">>] <= counters[<<k, "count">>],
         Pending(k)' \subseteq Pending(k)
  PROVE  counters'[<<k, "count">>] + Cardinality(Pending(k)') <= Ceiling[k[1]] + N - 1
<1>1. <<k, "count">> \in CounterIds
  BY DEF CounterIds, Purposes
<1>2. counters[<<k, "count">>] \in Nat /\ counters'[<<k, "count">>] \in Nat
  BY <1>1 DEF IInv, TypeInv, TypeOK
<1>3. /\ Cardinality(Pending(k)') \in Nat
      /\ Cardinality(Pending(k)') <= Cardinality(Pending(k))
  BY PendingType, FS_Subset, FS_CardinalityType
<1>4. counters[<<k, "count">>] + Cardinality(Pending(k)) <= Ceiling[k[1]] + N - 1
  BY DEF IInv, Reserved
<1> QED  BY <1>2, <1>3, <1>4, PendingType, NType, CeilingType

\* A thread that stays out of "update" leaves every Pending set alone, but for
\* itself.
LEMMA PendingKept ==
  ASSUME TypeOK, NEW t \in Threads, NEW k,
         \A u \in Threads \ {t} : pc'[u] = pc[u] /\ rule'[u] = rule[u] /\ req'[u] = req[u],
         pc'[t] # "update"
  PROVE  Pending(k)' = Pending(k) \ {t}
BY DEF Pending, Key

\* A step of thread t that increments no "count" counter and does not take t
\* into the update of a counting rule.
LEMMA ReservedQuiet ==
  ASSUME IInv, TypeInv', NEW t \in Threads,
         \A k \in Keys : counters'[<<k, "count">>] <= counters[<<k, "count">>],
         \A u \in Threads \ {t} : pc'[u] = pc[u] /\ rule'[u] = rule[u] /\ req'[u] = req[u],
         pc'[t] = "update" => rule'[t].alg # "count"
  PROVE  Reserved'
<1>1. ASSUME NEW k \in Keys  PROVE Pending(k)' \subseteq Pending(k)
  BY DEF Pending, Key
<1> QED  BY <1>1, ReservedShrinks DEF Reserved

\* The increment of a counting rule uses up the place its thread held.
LEMMA ReservedIncr ==
  ASSUME IInv, NEW t \in Threads, pc[t] = "update", rule[t].alg = "count",
         counters' = IncrWithTTL(t, "count"), UNCHANGED <<rule, req>>,
         \A u \in Threads \ {t} : pc'[u] = pc[u], pc'[t] # "update"
  PROVE  Reserved'
<1>1. /\ Key(t) \in Keys
      /\ \A k \in Keys : counters[<<k, "count">>] \in Nat
  BY IncrType DEF IInv, TypeInv, TypeOK, CounterIds, Purposes, Working
<1>2. ASSUME NEW k \in Keys
      PROVE  counters'[<<k, "count">>] + Cardinality(Pending(k)') <= Ceiling[k[1]] + N - 1
  <2>1. Pending(k)' = Pending(k) \ {t}
    BY <1>2, PendingKept DEF IInv, TypeInv
  <2>2. counters[<<k, "count">>] + Cardinality(Pending(k)) <= Ceiling[k[1]] + N - 1
    BY DEF IInv, Reserved
  <2>3. CASE k = Key(t)
    <3>1. counters'[<<k, "count">>] = counters[<<k, "count">>] + 1
      BY <2>3, <1>1 DEF IncrWithTTL, IInv, TypeInv, TypeOK, CounterIds, Purposes
    <3>2. t \in Pending(k)
      BY <2>3 DEF Pending
    <3>3. Cardinality(Pending(k)') = Cardinality(Pending(k)) - 1
      BY <2>1, <3>2, PendingType, FS_RemoveElement
    <3> QED  BY <1>1, <2>2, <3>1, <3>3, PendingType, CeilingType, NType
  <2>4. CASE k # Key(t)
    <3>1. counters'[<<k, "count">>] = counters[<<k, "count">>]
      BY <2>4, <1>1 DEF IncrWithTTL, IInv, TypeInv, TypeOK, CounterIds, Purposes
    <3>2. t \notin Pending(k)
      BY <2>4 DEF Pending
    <3> QED  BY <2>1, <2>2, <3>1, <3>2
  <2> QED  BY <2>3, <2>4
<1> QED  BY <1>2 DEF Reserved

\* A check below the limit: the counter, the other threads already past their
\* check and this one together stay within the bound.
LEMMA ReservedCheck ==
  ASSUME IInv, TypeInv', NEW t \in Threads, pc[t] = "browse", rule[t].alg = "count",
         Counter(t, "count") < rule[t].count,
         UNCHANGED <<counters, rule, req>>,
         \A u \in Threads \ {t} : pc'[u] = pc[u]
  PROVE  Reserved'
<1>1. rule[t] \in AllRateRules
  BY DEF IInv, TypeInv, RuleSelected, Working
<1>2. ASSUME NEW k \in Keys
      PROVE  counters'[<<k, "count">>] + Cardinality(Pending(k)') <= Ceiling[k[1]] + N - 1
  <2>1. counters[<<k, "count">>] \in Nat
    BY DEF IInv, TypeInv, TypeOK, CounterIds, Purposes
  <2>2. CASE k = Key(t)
    <3>1. counters[<<k, "count">>] <= Ceiling[k[1]] - 1
      <4>1. /\ rule[t].count \in Nat /\ rule[t].count <= Ceiling[rule[t].name]
            /\ Ceiling[rule[t].name] \in Nat
        BY <1>1, RuleFacts
      <4>2. k[1] = rule[t].name
        BY <2>2 DEF Key, GenerateKey
      <4> QED  BY <2>1, <2>2, <4>1, <4>2 DEF Counter
    <3>2. Cardinality(Pending(k)') \in Nat /\ Cardinality(Pending(k)') <= N
      <4>1. Pending(k)' \subseteq Threads
        BY DEF Pending
      <4> QED  BY <4>1, ThreadsAssumption, FS_Subset, FS_CardinalityType DEF N
    <3> QED  BY <2>1, <3>1, <3>2, NType, CeilingType
  <2>3. CASE k # Key(t)
    <3>1. Pending(k)' \subseteq Pending(k)
      BY <2>3 DEF Pending, Key
    <3> QED  BY <2>1, <3>1, ReservedShrinks
  <2> QED  BY <2>2, <2>3
<1> QED  BY <1>2 DEF Reserved

\* The returns of an engine method and the steps of a base rule are quiet.
LEMMA ReservedReturn ==
  ASSUME IInv, TypeInv', NEW t \in Threads, NEW answer \in Replies,
         MethodReturns(t, answer),
         \A k \in Keys : counters'[<<k, "count">>] <= counters[<<k, "count">>],
         \A u \in Threads \ {t} : rule'[u] = rule[u]
  PROVE  Reserved'
BY ReservedQuiet, MethodReturnsEffect DEF IInv, TypeInv

LEMMA CountersAreNat ==
  ASSUME TypeInv, NEW k \in Keys
  PROVE  counters[<<k, "count">>] \in Nat
BY DEF TypeInv, TypeOK, CounterIds, Purposes

LEMMA SameNotGrown ==
  ASSUME IInv, \A k \in Keys : counters'[<<k, "count">>] = counters[<<k, "count">>]
  PROVE  \A k \in Keys : counters'[<<k, "count">>] <= counters[<<k, "count">>]
<1>1. ASSUME NEW k \in Keys
      PROVE  counters'[<<k, "count">>] <= counters[<<k, "count">>]
  <2>1. counters[<<k, "count">>] \in Nat
    BY CountersAreNat DEF IInv
  <2> QED  BY <2>1
<1> QED  BY <1>1

\* An increment of a base rule's counter is none of a "count" counter.
LEMMA BaseIncrQuiet ==
  ASSUME TypeInv, NEW t \in Threads, pc[t] \in Working, NEW p \in Purposes \ {"count"},
         counters' = IncrWithTTL(t, p)
  PROVE  \A k \in Keys : counters'[<<k, "count">>] = counters[<<k, "count">>]
BY DEF IncrWithTTL, TypeInv, TypeOK, CounterIds, Purposes

LEMMA ReservedStep ==
  ASSUME IInv, TypeInv', [Next]_vars
  PROVE  Reserved'
<1> DEFINE Replied(t) == \E answer \in Replies : MethodReturns(t, answer)
<1>1. ASSUME UNCHANGED counters
      PROVE  \A k \in Keys : counters'[<<k, "count">>] <= counters[<<k, "count">>]
  BY <1>1, SameNotGrown
<1>2. ASSUME NEW t \in Threads, NEW c \in Calls, NEW q \in Requests, Arrive(t, c, q)
      PROVE  Reserved'
  <2>1. \A u \in Threads \ {t} : pc'[u] = pc[u] /\ rule'[u] = rule[u] /\ req'[u] = req[u]
    BY <1>2 DEF Arrive, IInv, TypeInv, TypeOK
  <2>2. pc'[t] # "update" /\ UNCHANGED counters
    BY <1>2 DEF Arrive, IInv, TypeInv, TypeOK
  <2> QED  BY <1>1, <2>1, <2>2, ReservedQuiet
<1>3. ASSUME NEW t \in Threads, Match(t)
      PROVE  Reserved'
  <2>1. UNCHANGED counters /\ \A u \in Threads \ {t} : rule'[u] = rule[u]
    BY <1>3 DEF Match, IInv, TypeInv, TypeOK
  <2>2. CASE Replied(t)
    BY <1>1, <2>1, <2>2, ReservedReturn
  <2>3. CASE pc' = [pc EXCEPT ![t] = "browse"] /\ UNCHANGED req
    BY <1>1, <2>1, <2>3, ReservedQuiet DEF IInv, TypeInv, TypeOK
  <2> QED  BY <1>3, <2>2, <2>3 DEF Match, Replies
<1>4. ASSUME NEW t \in Threads, BrowseCount(t)
      PROVE  Reserved'
  <2>1. UNCHANGED <<counters, rule>>
    BY <1>4 DEF BrowseCount
  <2>2. CASE MethodReturns(t, "denied")
    BY <1>1, <2>1, <2>2, ReservedReturn DEF Replies
  <2>3. CASE Counter(t, "count") < rule[t].count /\ NotHit(t)
    BY <1>4, <2>1, <2>3, NotHitEffect, ReservedCheck DEF BrowseCount, IInv, TypeInv
  <2>4. Counter(t, "count") \in Nat /\ rule[t].count \in Nat
    BY <1>4, IncrType, RuleFacts DEF BrowseCount, IInv, TypeInv, RuleSelected, Working, Purposes
  <2> QED  BY <1>4, <2>2, <2>3, <2>4 DEF BrowseCount
<1>5. ASSUME NEW t \in Threads, BrowseTotal(t) \/ BrowseSecondary(t)
      PROVE  Reserved'
  <2>1. UNCHANGED <<counters, rule>> /\ rule[t].alg = "base"
    BY <1>5 DEF BrowseTotal, BrowseSecondary, IInv, TypeInv, RuleSelected, SecondStep
  <2>2. CASE MethodReturns(t, "denied")
    BY <1>1, <2>1, <2>2, ReservedReturn DEF Replies
  <2>3. CASE NotHit(t)
    BY <1>1, <2>1, <2>3, NotHitEffect, ReservedQuiet DEF IInv, TypeInv
  <2>4. CASE pc' = [pc EXCEPT ![t] = "browse2"] /\ UNCHANGED req
    BY <1>1, <2>1, <2>4, ReservedQuiet DEF IInv, TypeInv, TypeOK
  <2> QED  BY <1>5, <2>2, <2>3, <2>4 DEF BrowseTotal, BrowseSecondary
<1>6. ASSUME NEW t \in Threads, BrowseFails(t)
      PROVE  Reserved'
  BY <1>1, <1>6, ReservedReturn DEF BrowseFails, Replies
<1>7. ASSUME NEW t \in Threads, UpdateCount(t)
      PROVE  Reserved'
  <2>1. /\ MethodReturns(t, "allowed") /\ UNCHANGED rule
        /\ counters' = IncrWithTTL(t, "count")
        /\ pc[t] = "update" /\ rule[t].alg = "count"
    BY <1>7 DEF UpdateCount
  <2>2. "allowed" \in Replies /\ TypeOK
    BY DEF Replies, IInv, TypeInv
  <2>3. /\ UNCHANGED req /\ pc'[t] \in {"match", "done"}
        /\ \A u \in Threads \ {t} : pc'[u] = pc[u]
    BY <2>1, <2>2, MethodReturnsEffect
  <2> QED  BY <2>1, <2>3, ReservedIncr
<1>8. ASSUME NEW t \in Threads, UpdateTotal(t) \/ UpdateSecondary(t)
      PROVE  Reserved'
  <2>1. \A k \in Keys : counters'[<<k, "count">>] = counters[<<k, "count">>]
    BY <1>8, BaseIncrQuiet DEF UpdateTotal, UpdateSecondary, IInv, Working, Purposes
  <2>2. \A k \in Keys : counters'[<<k, "count">>] <= counters[<<k, "count">>]
    BY <2>1, SameNotGrown
  <2>3. UNCHANGED rule
    BY <1>8 DEF UpdateTotal, UpdateSecondary
  <2>4. CASE MethodReturns(t, "allowed")
    BY <2>2, <2>3, <2>4, ReservedReturn DEF Replies
  <2>5. CASE pc' = [pc EXCEPT ![t] = "update2"] /\ UNCHANGED req
    BY <2>2, <2>3, <2>5, ReservedQuiet DEF IInv, TypeInv, TypeOK
  <2> QED  BY <1>8, <2>4, <2>5 DEF UpdateTotal, UpdateSecondary
<1>9. ASSUME NEW t \in Threads, UpdateFails(t)
      PROVE  Reserved'
  <2>1. MethodReturns(t, "allowed") /\ UNCHANGED rule
    BY <1>9 DEF UpdateFails
  <2>2. CASE counters' = counters
    BY <1>1, <2>1, <2>2, ReservedReturn DEF Replies
  <2>3. CASE counters' = IncrWithTTL(t, "count") /\ UpdatedCounter(t) = "count"
    <3>1. pc[t] = "update" /\ rule[t].alg = "count"
      <4>1. pc[t] \in {"update", "update2"}
        BY <1>9 DEF UpdateFails
      <4> QED  BY <2>3, <4>1 DEF UpdatedCounter
    <3>2. "allowed" \in Replies /\ TypeOK
      BY DEF Replies, IInv, TypeInv
    <3>3. /\ UNCHANGED req /\ pc'[t] \in {"match", "done"}
          /\ \A u \in Threads \ {t} : pc'[u] = pc[u]
      BY <2>1, <3>2, MethodReturnsEffect
    <3> QED  BY <2>1, <2>3, <3>1, <3>3, ReservedIncr
  <2>4. CASE counters' = IncrWithTTL(t, UpdatedCounter(t)) /\ UpdatedCounter(t) # "count"
    <3>1. UpdatedCounter(t) \in Purposes \ {"count"} /\ pc[t] \in Working
      BY <1>9, <2>4 DEF UpdateFails, UpdatedCounter, Purposes, Working
    <3>2. \A k \in Keys : counters'[<<k, "count">>] = counters[<<k, "count">>]
      BY <2>4, <3>1, BaseIncrQuiet DEF IInv
    <3>3. \A k \in Keys : counters'[<<k, "count">>] <= counters[<<k, "count">>]
      BY <3>2, SameNotGrown
    <3> QED  BY <2>1, <3>3, ReservedReturn DEF Replies
  <2> QED  BY <1>9, <2>2, <2>3, <2>4 DEF UpdateFails
<1>10. ASSUME NEW t \in Threads, Return(t)
       PROVE  Reserved'
  BY <1>1, <1>10, ReservedQuiet DEF Return, IInv, TypeInv, TypeOK
<1>11. ASSUME NEW j \in Keys, NEW p \in Purposes, WindowElapses(j, p)
       PROVE  Reserved'
  <2>1. ASSUME NEW k \in Keys
        PROVE  counters'[<<k, "count">>] <= counters[<<k, "count">>]
    <3>1. counters' = [counters EXCEPT ![<<j, p>>] = 0] /\ counters[<<k, "count">>] \in Nat
      BY <1>11, CountersAreNat DEF WindowElapses, IInv
    <3>2. <<k, "count">> \in DOMAIN counters
      BY DEF IInv, TypeInv, TypeOK, CounterIds, Purposes
    <3> QED  BY <3>1, <3>2
  <2>2. ASSUME NEW k \in Keys PROVE Pending(k)' \subseteq Pending(k)
    BY <1>11 DEF WindowElapses, threadVars, Pending, Key
  <2> QED  BY <2>1, <2>2, ReservedShrinks DEF Reserved
<1>12. ASSUME NEW rs \in RuleSets, LoadRules(rs)
       PROVE  Reserved'
  <2>1. ASSUME NEW k \in Keys PROVE Pending(k)' \subseteq Pending(k)
    BY <1>12 DEF LoadRules, threadVars, Pending, Key
  <2> QED  BY <1>1, <1>12, <2>1, ReservedShrinks DEF Reserved, LoadRules
<1>13. CASE UNCHANGED vars
  BY <1>13 DEF vars, threadVars, IInv, Reserved, Pending, Key
<1> QED
  BY <1>2, <1>3, <1>4, <1>5, <1>6, <1>7, <1>8, <1>9, <1>10, <1>11, <1>12, <1>13
  DEF Next, ThreadStep

LEMMA ReservedInit ==
  ASSUME Init
  PROVE  Reserved
<1>1. ASSUME NEW k \in Keys
      PROVE  counters[<<k, "count">>] + Cardinality(Pending(k)) <= Ceiling[k[1]] + N - 1
  <2>1. Pending(k) = {}
    BY DEF Init, Pending
  <2>2. counters[<<k, "count">>] = 0
    BY DEF Init, CounterIds, Purposes
  <2> QED  BY <2>1, <2>2, FS_EmptySet, NType, CeilingType
<1> QED  BY <1>1 DEF Reserved

LEMMA Inductive == Spec => []IInv
<1>1. Init => IInv
  BY TypeInit, ReservedInit DEF IInv
<1>2. IInv /\ [Next]_vars => IInv'
  BY TypeStep, ReservedStep DEF IInv
<1> QED  BY <1>1, <1>2, PTL DEF Spec

\* However many threads check and then update one counter, however rules are
\* reloaded and whichever storage operations fail, no counter passes the largest
\* limit of its rule by more than the number of the other threads.
THEOREM CounterNeverFarOverLimit == Spec => []CounterBound
<1>1. IInv => CounterBound
  <2>1. ASSUME IInv, NEW k \in Keys
        PROVE  counters[<<k, "count">>] <= Ceiling[k[1]] + N - 1
    <3>1. counters[<<k, "count">>] + Cardinality(Pending(k)) <= Ceiling[k[1]] + N - 1
      BY <2>1 DEF IInv, Reserved
    <3> QED  BY <2>1, <3>1, CountersAreNat, PendingType, CeilingType, NType DEF IInv
  <2> QED  BY <2>1 DEF CounterBound
<1> QED  BY <1>1, Inductive, PTL

-------------------------------------------------------------------------------
(* The counters implement RateBudget.                                      *)

Used == [k \in Keys |-> counters[<<k, "count">>]]

\* The increment of a counting rule draws a unit that was still there: its own
\* place in Pending was reserved when its thread passed the check.
LEMMA IncrDraws ==
  ASSUME IInv, NEW t \in Threads, pc[t] = "update", rule[t].alg = "count",
         counters' = IncrWithTTL(t, "count")
  PROVE  Budget!Next
<1>1. PICK k \in Keys : k = Key(t)
  BY IncrType DEF IInv, Working, Purposes
<1>2. counters[<<k, "count">>] < Ceiling[k[1]] + N - 1
  <2>1. t \in Pending(k)
    BY <1>1 DEF Pending
  <2>2. Cardinality(Pending(k)) >= 1
    <3>1. Cardinality(Pending(k)) # 0
      BY <2>1, PendingType, FS_EmptySet
    <3> QED  BY <3>1, PendingType
  <2>3. counters[<<k, "count">>] + Cardinality(Pending(k)) <= Ceiling[k[1]] + N - 1
    BY <1>1 DEF IInv, Reserved
  <2>4. counters[<<k, "count">>] \in Nat
    BY CountersAreNat DEF IInv
  <2> QED  BY <2>2, <2>3, <2>4, PendingType, CeilingType, NType
<1>3. Used' = [Used EXCEPT ![k] = @ + 1]
  <2>1. ASSUME NEW j \in Keys
        PROVE  counters'[<<j, "count">>] =
                 IF j = k THEN counters[<<j, "count">>] + 1 ELSE counters[<<j, "count">>]
    BY <1>1 DEF IncrWithTTL, IInv, TypeInv, TypeOK, CounterIds, Purposes
  <2> QED  BY <2>1 DEF Used
<1>4. Budget!Draw(k)
  BY <1>2, <1>3 DEF Budget!Draw, Used
<1> QED  BY <1>4 DEF Budget!Next

LEMMA SameUsed ==
  ASSUME \A k \in Keys : counters'[<<k, "count">>] = counters[<<k, "count">>]
  PROVE  UNCHANGED Used
BY DEF Used

LEMMA BudgetStep ==
  ASSUME IInv, [Next]_vars
  PROVE  Budget!Next \/ UNCHANGED Used
<1>1. CASE UNCHANGED counters
  BY <1>1, SameUsed
<1>2. ASSUME NEW t \in Threads, UpdateCount(t)
      PROVE  Budget!Next
  BY <1>2, IncrDraws DEF UpdateCount
<1>3. ASSUME NEW t \in Threads, UpdateTotal(t) \/ UpdateSecondary(t)
      PROVE  UNCHANGED Used
  BY <1>3, BaseIncrQuiet, SameUsed DEF UpdateTotal, UpdateSecondary, IInv, Working, Purposes
<1>4. ASSUME NEW t \in Threads, UpdateFails(t), counters' # counters
      PROVE  Budget!Next \/ UNCHANGED Used
  <2>1. /\ counters' = IncrWithTTL(t, UpdatedCounter(t))
        /\ pc[t] \in {"update", "update2"}
    BY <1>4 DEF UpdateFails
  <2>2. CASE UpdatedCounter(t) = "count"
    <3>1. pc[t] = "update" /\ rule[t].alg = "count"
      BY <2>1, <2>2 DEF UpdatedCounter
    <3> QED  BY <2>1, <2>2, <3>1, IncrDraws
  <2>3. CASE UpdatedCounter(t) # "count"
    <3>1. UpdatedCounter(t) \in Purposes \ {"count"} /\ pc[t] \in Working
      BY <2>1, <2>3 DEF UpdatedCounter, Purposes, Working
    <3> QED  BY <2>1, <3>1, BaseIncrQuiet, SameUsed DEF IInv
  <2> QED  BY <2>2, <2>3
<1>5. ASSUME NEW j \in Keys, NEW p \in Purposes, WindowElapses(j, p)
      PROVE  Budget!Next \/ UNCHANGED Used
  <2>1. counters' = [counters EXCEPT ![<<j, p>>] = 0]
    BY <1>5 DEF WindowElapses
  <2>2. CASE p = "count"
    <3>1. ASSUME NEW k \in Keys
          PROVE  counters'[<<k, "count">>] = IF k = j THEN 0 ELSE counters[<<k, "count">>]
      BY <2>1, <2>2 DEF IInv, TypeInv, TypeOK, CounterIds
    <3>2. Used' = [Used EXCEPT ![j] = 0]
      BY <3>1 DEF Used
    <3> QED  BY <3>2 DEF Budget!Next, Budget!Refill, Used
  <2>3. CASE p # "count"
    <3>1. ASSUME NEW k \in Keys
          PROVE  counters'[<<k, "count">>] = counters[<<k, "count">>]
      BY <2>1, <2>3 DEF IInv, TypeInv, TypeOK, CounterIds
    <3> QED  BY <3>1, SameUsed
  <2> QED  BY <2>2, <2>3
<1>6. UNCHANGED counters
        \/ (\E t \in Threads : UpdateCount(t) \/ UpdateTotal(t) \/ UpdateSecondary(t)
                               \/ UpdateFails(t))
        \/ (\E j \in Keys, p \in Purposes : WindowElapses(j, p))
  <2>1. UNCHANGED vars => UNCHANGED counters
    BY DEF vars
  <2>2. ASSUME NEW t \in Threads, ThreadStep(t)
        PROVE  \/ UNCHANGED counters
               \/ UpdateCount(t) \/ UpdateTotal(t) \/ UpdateSecondary(t) \/ UpdateFails(t)
    BY <2>2 DEF ThreadStep, Arrive, Match, BrowseCount, BrowseTotal, BrowseSecondary,
                BrowseFails, Return
  <2>3. ASSUME NEW rs \in RuleSets, LoadRules(rs)  PROVE UNCHANGED counters
    BY <2>3 DEF LoadRules
  <2> QED  BY <2>1, <2>2, <2>3 DEF Next
<1> QED  BY <1>1, <1>2, <1>3, <1>4, <1>5, <1>6

\* Every counter of the engine is a fixed-window budget: drawn one unit at a
\* time, only while it lasts, and refilled whole.
THEOREM EngineImplementsRateBudget == Spec => ImplementsRateBudget
<1>1. Init => Budget!Init
  <2>1. ASSUME Init  PROVE Used = [k \in Keys |-> 0]
    BY <2>1 DEF Init, Used, CounterIds, Purposes
  <2> QED  BY <2>1 DEF Budget!Init, Used
<1>2. IInv /\ [Next]_vars => [Budget!Next]_Used
  BY BudgetStep
<1> QED  BY <1>1, <1>2, Inductive, PTL DEF Spec, ImplementsRateBudget, Budget!Spec, Used

-------------------------------------------------------------------------------
(* The bound on what clients are told.                                     *)

\* The threads that have been granted a request of key k and not answered yet.
Granting(k) == {t \in Threads : passed[t] = k}

\* As long as no rule set is installed, a thread has the rule its request
\* selects; a request granted by its first look is on its second.
Steady(t) ==
  /\ pc[t] \in {"update", "update2"} => inner[t] = "check"
  /\ pc[t] \in Working => RateLimited(rules, req[t]) /\ rule[t] = SelectedRule(rules, req[t])
  /\ pc[t] = "match" /\ inner[t] = "browse" => rule[t] = NoRule
  /\ passed[t] # NoKey =>
       /\ pc[t] \in Working \cup {"match"} /\ inner[t] = "check"
       /\ RateLimited(rules, req[t])
       /\ SelectedRule(rules, req[t]).alg = "count"
       /\ passed[t] = GenerateKey(SelectedRule(rules, req[t]), req[t])

\* Below its limit a counter has counted whatever was granted and did not fail.
\* From the limit on nobody passes the first look any more, so that all there is
\* to come are the requests on their second look.
GrantsKept(k) ==
  /\ (\A r \in Range(RateRules(rules)) : r.name # k[1]) => granted[k] = 0
  /\ \A r \in Range(RateRules(rules)) : r.name = k[1] =>
       IF counters[<<k, "count">>] < r.count
         THEN granted[k] <= counters[<<k, "count">>] + faults
         ELSE granted[k] + Cardinality(Granting(k)) <= r.count + N - 1 + faults

Unmoved == reloads = 0 /\ UniqueNames(rules)

GrantInv ==
  /\ TypeInv
  /\ Unmoved => /\ \A t \in Threads : Steady(t)
                /\ \A k \in Keys : GrantsKept(k)

LEMMA GrantingType ==
  ASSUME NEW k
  PROVE  IsFiniteSet(Granting(k)) /\ Cardinality(Granting(k)) \in Nat /\ Cardinality(Granting(k)) <= N
<1>1. Granting(k) \subseteq Threads
  BY DEF Granting
<1> QED  BY <1>1, ThreadsAssumption, FS_Subset, FS_CardinalityType DEF N

LEMMA GrantingWithout ==
  ASSUME NEW k, NEW t \in Threads, t \notin Granting(k)
  PROVE  Cardinality(Granting(k)) <= N - 1
<1>1. /\ IsFiniteSet(Threads \ {t}) /\ Cardinality(Threads \ {t}) = N - 1
  BY ThreadsAssumption, FS_RemoveElement DEF N
<1>2. Granting(k) \subseteq Threads \ {t}
  BY DEF Granting
<1> QED  BY <1>1, <1>2, FS_Subset

\* A rule of the current set, and the key of a thread that works by it.
LEMMA SelectedIn ==
  ASSUME TypeOK, NEW q \in Requests, RateLimited(rules, q)
  PROVE  /\ SelectedRule(rules, q) \in Range(RateRules(rules))
         /\ SelectedRule(rules, q) \in AllRateRules
         /\ GenerateKey(SelectedRule(rules, q), q) \in Keys
         /\ GenerateKey(SelectedRule(rules, q), q)[1] = SelectedRule(rules, q).name
<1>1. rules \in RuleSets /\ RateRules(rules) \in Seq(Range(RateRules(rules)))
  BY RulesAssumption DEF TypeOK
<1>2. FirstMatch(RateRules(rules), q) \in Range(RateRules(rules))
  BY <1>1, FirstMatchIsFirst DEF RateLimited
<1>3. SelectedRule(rules, q) \in AllRateRules
  BY <1>1, <1>2 DEF SelectedRule, AllRateRules
<1> QED  BY <1>2, <1>3, KeyType DEF SelectedRule

LEMMA CurrentRule ==
  ASSUME TypeOK, NEW r \in Range(RateRules(rules))
  PROVE  r \in AllRateRules /\ r.count \in Nat /\ r.count > 0
<1>1. r \in AllRateRules
  BY DEF TypeOK, AllRateRules
<1> QED  BY <1>1, RulesAssumption

\* A step that neither grants nor counts for k.
LEMMA GrantsQuiet ==
  ASSUME TypeInv, TypeInv', NEW k \in Keys, GrantsKept(k), UNCHANGED rules,
         counters'[<<k, "count">>] = counters[<<k, "count">>], granted'[k] = granted[k],
         faults <= faults',
         \/ Granting(k)' \subseteq Granting(k)
         \/ \A r \in Range(RateRules(rules)) : r.name = k[1] => counters[<<k, "count">>] < r.count
  PROVE  GrantsKept(k)'
<1>1. /\ counters[<<k, "count">>] \in Nat /\ granted[k] \in Nat /\ faults \in Nat /\ faults' \in Nat
  BY CountersAreNat DEF TypeInv, TypeOK
<1>2. ASSUME Granting(k)' \subseteq Granting(k)
      PROVE  Cardinality(Granting(k)') <= Cardinality(Granting(k)) /\ Cardinality(Granting(k)') \in Nat
  BY <1>2, GrantingType, FS_Subset, FS_CardinalityType
<1>3. ASSUME NEW r \in Range(RateRules(rules)), r.name = k[1]
      PROVE  IF counters[<<k, "count">>] < r.count
               THEN granted[k] <= counters[<<k, "count">>] + faults'
               ELSE granted[k] + Cardinality(Granting(k)') <= r.count + N - 1 + faults'
  <2>1. r.count \in Nat /\ Cardinality(Granting(k)) \in Nat
    BY CurrentRule, GrantingType DEF TypeInv
  <2> QED  BY <1>1, <1>2, <1>3, <2>1, NType DEF GrantsKept
<1> QED  BY <1>3 DEF GrantsKept

\* A request that was granted is over: it was counted, its operation failed, or
\* it met the limit.
LEMMA GrantsSettle ==
  ASSUME TypeInv, TypeInv', NEW k \in Keys, GrantsKept(k), UNCHANGED rules, UniqueNames(rules),
         NEW r \in Range(RateRules(rules)), r.name = k[1],
         NEW t \in Granting(k), Granting(k)' = Granting(k) \ {t},
         granted'[k] = granted[k] + 1,
         NEW c \in {0, 1}, counters'[<<k, "count">>] = counters[<<k, "count">>] + c,
         NEW f \in {0, 1}, faults' = faults + f,
         c = 1 \/ f = 1 \/ counters[<<k, "count">>] >= r.count
  PROVE  GrantsKept(k)'
<1>1. /\ counters[<<k, "count">>] \in Nat /\ granted[k] \in Nat /\ faults \in Nat
      /\ r.count \in Nat /\ r.count > 0
  BY CountersAreNat, CurrentRule DEF TypeInv, TypeOK
<1>2. /\ Cardinality(Granting(k)') = Cardinality(Granting(k)) - 1
      /\ Cardinality(Granting(k)) \in Nat /\ Cardinality(Granting(k)) <= N
  BY GrantingType, FS_RemoveElement
<1>3. \A s \in Range(RateRules(rules)) : s.name = k[1] => s = r
  BY DEF UniqueNames
<1>4. IF counters[<<k, "count">>] < r.count
        THEN granted[k] <= counters[<<k, "count">>] + faults
        ELSE granted[k] + Cardinality(Granting(k)) <= r.count + N - 1 + faults
  BY DEF GrantsKept
<1>5. IF counters[<<k, "count">>] + c < r.count
        THEN granted[k] + 1 <= counters[<<k, "count">>] + c + faults + f
        ELSE granted[k] + 1 + Cardinality(Granting(k)') <= r.count + N - 1 + faults + f
  BY <1>1, <1>2, <1>4, NType
<1>6. IF counters'[<<k, "count">>] < r.count
        THEN granted'[k] <= counters'[<<k, "count">>] + faults'
        ELSE granted'[k] + Cardinality(Granting(k)') <= r.count + N - 1 + faults'
  BY <1>1, <1>2, <1>5, NType
<1> QED  BY <1>3, <1>6 DEF GrantsKept

\* An update that no Browse granted counts.
LEMMA GrantsCount ==
  ASSUME TypeInv, TypeInv', NEW k \in Keys, GrantsKept(k), UNCHANGED rules, UniqueNames(rules),
         NEW r \in Range(RateRules(rules)), r.name = k[1],
         NEW t \in Threads \ Granting(k), Granting(k)' = Granting(k),
         granted'[k] = granted[k],
         counters'[<<k, "count">>] = counters[<<k, "count">>] + 1,
         faults <= faults'
  PROVE  GrantsKept(k)'
<1>1. /\ counters[<<k, "count">>] \in Nat /\ granted[k] \in Nat /\ faults \in Nat /\ faults' \in Nat
      /\ r.count \in Nat /\ r.count > 0
  BY CountersAreNat, CurrentRule DEF TypeInv, TypeOK
<1>2. Cardinality(Granting(k)) \in Nat /\ Cardinality(Granting(k)) <= N - 1
  BY GrantingType, GrantingWithout
<1>3. \A s \in Range(RateRules(rules)) : s.name = k[1] => s = r
  BY DEF UniqueNames
<1>4. IF counters[<<k, "count">>] < r.count
        THEN granted[k] <= counters[<<k, "count">>] + faults
        ELSE granted[k] + Cardinality(Granting(k)) <= r.count + N - 1 + faults
  BY DEF GrantsKept
<1>5. IF counters[<<k, "count">>] + 1 < r.count
        THEN granted[k] <= counters[<<k, "count">>] + 1 + faults'
        ELSE granted[k] + Cardinality(Granting(k)) <= r.count + N - 1 + faults'
  BY <1>1, <1>2, <1>4, NType
<1> QED  BY <1>3, <1>5 DEF GrantsKept

\* The three ways in which an engine method returns.
GoesOn(t) ==
  /\ inner[t] = "browse" /\ inner'[t] = "check" /\ pc'[t] = "match"
  /\ passed'[t] = (IF rule[t].alg = "count" THEN Key(t) ELSE NoKey) /\ granted' = granted
Answers(t) ==
  /\ inner[t] = "browse" /\ inner'[t] = "browse" /\ pc'[t] = "done"
  /\ passed'[t] = passed[t] /\ granted' = granted
Settles(t) ==
  /\ inner[t] = "check" /\ inner'[t] = "check" /\ pc'[t] = "done" /\ passed'[t] = NoKey
  /\ granted' = IF passed[t] = NoKey THEN granted ELSE [granted EXCEPT ![passed[t]] = @ + 1]

LEMMA ReturnMoves ==
  ASSUME TypeOK, NEW t \in Threads, NEW answer \in Replies, MethodReturns(t, answer)
  PROVE  /\ req' = req
         /\ \A u \in Threads \ {t} : pc'[u] = pc[u] /\ inner'[u] = inner[u] /\ passed'[u] = passed[u]
         /\ (GoesOn(t) /\ answer = "allowed") \/ Answers(t) \/ Settles(t)
<1>1. CASE BrowseReturns(t, answer)
  BY <1>1 DEF MethodReturns, BrowseReturns, GoesOn, Answers, TypeOK
<1>2. CASE CheckReturns(t, answer)
  BY <1>2 DEF MethodReturns, CheckReturns, Settle, Settles, TypeOK
<1> QED  BY <1>1, <1>2 DEF MethodReturns

LEMMA OthersSteady ==
  ASSUME UNCHANGED <<rules, req>>, NEW u \in Threads, Steady(u),
         pc'[u] = pc[u], inner'[u] = inner[u], passed'[u] = passed[u], rule'[u] = rule[u]
  PROVE  Steady(u)'
BY DEF Steady

\* A key is not mistaken for none.
LEMMA KeysAreKeys ==
  ASSUME NEW k \in Keys
  PROVE  k # NoKey
BY DEF Keys, GenerateKey, NoKey

\* A thread that works by a rule: its key, and the key it was granted.
LEMMA SteadyKey ==
  ASSUME TypeInv, NEW t \in Threads, Steady(t), pc[t] \in Working
  PROVE  /\ rule[t] \in Range(RateRules(rules)) /\ rule[t].count \in Nat
         /\ Key(t) \in Keys /\ Key(t)[1] = rule[t].name
         /\ passed[t] # NoKey => passed[t] = Key(t) /\ rule[t].alg = "count" /\ inner[t] = "check"
<1>1. RateLimited(rules, req[t]) /\ rule[t] = SelectedRule(rules, req[t]) /\ req[t] \in Requests
  BY DEF Steady, TypeInv, TypeOK
<1> QED  BY <1>1, SelectedIn, CurrentRule DEF Steady, TypeInv, Key

LEMMA SteadyReturn ==
  ASSUME TypeInv, \A u \in Threads : Steady(u), UNCHANGED <<rules, rule>>,
         NEW t \in Threads, NEW answer \in Replies, MethodReturns(t, answer),
         pc[t] \in Working \cup {"match"}
  PROVE  \A u \in Threads : Steady(u)'
<1>1. /\ req' = req
      /\ \A u \in Threads \ {t} : pc'[u] = pc[u] /\ inner'[u] = inner[u] /\ passed'[u] = passed[u]
      /\ GoesOn(t) \/ Answers(t) \/ Settles(t)
  BY ReturnMoves DEF TypeInv
<1>2. Steady(t)'
  <2>1. Steady(t)
    OBVIOUS
  <2>2. CASE GoesOn(t)
    <3>1. CASE rule[t].alg = "count"
      <4>1. pc[t] \in Working
        BY <2>1, <2>2, <3>1 DEF Steady, GoesOn, NoRule
      <4>2. RateLimited(rules, req[t]) /\ rule[t] = SelectedRule(rules, req[t])
        BY <2>1, <4>1 DEF Steady
      <4>3. pc'[t] = "match" /\ inner'[t] = "check" /\ passed'[t] = Key(t)
        BY <2>2, <3>1 DEF GoesOn
      <4> QED  BY <1>1, <3>1, <4>2, <4>3 DEF Steady, Working, Key
    <3>2. CASE rule[t].alg # "count"
      <4>1. pc'[t] = "match" /\ inner'[t] = "check" /\ passed'[t] = NoKey
        BY <2>2, <3>2 DEF GoesOn
      <4> QED  BY <4>1 DEF Steady, Working, NoKey
    <3> QED  BY <3>1, <3>2
  <2>3. CASE Answers(t)
    <3>1. passed[t] = NoKey
      BY <2>1, <2>3 DEF Steady, Answers
    <3> QED  BY <2>3, <3>1 DEF Steady, Answers, Working, NoKey
  <2>4. CASE Settles(t)
    BY <2>4 DEF Steady, Settles, Working, NoKey
  <2> QED  BY <1>1, <2>2, <2>3, <2>4
<1> QED  BY <1>1, <1>2, OthersSteady

\* A return that leaves the counters of counting rules alone: a first look lets a
\* request pass only below the limit, and what the second look ends without
\* counting has failed or met the limit.
LEMMA GrantsReturn ==
  ASSUME TypeInv, TypeInv', UniqueNames(rules), UNCHANGED <<rules, rule>>,
         \A k \in Keys : GrantsKept(k), NEW t \in Threads, Steady(t),
         NEW answer \in Replies, MethodReturns(t, answer),
         \A k \in Keys : counters'[<<k, "count">>] = counters[<<k, "count">>],
         NEW f \in {0, 1}, faults' = faults + f,
         inner[t] = "browse" /\ answer = "allowed" /\ rule[t].alg = "count"
           => pc[t] \in Working /\ Counter(t, "count") < rule[t].count,
         passed[t] # NoKey => pc[t] \in Working /\ (f = 1 \/ Counter(t, "count") >= rule[t].count)
  PROVE  \A k \in Keys : GrantsKept(k)'
<1>0. faults \in Nat /\ faults <= faults'
  BY DEF TypeInv, TypeOK
<1>1. /\ \A u \in Threads \ {t} : passed'[u] = passed[u]
      /\ (GoesOn(t) /\ answer = "allowed") \/ Answers(t) \/ Settles(t)
  BY ReturnMoves DEF TypeInv
<1> TAKE k \in Keys
<1>2. CASE GoesOn(t) /\ answer = "allowed"
  <2>1. passed[t] = NoKey
    BY <1>2 DEF Steady, GoesOn
  <2>2. CASE rule[t].alg = "count" /\ Key(t) = k
    <3>1. pc[t] \in Working /\ Counter(t, "count") < rule[t].count
      BY <1>2, <2>2 DEF GoesOn
    <3>2. rule[t] \in Range(RateRules(rules)) /\ rule[t].name = k[1]
      BY <2>2, <3>1, SteadyKey
    <3>3. \A r \in Range(RateRules(rules)) : r.name = k[1] => counters[<<k, "count">>] < r.count
      BY <2>2, <3>1, <3>2 DEF UniqueNames, Counter
    <3> QED  BY <1>0, <1>2, <3>3, GrantsQuiet DEF GoesOn
  <2>3. CASE ~(rule[t].alg = "count" /\ Key(t) = k)
    <3>1. passed'[t] # k
      BY <1>2, <2>3, KeysAreKeys DEF GoesOn
    <3>2. Granting(k)' \subseteq Granting(k)
      BY <1>1, <3>1 DEF Granting
    <3> QED  BY <1>0, <1>2, <3>2, GrantsQuiet DEF GoesOn
  <2> QED  BY <2>2, <2>3
<1>3. CASE Answers(t)
  <2>1. Granting(k)' \subseteq Granting(k)
    BY <1>1, <1>3 DEF Granting, Answers
  <2> QED  BY <1>0, <1>3, <2>1, GrantsQuiet DEF Answers
<1>4. CASE Settles(t)
  <2>1. Granting(k)' = Granting(k) \ {t}
    BY <1>1, <1>4, KeysAreKeys DEF Granting, Settles
  <2>2. CASE passed[t] = k
    <3>1. pc[t] \in Working /\ (f = 1 \/ Counter(t, "count") >= rule[t].count) /\ passed[t] # NoKey
      BY <2>2, KeysAreKeys
    <3>2. rule[t] \in Range(RateRules(rules)) /\ rule[t].name = k[1] /\ Key(t) = k
      BY <2>2, <3>1, SteadyKey
    <3>3. granted'[k] = granted[k] + 1
      BY <1>4, <2>2, <3>1 DEF Settles, TypeInv, TypeOK
    <3>4. t \in Granting(k)
      BY <2>2 DEF Granting
    <3>5. counters'[<<k, "count">>] = counters[<<k, "count">>] + 0
      BY CountersAreNat
    <3>6. f = 1 \/ counters[<<k, "count">>] >= rule[t].count
      BY <3>1, <3>2 DEF Counter
    <3> QED  BY <2>1, <3>2, <3>3, <3>4, <3>5, <3>6, GrantsSettle
  <2>3. CASE passed[t] # k
    <3>1. granted'[k] = granted[k]
      BY <1>4, <2>3 DEF Settles, TypeInv, TypeOK
    <3> QED  BY <1>0, <2>1, <3>1, GrantsQuiet
  <2> QED  BY <2>2, <2>3
<1> QED  BY <1>1, <1>2, <1>3, <1>4

\* A return with the increment of a counting rule.
LEMMA GrantsCounted ==
  ASSUME TypeInv, TypeInv', UniqueNames(rules), UNCHANGED <<rules, rule>>,
         \A k \in Keys : GrantsKept(k), NEW t \in Threads, Steady(t),
         NEW answer \in Replies, MethodReturns(t, answer),
         pc[t] = "update", rule[t].alg = "count", counters' = IncrWithTTL(t, "count"),
         NEW f \in {0, 1}, faults' = faults + f
  PROVE  \A k \in Keys : GrantsKept(k)'
<1>0. faults \in Nat /\ faults <= faults'
  BY DEF TypeInv, TypeOK
<1>1. /\ \A u \in Threads \ {t} : passed'[u] = passed[u]
      /\ Settles(t)
  BY ReturnMoves DEF TypeInv, Steady, GoesOn, Answers
<1>2. /\ rule[t] \in Range(RateRules(rules)) /\ Key(t) \in Keys /\ Key(t)[1] = rule[t].name
      /\ passed[t] # NoKey => passed[t] = Key(t)
  BY SteadyKey DEF Working
<1> TAKE k \in Keys
<1>3. Granting(k)' = Granting(k) \ {t}
  BY <1>1, KeysAreKeys DEF Granting, Settles
<1>4. CASE k = Key(t)
  <2>1. counters'[<<k, "count">>] = counters[<<k, "count">>] + 1
    BY <1>4 DEF IncrWithTTL, TypeInv, TypeOK, CounterIds, Purposes
  <2>2. CASE passed[t] = k
    <3>1. granted'[k] = granted[k] + 1
      BY <1>1, <2>2, KeysAreKeys DEF Settles, TypeInv, TypeOK
    <3>2. t \in Granting(k)
      BY <2>2 DEF Granting
    <3> QED  BY <1>2, <1>3, <1>4, <2>1, <3>1, <3>2, GrantsSettle
  <2>3. CASE passed[t] # k
    <3>1. granted' = granted
      BY <1>1, <1>2, <1>4, <2>3 DEF Settles
    <3>2. t \notin Granting(k)
      BY <2>3 DEF Granting
    <3> QED  BY <1>0, <1>2, <1>3, <1>4, <2>1, <3>1, <3>2, GrantsCount
  <2> QED  BY <2>2, <2>3
<1>5. CASE k # Key(t)
  <2>1. counters'[<<k, "count">>] = counters[<<k, "count">>]
    BY <1>2, <1>5 DEF IncrWithTTL, TypeInv, TypeOK, CounterIds, Purposes
  <2>2. granted'[k] = granted[k]
    BY <1>1, <1>2, <1>5 DEF Settles, TypeInv, TypeOK
  <2> QED  BY <1>0, <1>3, <2>1, <2>2, GrantsQuiet
<1> QED  BY <1>4, <1>5

\* A step of t that is no return: it grants and counts nothing.
LEMMA GrantsMove ==
  ASSUME TypeInv, TypeInv', UNCHANGED <<rules, counters, granted, faults>>, passed' = passed,
         \A k \in Keys : GrantsKept(k)
  PROVE  \A k \in Keys : GrantsKept(k)'
<1>1. \A k \in Keys : Granting(k)' \subseteq Granting(k)
  BY DEF Granting
<1>2. faults <= faults'
  BY DEF TypeInv, TypeOK
<1> QED  BY <1>1, <1>2, GrantsQuiet

Granted == (\A t \in Threads : Steady(t)) /\ (\A k \in Keys : GrantsKept(k))

LEMMA GrantsThread ==
  ASSUME TypeInv, TypeInv', UniqueNames(rules), Granted, NEW t \in Threads, ThreadStep(t)
  PROVE  Granted'
<1>0. /\ Steady(t) /\ faults \in Nat
      /\ faults' = faults + 0 \/ faults' = faults + 1
      /\ UNCHANGED <<rules, reloads>>
  BY DEF Granted, ThreadStep, Arrive, Match, BrowseCount, BrowseTotal, BrowseSecondary, BrowseFails,
         UpdateCount, UpdateTotal, UpdateSecondary, UpdateFails, Return, TypeInv, TypeOK
<1>1. ASSUME NEW c \in Calls, NEW q \in Requests, Arrive(t, c, q)  PROVE Granted'
  <2>1. /\ passed[t] = NoKey /\ passed' = passed /\ pc'[t] = "match" /\ rule'[t] = NoRule
        /\ UNCHANGED <<rules, counters, granted, faults>>
    BY <1>0, <1>1 DEF Arrive, Steady, Working, TypeInv, TypeOK
  <2>2. \A u \in Threads \ {t} : /\ pc'[u] = pc[u] /\ inner'[u] = inner[u] /\ rule'[u] = rule[u]
                                 /\ req'[u] = req[u]
    BY <1>1 DEF Arrive, TypeInv, TypeOK
  <2>3. \A u \in Threads \ {t} : Steady(u)'
    BY <2>1, <2>2 DEF Granted, Steady
  <2>4. Steady(t)'
    BY <2>1 DEF Steady, Working
  <2>5. \A k \in Keys : GrantsKept(k)'
    BY <2>1, GrantsMove DEF Granted
  <2> QED  BY <2>3, <2>4, <2>5 DEF Granted
<1>2. ASSUME NEW answer \in Replies, MethodReturns(t, answer), UNCHANGED rule,
             pc[t] \in Working \cup {"match"},
             \A k \in Keys : counters'[<<k, "count">>] = counters[<<k, "count">>],
             inner[t] = "browse" /\ answer = "allowed" /\ rule[t].alg = "count"
               => pc[t] \in Working /\ Counter(t, "count") < rule[t].count,
             passed[t] # NoKey => pc[t] \in Working /\ (faults' = faults + 1 \/ Counter(t, "count") >= rule[t].count)
      PROVE  Granted'
  <2>1. \A u \in Threads : Steady(u)'
    BY <1>0, <1>2, SteadyReturn DEF Granted
  <2>2. PICK f \in {0, 1} : faults' = faults + f /\ (faults' = faults + 1 => f = 1)
    BY <1>0
  <2>3. \A k \in Keys : GrantsKept(k)'
    BY <1>0, <1>2, <2>2, GrantsReturn DEF Granted
  <2> QED  BY <2>1, <2>3 DEF Granted
<1>3. ASSUME UNCHANGED <<rule, req, inner, passed, counters, granted, faults>>,
             NEW place \in Working, pc' = [pc EXCEPT ![t] = place], pc[t] \in Working,
             place \in {"update", "update2"} => inner[t] = "check"
      PROVE  Granted'
  <2>1. pc'[t] = place /\ \A u \in Threads \ {t} : pc'[u] = pc[u]
    BY <1>3 DEF TypeInv, TypeOK
  <2>2. Steady(t)'
    <3>1. /\ RateLimited(rules, req[t]) /\ rule[t] = SelectedRule(rules, req[t])
      BY <1>0, <1>3 DEF Steady
    <3> QED  BY <1>0, <1>3, <2>1, <3>1 DEF Steady, Working
  <2>3. \A u \in Threads \ {t} : Steady(u)'
    BY <1>0, <1>3, <2>1, OthersSteady DEF Granted
  <2>4. \A k \in Keys : GrantsKept(k)'
    BY <1>0, <1>3, GrantsMove DEF Granted
  <2> QED  BY <2>2, <2>3, <2>4 DEF Granted
<1>4. ASSUME Match(t)  PROVE Granted'
  <2>0. pc[t] = "match" /\ UNCHANGED <<rules, counters, faults>>
    BY <1>4 DEF Match
  <2>1. CASE /\ RateLimited(rules, req[t])
             /\ rule' = [rule EXCEPT ![t] = SelectedRule(rules, req[t])]
             /\ pc' = [pc EXCEPT ![t] = "browse"]
             /\ UNCHANGED <<call, req, inner, reply, passed, granted>>
    <3>1. /\ rule'[t] = SelectedRule(rules, req[t]) /\ pc'[t] = "browse"
          /\ \A u \in Threads \ {t} : pc'[u] = pc[u] /\ rule'[u] = rule[u]
      BY <2>1 DEF TypeInv, TypeOK
    <3>2. Steady(t)'
      BY <1>0, <2>0, <2>1, <3>1 DEF Steady, Working
    <3>3. \A u \in Threads \ {t} : Steady(u)'
      BY <2>0, <2>1, <3>1, OthersSteady DEF Granted
    <3>4. \A k \in Keys : GrantsKept(k)'
      BY <2>0, <2>1, GrantsMove DEF Granted
    <3> QED  BY <3>2, <3>3, <3>4 DEF Granted
  <2>2. CASE ~RateLimited(rules, req[t]) /\ UNCHANGED rule
             /\ \E answer \in Replies : MethodReturns(t, answer)
    <3>1. passed[t] = NoKey
      BY <1>0, <2>2 DEF Steady
    <3>2. inner[t] = "browse" => rule[t].alg # "count"
      BY <1>0, <2>0 DEF Steady, NoRule
    <3>3. PICK answer \in Replies : MethodReturns(t, answer)
      BY <2>2
    <3> QED  BY <1>2, <2>0, <2>2, <3>1, <3>2, <3>3
  <2> QED  BY <1>4, <2>1, <2>2 DEF Match, RateLimited, Replies
<1>5. ASSUME BrowseCount(t)  PROVE Granted'
  <2>0. /\ pc[t] = "browse" /\ rule[t].alg = "count" /\ UNCHANGED <<rules, counters, rule, faults>>
        /\ pc[t] \in Working /\ "denied" \in Replies /\ "allowed" \in Replies
    BY <1>5 DEF BrowseCount, Working, Replies
  <2>1. CASE Counter(t, "count") >= rule[t].count
    BY <1>2, <1>5, <2>0, <2>1 DEF BrowseCount
  <2>2. CASE ~(Counter(t, "count") >= rule[t].count)
    <3>0. Counter(t, "count") < rule[t].count
      BY <1>0, <2>0, <2>2, SteadyKey, IncrType DEF Purposes
    <3>1. CASE /\ inner[t] = "check" /\ pc' = [pc EXCEPT ![t] = "update"]
               /\ UNCHANGED <<call, req, inner, reply, passed, granted>>
      BY <1>3, <2>0, <3>1 DEF Working
    <3>2. CASE inner[t] = "browse" /\ MethodReturns(t, "allowed")
      <4>1. passed[t] = NoKey
        BY <1>0, <3>2 DEF Steady
      <4> QED  BY <1>2, <2>0, <3>0, <3>2, <4>1
    <3> QED  BY <1>5, <2>2, <3>1, <3>2 DEF BrowseCount, NotHit
  <2> QED  BY <2>1, <2>2
<1>6. ASSUME BrowseTotal(t) \/ BrowseSecondary(t)  PROVE Granted'
  <2>0. /\ pc[t] \in {"browse", "browse2"} /\ rule[t].alg = "base"
        /\ UNCHANGED <<rules, counters, rule, faults>>
        /\ pc[t] \in Working /\ "denied" \in Replies /\ "allowed" \in Replies
    BY <1>6 DEF BrowseTotal, BrowseSecondary, Working, Replies, TypeInv, RuleSelected, SecondStep
  <2>1. passed[t] = NoKey
    BY <1>0, <2>0, SteadyKey
  <2>2. CASE \E answer \in Replies : MethodReturns(t, answer)
    <3>1. PICK answer \in Replies : MethodReturns(t, answer)
      BY <2>2
    <3> QED  BY <1>2, <2>0, <2>1, <3>1
  <2>3. CASE /\ pc' = [pc EXCEPT ![t] = "browse2"] \/ (inner[t] = "check" /\ pc' = [pc EXCEPT ![t] = "update"])
             /\ UNCHANGED <<call, req, inner, reply, passed, granted>>
    BY <1>3, <2>0, <2>3 DEF Working
  <2> QED  BY <1>6, <2>0, <2>2, <2>3 DEF BrowseTotal, BrowseSecondary, NotHit
<1>7. ASSUME BrowseFails(t)  PROVE Granted'
  BY <1>2, <1>7 DEF BrowseFails, Working, Replies
<1>8. ASSUME UpdateCount(t)  PROVE Granted'
  <2>1. /\ pc[t] = "update" /\ rule[t].alg = "count" /\ counters' = IncrWithTTL(t, "count")
        /\ MethodReturns(t, "allowed") /\ UNCHANGED <<rules, rule>> /\ faults' = faults + 0
        /\ "allowed" \in Replies
    BY <1>0, <1>8 DEF UpdateCount, Replies
  <2>2. \A u \in Threads : Steady(u)'
    BY <2>1, SteadyReturn DEF Granted, Working
  <2>3. \A k \in Keys : GrantsKept(k)'
    BY <2>1, GrantsCounted DEF Granted
  <2> QED  BY <2>2, <2>3 DEF Granted
<1>9. ASSUME UpdateTotal(t) \/ UpdateSecondary(t)  PROVE Granted'
  <2>0. /\ pc[t] \in {"update", "update2"} /\ rule[t].alg = "base" /\ UNCHANGED <<rules, rule, faults>>
        /\ pc[t] \in Working /\ "allowed" \in Replies /\ inner[t] = "check"
    BY <1>0, <1>9 DEF UpdateTotal, UpdateSecondary, Working, Replies, TypeInv, RuleSelected, SecondStep, Steady
  <2>1. passed[t] = NoKey
    BY <1>0, <2>0, SteadyKey
  <2>2. \A k \in Keys : counters'[<<k, "count">>] = counters[<<k, "count">>]
    BY <1>9, <2>0, BaseIncrQuiet DEF UpdateTotal, UpdateSecondary, Purposes
  <2>3. CASE MethodReturns(t, "allowed")
    BY <1>2, <2>0, <2>1, <2>2, <2>3
  <2>4. CASE /\ pc' = [pc EXCEPT ![t] = "update2"]
             /\ UNCHANGED <<call, req, inner, reply, passed, granted>>
    <3>1. pc'[t] = "update2" /\ \A u \in Threads \ {t} : pc'[u] = pc[u]
      BY <2>4 DEF TypeInv, TypeOK
    <3>2. Steady(t)'
      <4>1. RateLimited(rules, req[t]) /\ rule[t] = SelectedRule(rules, req[t])
        BY <1>0, <2>0 DEF Steady
      <4> QED  BY <1>0, <2>0, <2>1, <2>4, <3>1, <4>1 DEF Steady
    <3>3. \A u \in Threads \ {t} : Steady(u)'
      BY <2>0, <2>4, <3>1, OthersSteady DEF Granted
    <3>4. ASSUME NEW k \in Keys  PROVE GrantsKept(k)'
      <4>1. Granting(k)' \subseteq Granting(k)
        BY <2>4 DEF Granting
      <4>2. faults <= faults'
        BY <2>0 DEF TypeInv, TypeOK
      <4> QED  BY <2>0, <2>2, <2>4, <4>1, <4>2, GrantsQuiet DEF Granted
    <3> QED  BY <3>2, <3>3, <3>4 DEF Granted
  <2> QED  BY <1>9, <2>3, <2>4 DEF UpdateTotal, UpdateSecondary
<1>10. ASSUME UpdateFails(t)  PROVE Granted'
  <2>0. /\ pc[t] \in {"update", "update2"} /\ pc[t] \in Working /\ "allowed" \in Replies
        /\ MethodReturns(t, "allowed") /\ UNCHANGED <<rules, rule>> /\ faults' = faults + 1
        /\ counters' \in {counters, IncrWithTTL(t, UpdatedCounter(t))} /\ inner[t] = "check"
    BY <1>0, <1>10 DEF UpdateFails, Working, Replies, Steady
  <2>1. CASE \A k \in Keys : counters'[<<k, "count">>] = counters[<<k, "count">>]
    BY <1>2, <2>0, <2>1
  <2>2. CASE counters' = IncrWithTTL(t, UpdatedCounter(t)) /\ UpdatedCounter(t) # "count"
    <3>1. UpdatedCounter(t) \in Purposes \ {"count"}
      BY <2>2 DEF UpdatedCounter, Purposes
    <3> QED  BY <2>0, <2>1, <2>2, <3>1, BaseIncrQuiet
  <2>3. CASE counters' = IncrWithTTL(t, "count") /\ UpdatedCounter(t) = "count"
    <3>1. pc[t] = "update" /\ rule[t].alg = "count"
      BY <2>0, <2>3 DEF UpdatedCounter
    <3>2. \A u \in Threads : Steady(u)'
      BY <2>0, SteadyReturn DEF Granted
    <3>3. \A k \in Keys : GrantsKept(k)'
      BY <2>0, <2>3, <3>1, GrantsCounted DEF Granted
    <3> QED  BY <3>2, <3>3 DEF Granted
  <2> QED  BY <2>0, <2>1, <2>2, <2>3
<1>11. ASSUME Return(t)  PROVE Granted'
  <2>1. /\ pc[t] = "done" /\ passed' = passed /\ pc' = [pc EXCEPT ![t] = "idle"]
        /\ UNCHANGED <<rules, counters, req, inner, rule, granted, faults>>
    BY <1>11 DEF Return
  <2>2. pc'[t] = "idle" /\ \A u \in Threads \ {t} : pc'[u] = pc[u]
    BY <2>1 DEF TypeInv, TypeOK
  <2>3. passed'[t] = NoKey
    BY <1>0, <2>1 DEF Steady, Working
  <2>4. Steady(t)'
    BY <2>2, <2>3 DEF Steady, Working
  <2>5. \A u \in Threads \ {t} : Steady(u)'
    BY <2>1, <2>2, OthersSteady DEF Granted
  <2>6. \A k \in Keys : GrantsKept(k)'
    BY <2>1, GrantsMove DEF Granted
  <2> QED  BY <2>4, <2>5, <2>6 DEF Granted
<1> QED
  BY <1>1, <1>4, <1>5, <1>6, <1>7, <1>8, <1>9, <1>10, <1>11 DEF ThreadStep

LEMMA GrantInit == Init => GrantInv
<1> SUFFICES ASSUME Init  PROVE GrantInv
  OBVIOUS
<1>1. TypeInv
  BY TypeInit
<1>2. \A t \in Threads : pc[t] = "idle" /\ passed[t] = NoKey
  BY DEF Init
<1>3. \A t \in Threads : Steady(t)
  BY <1>2 DEF Steady, Working
<1>4. ASSUME NEW k \in Keys  PROVE GrantsKept(k)
  <2>1. counters[<<k, "count">>] = 0 /\ granted[k] = 0 /\ faults = 0
    BY DEF Init, CounterIds, Purposes
  <2>2. \A r \in Range(RateRules(rules)) : r.count \in Nat /\ r.count > 0
    BY <1>1, CurrentRule DEF TypeInv
  <2> QED  BY <2>1, <2>2 DEF GrantsKept
<1> QED  BY <1>1, <1>3, <1>4 DEF GrantInv

LEMMA GrantStep == GrantInv /\ [Next]_vars => GrantInv'
<1> SUFFICES ASSUME GrantInv, [Next]_vars  PROVE GrantInv'
  OBVIOUS
<1>1. TypeInv /\ TypeInv'
  BY TypeStep DEF GrantInv
<1>2. SUFFICES ASSUME Unmoved'  PROVE Granted'
  BY <1>1 DEF GrantInv, Granted
<1>3. ASSUME Unmoved  PROVE Granted
  BY <1>3 DEF GrantInv, Granted
<1>4. ASSUME NEW t \in Threads, ThreadStep(t)  PROVE Granted'
  <2>1. UNCHANGED <<rules, reloads>>
    BY <1>4 DEF ThreadStep, Arrive, Match, BrowseCount, BrowseTotal, BrowseSecondary, BrowseFails,
         UpdateCount, UpdateTotal, UpdateSecondary, UpdateFails, Return
  <2>2. Unmoved
    BY <1>2, <2>1 DEF Unmoved, UniqueNames
  <2> QED  BY <1>1, <1>3, <1>4, <2>2, GrantsThread DEF Unmoved
<1>5. ASSUME NEW j \in Keys, NEW p \in Purposes, WindowElapses(j, p)  PROVE Granted'
  <2>1. /\ UNCHANGED <<rules, reloads, faults, pc, req, inner, rule, passed>>
        /\ counters' = [counters EXCEPT ![<<j, p>>] = 0]
        /\ granted' = IF p = "count" THEN [granted EXCEPT ![j] = 0] ELSE granted
    BY <1>5 DEF WindowElapses, threadVars
  <2>2. Granted
    BY <1>2, <1>3, <2>1 DEF Unmoved, UniqueNames
  <2>3. \A t \in Threads : Steady(t)'
    BY <2>1, <2>2, OthersSteady DEF Granted
  <2>4. ASSUME NEW k \in Keys  PROVE GrantsKept(k)'
    <3>1. CASE p = "count" /\ k = j
      <4>1. counters'[<<k, "count">>] = 0 /\ granted'[k] = 0
        BY <1>1, <2>1, <3>1 DEF TypeInv, TypeOK, CounterIds, Purposes
      <4>2. \A r \in Range(RateRules(rules)) : r.count \in Nat /\ r.count > 0
        BY <1>1, CurrentRule DEF TypeInv
      <4>3. faults' \in Nat
        BY <1>1 DEF TypeInv, TypeOK
      <4> QED  BY <2>1, <4>1, <4>2, <4>3 DEF GrantsKept
    <3>2. CASE ~(p = "count" /\ k = j)
      <4>1. counters'[<<k, "count">>] = counters[<<k, "count">>] /\ granted'[k] = granted[k]
        BY <1>1, <2>1, <3>2 DEF TypeInv, TypeOK, CounterIds, Purposes
      <4>2. Granting(k)' \subseteq Granting(k) /\ faults <= faults'
        BY <1>1, <2>1 DEF Granting, TypeInv, TypeOK
      <4> QED  BY <1>1, <2>1, <2>2, <4>1, <4>2, GrantsQuiet DEF Granted
    <3> QED  BY <3>1, <3>2
  <2> QED  BY <2>3, <2>4 DEF Granted
<1>6. ASSUME NEW rs \in RuleSets, LoadRules(rs)  PROVE FALSE
  BY <1>1, <1>2, <1>6 DEF LoadRules, Unmoved, TypeInv, TypeOK
<1>7. CASE UNCHANGED vars
  <2>1. UNCHANGED <<rules, reloads, counters, granted, faults, pc, req, inner, rule, passed>>
    BY <1>7 DEF vars, threadVars
  <2>2. Granted
    BY <1>2, <1>3, <2>1 DEF Unmoved, UniqueNames
  <2>3. \A t \in Threads : Steady(t)'
    BY <2>1, <2>2, OthersSteady DEF Granted
  <2>4. \A k \in Keys : GrantsKept(k)'
    BY <1>1, <2>1, <2>2, GrantsMove DEF Granted
  <2> QED  BY <2>3, <2>4 DEF Granted
<1> QED  BY <1>4, <1>5, <1>6, <1>7 DEF Next

\* Browse with update answers before it counts (main.go:171), yet within a window
\* clients are told "allowed" no more often than the limit, one request for each
\* other thread and one for each failed operation.
THEOREM GrantsAreBounded == Spec => []GrantBound
<1>1. GrantInv => GrantBound
  <2>1. ASSUME GrantInv, Unmoved, NEW k \in Keys
        PROVE  granted[k] <= Ceiling[k[1]] + N - 1 + faults
    <3>1. /\ Ceiling[k[1]] \in Nat /\ granted[k] \in Nat /\ faults \in Nat
          /\ counters[<<k, "count">>] \in Nat /\ Cardinality(Granting(k)) \in Nat
      BY <2>1, CeilingType, CountersAreNat, GrantingType DEF GrantInv, TypeInv, TypeOK
    <3>2. CASE \A r \in Range(RateRules(rules)) : r.name # k[1]
      <4>1. granted[k] = 0
        BY <2>1, <3>2 DEF GrantInv, GrantsKept
      <4> QED  BY <3>1, <4>1, NType
    <3>3. ASSUME NEW r \in Range(RateRules(rules)), r.name = k[1]
          PROVE  granted[k] <= Ceiling[k[1]] + N - 1 + faults
      <4>1. r.count \in Nat /\ r.count <= Ceiling[k[1]]
        BY <2>1, <3>3, CurrentRule, RuleFacts DEF GrantInv, TypeInv
      <4>2. IF counters[<<k, "count">>] < r.count
              THEN granted[k] <= counters[<<k, "count">>] + faults
              ELSE granted[k] + Cardinality(Granting(k)) <= r.count + N - 1 + faults
        BY <2>1, <3>3 DEF GrantInv, GrantsKept
      <4> QED  BY <3>1, <4>1, <4>2, NType
    <3> QED  BY <3>2, <3>3
  <2> QED  BY <2>1 DEF GrantBound, Unmoved
<1> QED  BY <1>1, GrantInit, GrantStep, PTL DEF Spec

-------------------------------------------------------------------------------
(* The bound on the secondary counter of a base rule.                      *)

\* The threads that have yet to count for a base rule, and those of them that
\* have counted in the total and go on to the secondary counter.
Flight(k) == {t \in Threads : pc[t] \in {"update", "update2"} /\ rule[t].alg = "base" /\ Key(t) = k}
Second(k) == {t \in Threads : pc[t] = "update2" /\ Key(t) = k}

Start(k) == IF Ceiling[k[1]] > N THEN Ceiling[k[1]] - 1 ELSE N
Allowance(k) == Start(k) + N * lifetimes[k]
Total(k) == counters[<<k, "total">>]
Secondary(k) == counters[<<k, "secondary">>]

\* While the total is within the base, only those past it count in the secondary
\* counter, and N requests are in reserve for when the total passes the base with
\* requests in flight that have not looked at the secondary counter.
BaseKept(k) ==
  /\ (\A r \in Range(RateRules(rules)) : r.name # k[1]) => Secondary(k) = 0
  /\ \A r \in Range(RateRules(rules)) : r.name = k[1] =>
       IF Total(k) <= r.base
         THEN Secondary(k) + Cardinality(Second(k)) + N <= Allowance(k)
         ELSE Secondary(k) + Cardinality(Flight(k)) <= Allowance(k)

BaseInv ==
  /\ GrantInv
  /\ \A k \in Keys : lifetimes[k] > 0
  /\ Unmoved => \A k \in Keys : BaseKept(k)

LEMMA SomeThreads ==
  ASSUME NEW S \in SUBSET Threads
  PROVE  IsFiniteSet(S) /\ Cardinality(S) \in Nat /\ Cardinality(S) <= N
BY ThreadsAssumption, FS_Subset, FS_CardinalityType DEF N

LEMMA FewerThreads ==
  ASSUME NEW S \in SUBSET Threads, NEW R \in SUBSET S
  PROVE  Cardinality(R) <= Cardinality(S)
BY SomeThreads, FS_Subset

LEMMA FlightType ==
  ASSUME TypeInv, NEW k
  PROVE  /\ Flight(k) \in SUBSET Threads /\ Second(k) \in SUBSET Threads
         /\ Second(k) \subseteq Flight(k)
BY DEF Flight, Second, TypeInv, RuleSelected, SecondStep

LEMMA AllowanceType ==
  ASSUME TypeInv, NEW k \in Keys, lifetimes[k] > 0
  PROVE  /\ Start(k) \in Nat /\ Start(k) >= N /\ Start(k) + 1 >= Ceiling[k[1]]
         /\ Allowance(k) \in Nat /\ Start(k) + N <= Allowance(k)
         /\ Total(k) \in Nat /\ Secondary(k) \in Nat
<1>1. N \in Nat /\ N > 0 /\ Ceiling[k[1]] \in Nat /\ lifetimes[k] \in Nat
  BY NType, CeilingType DEF TypeInv, TypeOK
<1>2. Start(k) \in Nat /\ Start(k) >= N /\ Start(k) + 1 >= Ceiling[k[1]]
  BY <1>1 DEF Start
<1>3. N * lifetimes[k] \in Nat /\ N * lifetimes[k] >= N
  <2>1. PICK m \in Nat : lifetimes[k] = m + 1
    <3>1. lifetimes[k] - 1 \in Nat /\ lifetimes[k] = (lifetimes[k] - 1) + 1
      BY <1>1
    <3> QED  BY <3>1
  <2>2. N * m \in Nat /\ N * (m + 1) = N * m + N
    BY <1>1
  <2> QED  BY <1>1, <2>1, <2>2
<1>4. Total(k) \in Nat /\ Secondary(k) \in Nat
  BY DEF Total, Secondary, TypeInv, TypeOK, CounterIds, Purposes
<1> QED  BY <1>1, <1>2, <1>3, <1>4 DEF Allowance

\* A step that leaves the secondary counter alone and takes nobody to it, but for
\* what passes the base.
LEMMA BaseOnward ==
  ASSUME TypeInv, TypeInv', NEW k \in Keys, BaseKept(k), UNCHANGED rules, lifetimes[k] > 0,
         lifetimes'[k] = lifetimes[k],
         Secondary(k)' = Secondary(k), Total(k) <= Total(k)',
         Flight(k)' \subseteq Flight(k),
         \A r \in Range(RateRules(rules)) : r.name = k[1] /\ Total(k)' <= r.base
           => Second(k)' \subseteq Second(k)
  PROVE  BaseKept(k)'
<1>1. /\ Allowance(k) \in Nat /\ Allowance(k)' = Allowance(k) /\ N \in Nat
      /\ Secondary(k) \in Nat /\ Total(k) \in Nat /\ Total(k)' \in Nat
  <2>1. Allowance(k)' = Allowance(k)
    BY DEF Allowance, Start
  <2>2. Total(k)' \in Nat
    BY DEF Total, TypeInv, TypeOK, CounterIds, Purposes
  <2> QED  BY <2>1, <2>2, AllowanceType, NType
<1>2. /\ Flight(k) \in SUBSET Threads /\ Second(k) \in SUBSET Threads
      /\ Flight(k)' \in SUBSET Threads /\ Second(k)' \in SUBSET Threads
  BY DEF Flight, Second
<1>3. /\ Cardinality(Flight(k)) \in Nat /\ Cardinality(Second(k)) \in Nat
      /\ Cardinality(Flight(k)') \in Nat /\ Cardinality(Second(k)') \in Nat
      /\ Cardinality(Flight(k)') <= Cardinality(Flight(k)) /\ Cardinality(Flight(k)') <= N
  BY <1>2, SomeThreads, FewerThreads
<1>4. ASSUME NEW r \in Range(RateRules(rules)), r.name = k[1]
      PROVE  IF Total(k)' <= r.base
               THEN Secondary(k) + Cardinality(Second(k)') + N <= Allowance(k)
               ELSE Secondary(k) + Cardinality(Flight(k)') <= Allowance(k)
  <2>1. r.base \in Int
    BY CurrentRule, RuleFacts DEF TypeInv
  <2>2. IF Total(k) <= r.base
          THEN Secondary(k) + Cardinality(Second(k)) + N <= Allowance(k)
          ELSE Secondary(k) + Cardinality(Flight(k)) <= Allowance(k)
    BY <1>4 DEF BaseKept
  <2>3. Total(k)' <= r.base => Cardinality(Second(k)') <= Cardinality(Second(k))
    BY <1>2, <1>4, FewerThreads
  <2> QED  BY <1>1, <1>3, <2>1, <2>2, <2>3
<1> QED  BY <1>1, <1>4 DEF BaseKept

\* A request joins those in flight, within the base or below the limit.
LEMMA BaseJoins ==
  ASSUME TypeInv, TypeInv', NEW k \in Keys, BaseKept(k), UNCHANGED <<rules, counters>>,
         lifetimes[k] > 0, lifetimes'[k] = lifetimes[k],
         Second(k)' \subseteq Second(k),
         \A r \in Range(RateRules(rules)) : r.name = k[1]
           => Total(k) <= r.base \/ Secondary(k) < r.count
  PROVE  BaseKept(k)'
<1>1. /\ Allowance(k) \in Nat /\ Allowance(k)' = Allowance(k) /\ N \in Nat
      /\ Secondary(k) \in Nat /\ Total(k) \in Nat
      /\ Start(k) \in Nat /\ Start(k) + N <= Allowance(k) /\ Start(k) + 1 >= Ceiling[k[1]]
  <2>1. Allowance(k)' = Allowance(k)
    BY DEF Allowance, Start
  <2> QED  BY <2>1, AllowanceType, NType
<1>2. Second(k) \in SUBSET Threads /\ Flight(k)' \in SUBSET Threads
  BY DEF Flight, Second
<1>3. /\ Cardinality(Second(k)) \in Nat /\ Cardinality(Second(k)') \in Nat
      /\ Cardinality(Second(k)') <= Cardinality(Second(k))
      /\ Cardinality(Flight(k)') \in Nat /\ Cardinality(Flight(k)') <= N
  BY <1>2, SomeThreads, FewerThreads
<1>4. ASSUME NEW r \in Range(RateRules(rules)), r.name = k[1]
      PROVE  IF Total(k) <= r.base
               THEN Secondary(k) + Cardinality(Second(k)') + N <= Allowance(k)
               ELSE Secondary(k) + Cardinality(Flight(k)') <= Allowance(k)
  <2>1. r.base \in Int /\ r.count \in Nat /\ r.count <= Ceiling[k[1]] /\ Ceiling[k[1]] \in Nat
    BY <1>4, CurrentRule, RuleFacts DEF TypeInv
  <2>2. Total(k) <= r.base => Secondary(k) + Cardinality(Second(k)) + N <= Allowance(k)
    BY <1>4 DEF BaseKept
  <2>3. Total(k) <= r.base \/ Secondary(k) < r.count
    BY <1>4
  <2> QED  BY <1>1, <1>3, <2>1, <2>2, <2>3
<1>5. Total(k)' = Total(k) /\ Secondary(k)' = Secondary(k)
  BY DEF Total, Secondary
<1> QED  BY <1>1, <1>4, <1>5 DEF BaseKept

\* A request counts in the secondary counter.
LEMMA BaseCounts ==
  ASSUME TypeInv, TypeInv', NEW k \in Keys, BaseKept(k), UNCHANGED rules,
         lifetimes[k] > 0, lifetimes'[k] = lifetimes[k],
         NEW r \in Range(RateRules(rules)), r.name = k[1],
         NEW t \in Second(k), Second(k)' = Second(k) \ {t}, Flight(k)' = Flight(k) \ {t},
         Total(k)' = Total(k), Secondary(k)' = Secondary(k) + 1
  PROVE  BaseKept(k)'
<1>1. /\ Allowance(k) \in Nat /\ Allowance(k)' = Allowance(k) /\ N \in Nat
      /\ Secondary(k) \in Nat /\ Total(k) \in Nat
  <2>1. Allowance(k)' = Allowance(k)
    BY DEF Allowance, Start
  <2> QED  BY <2>1, AllowanceType, NType
<1>2. /\ IsFiniteSet(Second(k)) /\ IsFiniteSet(Flight(k)) /\ t \in Flight(k)
      /\ Cardinality(Second(k)) \in Nat /\ Cardinality(Flight(k)) \in Nat
  BY FlightType, SomeThreads
<1>3. /\ Cardinality(Second(k)') = Cardinality(Second(k)) - 1
      /\ Cardinality(Flight(k)') = Cardinality(Flight(k)) - 1
  BY <1>2, FS_RemoveElement
<1>4. ASSUME NEW s \in Range(RateRules(rules)), s.name = k[1]
      PROVE  IF Total(k) <= s.base
               THEN Secondary(k) + 1 + Cardinality(Second(k)') + N <= Allowance(k)
               ELSE Secondary(k) + 1 + Cardinality(Flight(k)') <= Allowance(k)
  <2>1. IF Total(k) <= s.base
          THEN Secondary(k) + Cardinality(Second(k)) + N <= Allowance(k)
          ELSE Secondary(k) + Cardinality(Flight(k)) <= Allowance(k)
    BY <1>4 DEF BaseKept
  <2> QED  BY <1>1, <1>2, <1>3, <2>1
<1> QED  BY <1>1, <1>4 DEF BaseKept

\* A thread that is on no update is neither in flight nor going to the secondary
\* counter; the others stay where they are.
LEMMA BaseOut ==
  ASSUME NEW t \in Threads, pc'[t] \notin {"update", "update2"},
         \A u \in Threads \ {t} : pc'[u] = pc[u] /\ rule'[u] = rule[u] /\ req'[u] = req[u]
  PROVE  \A k : Flight(k)' = Flight(k) \ {t} /\ Second(k)' = Second(k) \ {t}
BY DEF Flight, Second, Key

\* What an increment by t does to the total and secondary counters.
LEMMA BaseIncr ==
  ASSUME TypeInv, NEW t \in Threads, pc[t] \in Working, NEW p \in Purposes,
         counters' = IncrWithTTL(t, p)
  PROVE  \A k \in Keys :
           /\ Total(k)' = Total(k) + (IF p = "total" /\ k = Key(t) THEN 1 ELSE 0)
           /\ Secondary(k)' = Secondary(k) + (IF p = "secondary" /\ k = Key(t) THEN 1 ELSE 0)
<1>1. ASSUME NEW k \in Keys, NEW o \in {"total", "secondary"}
      PROVE  /\ counters[<<k, o>>] \in Nat
             /\ counters'[<<k, o>>] = IF p = o /\ k = Key(t) THEN counters[<<k, o>>] + 1 ELSE counters[<<k, o>>]
  <2>1. <<k, o>> \in CounterIds /\ counters \in [CounterIds -> Nat]
    BY DEF CounterIds, Purposes, TypeInv, TypeOK
  <2> QED  BY <2>1 DEF IncrWithTTL
<1> TAKE k \in Keys
<1>2. Total(k)' = Total(k) + (IF p = "total" /\ k = Key(t) THEN 1 ELSE 0)
  <2>1. /\ Total(k) \in Nat
        /\ Total(k)' = IF p = "total" /\ k = Key(t) THEN Total(k) + 1 ELSE Total(k)
    BY <1>1 DEF Total
  <2> QED  BY <2>1
<1>3. Secondary(k)' = Secondary(k) + (IF p = "secondary" /\ k = Key(t) THEN 1 ELSE 0)
  <2>1. /\ Secondary(k) \in Nat
        /\ Secondary(k)' = IF p = "secondary" /\ k = Key(t) THEN Secondary(k) + 1 ELSE Secondary(k)
    BY <1>1 DEF Secondary
  <2> QED  BY <2>1
<1> QED  BY <1>2, <1>3

LEMMA BaseThread ==
  ASSUME TypeInv, TypeInv', UniqueNames(rules), \A u \in Threads : Steady(u),
         \A k \in Keys : lifetimes[k] > 0 /\ BaseKept(k),
         NEW t \in Threads, ThreadStep(t)
  PROVE  \A k \in Keys : BaseKept(k)'
<1>0. /\ UNCHANGED <<rules, lifetimes>> /\ "allowed" \in Replies /\ "denied" \in Replies /\ "error" \in Replies
      /\ TypeOK /\ Steady(t)
  BY DEF ThreadStep, Arrive, Match, BrowseCount, BrowseTotal, BrowseSecondary, BrowseFails,
         UpdateCount, UpdateTotal, UpdateSecondary, UpdateFails, Return, Replies, TypeInv
<1>1. ASSUME \A u \in Threads \ {t} : pc'[u] = pc[u] /\ rule'[u] = rule[u] /\ req'[u] = req[u],
             pc'[t] \notin {"update", "update2"},
             \A k \in Keys : Total(k)' = Total(k) /\ Secondary(k)' = Secondary(k)
      PROVE  \A k \in Keys : BaseKept(k)'
  <2> TAKE k \in Keys
  <2>1. Flight(k)' \subseteq Flight(k) /\ Second(k)' \subseteq Second(k)
    BY <1>1, BaseOut
  <2>2. Total(k) <= Total(k)'
    BY <1>1, AllowanceType
  <2> QED  BY <1>0, <1>1, <2>1, <2>2, BaseOnward
<1>2. UNCHANGED counters => \A k \in Keys : Total(k)' = Total(k) /\ Secondary(k)' = Secondary(k)
  BY DEF Total, Secondary
<1>3. ASSUME NEW answer \in Replies, MethodReturns(t, answer), UNCHANGED rule
      PROVE  /\ pc'[t] \notin {"update", "update2"}
             /\ \A u \in Threads \ {t} : pc'[u] = pc[u] /\ rule'[u] = rule[u] /\ req'[u] = req[u]
  BY <1>0, <1>3, MethodReturnsEffect
<1>4. ASSUME NEW c \in Calls, NEW q \in Requests, Arrive(t, c, q)  PROVE \A k \in Keys : BaseKept(k)'
  <2>1. /\ pc'[t] \notin {"update", "update2"} /\ UNCHANGED counters
        /\ \A u \in Threads \ {t} : pc'[u] = pc[u] /\ rule'[u] = rule[u] /\ req'[u] = req[u]
    BY <1>4 DEF Arrive, TypeInv, TypeOK
  <2> QED  BY <1>1, <1>2, <2>1
<1>5. ASSUME Match(t)  PROVE \A k \in Keys : BaseKept(k)'
  <2>1. UNCHANGED counters
    BY <1>5 DEF Match
  <2>2. CASE \E answer \in Replies : MethodReturns(t, answer) /\ UNCHANGED rule
    BY <1>1, <1>2, <1>3, <2>1, <2>2
  <2>3. CASE /\ rule' = [rule EXCEPT ![t] = SelectedRule(rules, req[t])]
             /\ pc' = [pc EXCEPT ![t] = "browse"] /\ UNCHANGED req
    <3>1. /\ pc'[t] \notin {"update", "update2"}
          /\ \A u \in Threads \ {t} : pc'[u] = pc[u] /\ rule'[u] = rule[u] /\ req'[u] = req[u]
      BY <2>3 DEF TypeInv, TypeOK
    <3> QED  BY <1>1, <1>2, <2>1, <3>1
  <2> QED  BY <1>0, <1>5, <2>2, <2>3 DEF Match
<1>6. ASSUME BrowseCount(t)  PROVE \A k \in Keys : BaseKept(k)'
  <2>1. UNCHANGED <<counters, rule>> /\ rule[t].alg = "count"
    BY <1>6 DEF BrowseCount
  <2>2. CASE \E answer \in Replies : MethodReturns(t, answer)
    BY <1>1, <1>2, <1>3, <2>1, <2>2
  <2>3. CASE pc' = [pc EXCEPT ![t] = "update"] /\ UNCHANGED req
    <3>1. pc'[t] = "update" /\ \A u \in Threads \ {t} : pc'[u] = pc[u]
      BY <2>3 DEF TypeInv, TypeOK
    <3>2. ASSUME NEW k \in Keys  PROVE BaseKept(k)'
      <4>1. Flight(k)' \subseteq Flight(k) /\ Second(k)' \subseteq Second(k)
        BY <2>1, <2>3, <3>1 DEF Flight, Second, Key
      <4>2. Total(k)' = Total(k) /\ Secondary(k)' = Secondary(k) /\ Total(k) <= Total(k)'
        BY <1>2, <2>1, AllowanceType
      <4> QED  BY <1>0, <4>1, <4>2, BaseOnward
    <3> QED  BY <3>2
  <2> QED  BY <1>0, <1>6, <2>2, <2>3 DEF BrowseCount, NotHit
<1>7. ASSUME BrowseTotal(t) \/ BrowseSecondary(t)  PROVE \A k \in Keys : BaseKept(k)'
  <2>1. UNCHANGED <<counters, rule>> /\ pc[t] \in Working
    BY <1>7 DEF BrowseTotal, BrowseSecondary, Working
  <2>2. CASE \E answer \in Replies : MethodReturns(t, answer)
    BY <1>1, <1>2, <1>3, <2>1, <2>2
  <2>3. CASE pc' = [pc EXCEPT ![t] = "browse2"] /\ UNCHANGED req
    <3>1. /\ pc'[t] \notin {"update", "update2"}
          /\ \A u \in Threads \ {t} : pc'[u] = pc[u] /\ rule'[u] = rule[u] /\ req'[u] = req[u]
      BY <2>1, <2>3 DEF TypeInv, TypeOK
    <3> QED  BY <1>1, <1>2, <2>1, <3>1
  <2>4. CASE /\ pc' = [pc EXCEPT ![t] = "update"] /\ UNCHANGED req
             /\ Counter(t, "total") <= rule[t].base \/ ~(Counter(t, "secondary") >= rule[t].count)
    <3>0. pc'[t] = "update" /\ \A u \in Threads \ {t} : pc'[u] = pc[u]
      BY <2>4 DEF TypeInv, TypeOK
    <3>1. /\ rule[t] \in Range(RateRules(rules)) /\ rule[t].count \in Nat
          /\ Key(t) \in Keys /\ Key(t)[1] = rule[t].name
      BY <1>0, <2>1, SteadyKey
    <3>2. ASSUME NEW k \in Keys  PROVE BaseKept(k)'
      <4>1. Second(k)' \subseteq Second(k)
        BY <2>1, <2>4, <3>0 DEF Second, Key
      <4>2. CASE k = Key(t)
        <5>1. \A r \in Range(RateRules(rules)) : r.name = k[1] => r = rule[t]
          BY <3>1, <4>2 DEF UniqueNames
        <5>2. Secondary(k) \in Nat
          BY AllowanceType
        <5>3. Total(k) <= rule[t].base \/ Secondary(k) < rule[t].count
          BY <2>4, <3>1, <4>2, <5>2 DEF Total, Secondary, Counter
        <5> QED  BY <1>0, <2>1, <4>1, <5>1, <5>3, BaseJoins
      <4>3. CASE k # Key(t)
        <5>1. Flight(k)' \subseteq Flight(k)
          BY <2>1, <2>4, <3>0, <4>3 DEF Flight, Key
        <5>2. Total(k)' = Total(k) /\ Secondary(k)' = Secondary(k) /\ Total(k) <= Total(k)'
          BY <1>2, <2>1, AllowanceType
        <5> QED  BY <1>0, <4>1, <5>1, <5>2, BaseOnward
      <4> QED  BY <4>2, <4>3
    <3> QED  BY <3>2
  <2> QED  BY <1>0, <1>7, <2>2, <2>3, <2>4 DEF BrowseTotal, BrowseSecondary, NotHit
<1>8. ASSUME BrowseFails(t)  PROVE \A k \in Keys : BaseKept(k)'
  BY <1>0, <1>1, <1>2, <1>3, <1>8 DEF BrowseFails
<1>9. ASSUME counters' = IncrWithTTL(t, "count"), pc[t] \in Working, UNCHANGED rule,
             MethodReturns(t, "allowed")
      PROVE  \A k \in Keys : BaseKept(k)'
  <2>1. \A k \in Keys : Total(k)' = Total(k) /\ Secondary(k)' = Secondary(k)
    BY <1>9, BaseIncr, AllowanceType DEF Purposes
  <2> QED  BY <1>0, <1>1, <1>3, <1>9, <2>1
<1>10. ASSUME pc[t] = "update", rule[t].alg = "base", counters' = IncrWithTTL(t, "total"),
              UNCHANGED <<rule, req>>, \A u \in Threads \ {t} : pc'[u] = pc[u],
              pc'[t] \in {"match", "done"} \/ (pc'[t] = "update2" /\ Counter(t, "total") + 1 > rule[t].base)
       PROVE  \A k \in Keys : BaseKept(k)'
  <2>1. /\ rule[t] \in Range(RateRules(rules)) /\ Key(t) \in Keys /\ Key(t)[1] = rule[t].name
        /\ rule[t].base \in Int
    BY <1>0, <1>10, SteadyKey, RuleFacts DEF Working, TypeInv, RuleSelected
  <2> TAKE k \in Keys
  <2>2. /\ Total(k) \in Nat /\ Secondary(k) \in Nat
        /\ Total(k)' = Total(k) + (IF k = Key(t) THEN 1 ELSE 0) /\ Secondary(k)' = Secondary(k) + 0
    BY <1>10, BaseIncr, AllowanceType DEF Working, Purposes
  <2>3. Total(k) <= Total(k)' /\ Secondary(k)' = Secondary(k)
    BY <2>2
  <2>4. Flight(k)' \subseteq Flight(k)
    BY <1>10 DEF Flight, Key
  <2>5. ASSUME NEW r \in Range(RateRules(rules)), r.name = k[1], Total(k)' <= r.base
        PROVE  Second(k)' \subseteq Second(k)
    <3>1. CASE k = Key(t)
      <4>1. r = rule[t]
        BY <2>1, <2>5, <3>1 DEF UniqueNames
      <4>2. Counter(t, "total") + 1 <= rule[t].base
        BY <2>2, <2>5, <3>1, <4>1 DEF Total, Counter
      <4>3. pc'[t] # "update2"
        BY <1>10, <2>1, <2>2, <3>1, <4>2 DEF Total, Counter
      <4> QED  BY <1>10, <4>3 DEF Second, Key
    <3>2. CASE k # Key(t)
      BY <1>10, <3>2 DEF Second, Key
    <3> QED  BY <3>1, <3>2
  <2> QED  BY <1>0, <2>3, <2>4, <2>5, BaseOnward
<1>11. ASSUME pc[t] = "update2", counters' = IncrWithTTL(t, "secondary"), UNCHANGED rule,
              MethodReturns(t, "allowed")
       PROVE  \A k \in Keys : BaseKept(k)'
  <2>1. /\ rule[t] \in Range(RateRules(rules)) /\ Key(t) \in Keys /\ Key(t)[1] = rule[t].name
    BY <1>0, <1>11, SteadyKey DEF Working
  <2>2. pc'[t] \notin {"update", "update2"}
        /\ \A u \in Threads \ {t} : pc'[u] = pc[u] /\ rule'[u] = rule[u] /\ req'[u] = req[u]
    BY <1>0, <1>3, <1>11
  <2> TAKE k \in Keys
  <2>3. /\ Total(k) \in Nat /\ Secondary(k) \in Nat /\ Total(k)' = Total(k) + 0
        /\ Secondary(k)' = Secondary(k) + (IF k = Key(t) THEN 1 ELSE 0)
    BY <1>11, BaseIncr, AllowanceType DEF Working, Purposes
  <2>4. Flight(k)' = Flight(k) \ {t} /\ Second(k)' = Second(k) \ {t}
    BY <2>2, BaseOut
  <2>5. CASE k = Key(t)
    <3>1. t \in Second(k)
      BY <1>11, <2>5 DEF Second
    <3>2. Total(k)' = Total(k) /\ Secondary(k)' = Secondary(k) + 1
      BY <2>3, <2>5
    <3> QED  BY <1>0, <2>1, <2>4, <2>5, <3>1, <3>2, BaseCounts
  <2>6. CASE k # Key(t)
    <3>1. Secondary(k)' = Secondary(k) /\ Total(k) <= Total(k)'
      BY <2>3, <2>6
    <3> QED  BY <1>0, <2>4, <3>1, BaseOnward
  <2> QED  BY <2>5, <2>6
<1>12. ASSUME UpdateCount(t)  PROVE \A k \in Keys : BaseKept(k)'
  BY <1>9, <1>12 DEF UpdateCount, Working
<1>13. ASSUME UpdateTotal(t)  PROVE \A k \in Keys : BaseKept(k)'
  <2>1. /\ pc[t] = "update" /\ rule[t].alg = "base" /\ counters' = IncrWithTTL(t, "total") /\ UNCHANGED rule
    BY <1>13 DEF UpdateTotal
  <2>2. CASE MethodReturns(t, "allowed")
    <3>1. pc'[t] \in {"match", "done"} /\ UNCHANGED req /\ \A u \in Threads \ {t} : pc'[u] = pc[u]
      BY <1>0, <2>2, MethodReturnsEffect
    <3> QED  BY <1>10, <2>1, <3>1
  <2>3. CASE /\ Counter(t, "total") + 1 > rule[t].base /\ pc' = [pc EXCEPT ![t] = "update2"]
             /\ UNCHANGED req
    <3>1. pc'[t] = "update2" /\ \A u \in Threads \ {t} : pc'[u] = pc[u]
      BY <2>3 DEF TypeInv, TypeOK
    <3> QED  BY <1>10, <2>1, <2>3, <3>1
  <2> QED  BY <1>13, <2>2, <2>3 DEF UpdateTotal
<1>14. ASSUME UpdateSecondary(t)  PROVE \A k \in Keys : BaseKept(k)'
  BY <1>11, <1>14 DEF UpdateSecondary
<1>15. ASSUME UpdateFails(t)  PROVE \A k \in Keys : BaseKept(k)'
  <2>1. /\ pc[t] \in {"update", "update2"} /\ MethodReturns(t, "allowed") /\ UNCHANGED rule
        /\ counters' \in {counters, IncrWithTTL(t, UpdatedCounter(t))} /\ pc[t] \in Working
    BY <1>15 DEF UpdateFails, Working
  <2>2. CASE UNCHANGED counters
    BY <1>0, <1>1, <1>2, <1>3, <2>1, <2>2
  <2>3. CASE counters' = IncrWithTTL(t, "count")
    BY <1>9, <2>1, <2>3
  <2>4. CASE counters' = IncrWithTTL(t, "total") /\ pc[t] = "update" /\ rule[t].alg = "base"
    <3>1. pc'[t] \in {"match", "done"} /\ UNCHANGED req /\ \A u \in Threads \ {t} : pc'[u] = pc[u]
      BY <1>0, <2>1, MethodReturnsEffect
    <3> QED  BY <1>10, <2>1, <2>4, <3>1
  <2>5. CASE counters' = IncrWithTTL(t, "secondary") /\ pc[t] = "update2"
    BY <1>11, <2>1, <2>5
  <2>6. rule[t].alg \in {"count", "base"}
    BY <2>1, RuleFacts DEF TypeInv, RuleSelected
  <2> QED  BY <2>1, <2>2, <2>3, <2>4, <2>5, <2>6 DEF UpdatedCounter
<1>16. ASSUME Return(t)  PROVE \A k \in Keys : BaseKept(k)'
  <2>1. /\ pc'[t] \notin {"update", "update2"} /\ UNCHANGED counters
        /\ \A u \in Threads \ {t} : pc'[u] = pc[u] /\ rule'[u] = rule[u] /\ req'[u] = req[u]
    BY <1>16 DEF Return, TypeInv, TypeOK
  <2> QED  BY <1>1, <1>2, <2>1
<1> QED
  BY <1>4, <1>5, <1>6, <1>7, <1>8, <1>12, <1>13, <1>14, <1>15, <1>16 DEF ThreadStep

\* A lifetime of the total ends: the reserve for its next one is granted.
LEMMA BaseTotalElapses ==
  ASSUME TypeInv, TypeInv', NEW k \in Keys, BaseKept(k), UNCHANGED <<rules, pc, rule, req>>,
         lifetimes[k] > 0, lifetimes'[k] = lifetimes[k] + 1,
         Total(k)' = 0, Secondary(k)' = Secondary(k)
  PROVE  BaseKept(k)'
<1>1. /\ Allowance(k) \in Nat /\ N \in Nat /\ Secondary(k) \in Nat /\ Total(k) \in Nat
      /\ Allowance(k)' = Allowance(k) + N
  <2>1. N \in Nat /\ lifetimes[k] \in Nat /\ Start(k) \in Nat /\ Start(k)' = Start(k)
    BY NType, AllowanceType DEF TypeInv, TypeOK, Start
  <2>2. N * (lifetimes[k] + 1) = N * lifetimes[k] + N /\ N * lifetimes[k] \in Nat
    BY <2>1
  <2>3. Allowance(k)' = Start(k) + N * (lifetimes[k] + 1)
    BY <2>1 DEF Allowance
  <2> QED  BY <2>1, <2>2, <2>3, AllowanceType DEF Allowance
<1>2. Flight(k)' = Flight(k) /\ Second(k)' = Second(k)
  BY DEF Flight, Second, Key
<1>3. /\ Cardinality(Flight(k)) \in Nat /\ Cardinality(Second(k)) \in Nat
      /\ Cardinality(Second(k)) <= Cardinality(Flight(k))
  BY FlightType, SomeThreads, FewerThreads
<1>4. ASSUME NEW r \in Range(RateRules(rules)), r.name = k[1]
      PROVE  IF 0 <= r.base
               THEN Secondary(k) + Cardinality(Second(k)) + N <= Allowance(k) + N
               ELSE Secondary(k) + Cardinality(Flight(k)) <= Allowance(k) + N
  <2>1. r.base \in Int
    BY CurrentRule, RuleFacts DEF TypeInv
  <2>2. IF Total(k) <= r.base
          THEN Secondary(k) + Cardinality(Second(k)) + N <= Allowance(k)
          ELSE Secondary(k) + Cardinality(Flight(k)) <= Allowance(k)
    BY <1>4 DEF BaseKept
  <2> QED  BY <1>1, <1>3, <2>1, <2>2
<1> QED  BY <1>1, <1>2, <1>4 DEF BaseKept

\* The window of the secondary counter ends: those in flight count into the next.
LEMMA BaseSecondaryElapses ==
  ASSUME TypeInv, TypeInv', NEW k \in Keys, UNCHANGED rules, lifetimes'[k] = 1, Secondary(k)' = 0
  PROVE  BaseKept(k)'
<1>1. N \in Nat /\ Start(k) \in Nat /\ Start(k) >= N
  <2>1. N \in Nat /\ Ceiling[k[1]] \in Nat /\ N > 0
    BY NType, CeilingType
  <2> QED  BY <2>1 DEF Start
<1>2. Allowance(k)' = Start(k) + N
  <2>1. N * 1 = N /\ Start(k)' = Start(k)
    BY <1>1 DEF Start
  <2> QED  BY <2>1 DEF Allowance
<1>3. Flight(k)' \in SUBSET Threads /\ Second(k)' \in SUBSET Threads
  BY DEF Flight, Second
<1>4. /\ Cardinality(Flight(k)') \in Nat /\ Cardinality(Flight(k)') <= N
      /\ Cardinality(Second(k)') \in Nat /\ Cardinality(Second(k)') <= N
  BY <1>3, SomeThreads
<1>5. /\ 0 + Cardinality(Second(k)') + N <= Start(k) + N
      /\ 0 + Cardinality(Flight(k)') <= Start(k) + N
  BY <1>1, <1>4
<1> QED  BY <1>2, <1>5 DEF BaseKept

LEMMA BaseInit == Init => BaseInv
<1> SUFFICES ASSUME Init  PROVE BaseInv
  OBVIOUS
<1>1. TypeInv /\ GrantInv
  BY TypeInit, GrantInit
<1>2. \A k \in Keys : lifetimes[k] = 1 /\ Secondary(k) = 0
  BY DEF Init, Secondary, CounterIds, Purposes
<1>3. ASSUME NEW k \in Keys  PROVE BaseKept(k)
  <2>1. Flight(k) = {} /\ Second(k) = {} /\ Cardinality({}) = 0
    BY FS_EmptySet DEF Init, Flight, Second
  <2>2. Start(k) + N <= Allowance(k) /\ Allowance(k) \in Nat /\ Start(k) \in Nat /\ N \in Nat
    BY <1>1, <1>2, AllowanceType, NType
  <2> QED  BY <1>2, <2>1, <2>2 DEF BaseKept
<1> QED  BY <1>1, <1>2, <1>3 DEF BaseInv

LEMMA BaseStep == BaseInv /\ [Next]_vars => BaseInv'
<1> SUFFICES ASSUME BaseInv, [Next]_vars  PROVE BaseInv'
  OBVIOUS
<1>1. TypeInv /\ TypeInv' /\ GrantInv'
  BY GrantStep DEF BaseInv, GrantInv
<1>2. ASSUME NEW k \in Keys  PROVE lifetimes'[k] > 0
  <2>1. lifetimes[k] \in Nat /\ lifetimes[k] > 0
    BY <1>1 DEF BaseInv, TypeInv, TypeOK
  <2>2. ASSUME NEW j \in Keys, NEW p \in Purposes, WindowElapses(j, p)
        PROVE  lifetimes'[k] \in {lifetimes[k], lifetimes[k] + 1, 1}
    <3>1. \/ lifetimes' = [lifetimes EXCEPT ![j] = @ + 1]
          \/ lifetimes' = [lifetimes EXCEPT ![j] = 1]
          \/ lifetimes' = lifetimes
      BY <2>2 DEF WindowElapses, Purposes
    <3> QED  BY <1>1, <3>1 DEF TypeInv, TypeOK
  <2>3. UNCHANGED lifetimes \/ \E j \in Keys, p \in Purposes : WindowElapses(j, p)
    BY DEF Next, ThreadStep, Arrive, Match, BrowseCount, BrowseTotal, BrowseSecondary, BrowseFails,
           UpdateCount, UpdateTotal, UpdateSecondary, UpdateFails, Return, LoadRules, vars
  <2> QED  BY <2>1, <2>2, <2>3
<1>3. SUFFICES ASSUME Unmoved'  PROVE \A k \in Keys : BaseKept(k)'
  BY <1>1, <1>2 DEF BaseInv
<1>4. ASSUME Unmoved
      PROVE  /\ \A t \in Threads : Steady(t)
             /\ \A k \in Keys : lifetimes[k] > 0 /\ BaseKept(k)
  BY <1>4 DEF BaseInv, GrantInv
<1>5. ASSUME NEW t \in Threads, ThreadStep(t)  PROVE \A k \in Keys : BaseKept(k)'
  <2>1. UNCHANGED <<rules, reloads>>
    BY <1>5 DEF ThreadStep, Arrive, Match, BrowseCount, BrowseTotal, BrowseSecondary, BrowseFails,
         UpdateCount, UpdateTotal, UpdateSecondary, UpdateFails, Return
  <2>2. Unmoved
    BY <1>3, <2>1 DEF Unmoved, UniqueNames
  <2> QED  BY <1>1, <1>4, <1>5, <2>2, BaseThread DEF Unmoved
<1>6. ASSUME NEW j \in Keys, NEW p \in Purposes, WindowElapses(j, p)  PROVE \A k \in Keys : BaseKept(k)'
  <2>1. /\ UNCHANGED <<rules, reloads, pc, req, rule>>
        /\ counters' = [counters EXCEPT ![<<j, p>>] = 0]
    BY <1>6 DEF WindowElapses, threadVars
  <2>2. Unmoved
    BY <1>3, <2>1 DEF Unmoved, UniqueNames
  <2> TAKE k \in Keys
  <2>3. lifetimes[k] > 0 /\ BaseKept(k) /\ Total(k) \in Nat /\ Secondary(k) \in Nat
    BY <1>1, <1>4, <2>2, AllowanceType
  <2>4. /\ Total(k)' = IF k = j /\ p = "total" THEN 0 ELSE Total(k)
        /\ Secondary(k)' = IF k = j /\ p = "secondary" THEN 0 ELSE Secondary(k)
    BY <1>1, <2>1 DEF Total, Secondary, TypeInv, TypeOK, CounterIds, Purposes
  <2>5. CASE p = "total" /\ k = j
    <3>1. lifetimes'[k] = lifetimes[k] + 1
      BY <1>1, <1>6, <2>5 DEF WindowElapses, TypeInv, TypeOK
    <3> QED  BY <1>1, <2>1, <2>3, <2>4, <2>5, <3>1, BaseTotalElapses
  <2>6. CASE p = "secondary" /\ k = j
    <3>1. lifetimes'[k] = 1
      BY <1>1, <1>6, <2>6 DEF WindowElapses, TypeInv, TypeOK
    <3> QED  BY <1>1, <2>1, <2>4, <2>6, <3>1, BaseSecondaryElapses
  <2>7. CASE p = "count" \/ k # j
    <3>1. lifetimes'[k] = lifetimes[k]
      <4>1. \/ lifetimes' = [lifetimes EXCEPT ![j] = lifetimes[j] + 1]
            \/ lifetimes' = [lifetimes EXCEPT ![j] = 1]
            \/ lifetimes' = lifetimes
        BY <1>6 DEF WindowElapses, Purposes
      <4>2. p = "count" => lifetimes' = lifetimes
        BY <1>6 DEF WindowElapses
      <4> QED  BY <1>1, <2>7, <4>1, <4>2 DEF TypeInv, TypeOK
    <3>2. Flight(k)' = Flight(k) /\ Second(k)' = Second(k)
      BY <2>1 DEF Flight, Second, Key
    <3>3. Total(k)' = Total(k) /\ Secondary(k)' = Secondary(k) /\ Total(k) <= Total(k)'
      BY <2>3, <2>4, <2>7
    <3> QED  BY <1>1, <2>1, <2>3, <3>1, <3>2, <3>3, BaseOnward
  <2> QED  BY <2>5, <2>6, <2>7 DEF Purposes
<1>7. ASSUME NEW rs \in RuleSets, LoadRules(rs)  PROVE FALSE
  BY <1>1, <1>3, <1>7 DEF LoadRules, Unmoved, TypeInv, TypeOK
<1>8. CASE UNCHANGED vars
  <2>1. UNCHANGED <<rules, reloads, counters, pc, req, rule, lifetimes>>
    BY <1>8 DEF vars, threadVars
  <2>2. Unmoved
    BY <1>3, <2>1 DEF Unmoved, UniqueNames
  <2>3. ASSUME NEW k \in Keys
        PROVE  /\ Flight(k)' = Flight(k) /\ Second(k)' = Second(k) /\ Secondary(k)' = Secondary(k)
               /\ Total(k)' = Total(k) /\ Total(k) <= Total(k)' /\ lifetimes[k] > 0 /\ BaseKept(k)
    <3>1. lifetimes[k] > 0 /\ BaseKept(k) /\ Total(k) \in Nat
      BY <1>1, <1>4, <2>2, AllowanceType
    <3>2. Flight(k)' = Flight(k) /\ Second(k)' = Second(k)
      BY <2>1 DEF Flight, Second, Key
    <3>3. Secondary(k)' = Secondary(k) /\ Total(k)' = Total(k)
      BY <2>1 DEF Total, Secondary
    <3> QED  BY <3>1, <3>2, <3>3
  <2> QED  BY <1>1, <2>1, <2>3, BaseOnward
<1> QED  BY <1>5, <1>6, <1>7, <1>8 DEF Next

\* The two counters of a base rule expire on their own (base.go:55); the secondary
\* one holds no more than a look at it allows, and one request per thread for each
\* lifetime of the total.
THEOREM SecondaryIsBounded == Spec => []BaseBound
<1>1. BaseInv => BaseBound
  <2>1. ASSUME BaseInv, Unmoved, NEW k \in Keys
        PROVE  counters[<<k, "secondary">>] <= Start(k) + N * lifetimes[k]
    <3>1. /\ TypeInv /\ lifetimes[k] > 0 /\ BaseKept(k)
      BY <2>1 DEF BaseInv, GrantInv
    <3>2. Allowance(k) \in Nat /\ Secondary(k) \in Nat /\ N \in Nat
          /\ Cardinality(Second(k)) \in Nat /\ Cardinality(Flight(k)) \in Nat
      BY <3>1, AllowanceType, FlightType, SomeThreads, NType
    <3>3. Secondary(k) <= Allowance(k)
      <4>1. CASE \A r \in Range(RateRules(rules)) : r.name # k[1]
        BY <3>1, <3>2, <4>1 DEF BaseKept
      <4>2. ASSUME NEW r \in Range(RateRules(rules)), r.name = k[1]  PROVE Secondary(k) <= Allowance(k)
        BY <3>1, <3>2, <4>2 DEF BaseKept
      <4> QED  BY <4>1, <4>2
    <3> QED  BY <3>3 DEF Secondary, Allowance
  <2> QED  BY <2>1 DEF BaseBound, Unmoved, Start
<1> QED  BY <1>1, BaseInit, BaseStep, PTL DEF Spec
==============================================================================
