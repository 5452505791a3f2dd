-------------------------------- MODULE Engine --------------------------------
(***************************************************************************)
(* The rule engine (internal/engine/engine.go) as the API drives it        *)
(* through the adapter of cmd/koala/main.go, with the counting algorithms  *)
(* "count" (count.go) and "base" (base.go), over a storage whose single    *)
(* operations are atomic but may fail.                                     *)
(*                                                                         *)
(* Each thread serves one API call at a time:                              *)
(*    "Browse"        EngineAdapter.Browse without update                  *)
(*    "BrowseUpdate"  EngineAdapter.Browse with update = true              *)
(*    "Update"        EngineAdapter.Update                                 *)
(* Every storage operation is a step of its own, so the other threads, a   *)
(* hot reload, the expiry of a window and a storage failure may come       *)
(* between the check of a limit and the update of its counter.             *)
(*                                                                         *)
(* Time is abstract: WindowElapses removes a counter at any moment, which  *)
(* is what the expiry of its TTL does.  Counter 0 stands for "no such      *)
(* key": a counter is born of an increment, and every limit is positive    *)
(* (validateRateRule), so GetInt's ErrKeyNotFound and 0 decide alike.      *)
(***************************************************************************)
EXTENDS RuleSet, Integers, FiniteSets, Functions

CONSTANTS Threads,      \* goroutines serving API calls
          Requests,     \* the requests clients send
          RuleSets,     \* the rule sets a reload may install
          Ceiling,      \* per rule name: no version of the rule has a larger count
          MaxFaults,    \* bound: failed storage operations
          MaxElapses,   \* bound: windows that end
          MaxReloads    \* bound: hot reloads

AllRateRules == UNION {Range(RateRules(rs)) : rs \in RuleSets}
Keys == {GenerateKey(r, q) : r \in AllRateRules, q \in Requests}
Purposes == {"count", "total", "secondary"}
CounterIds == Keys \X Purposes

ASSUME ThreadsAssumption == IsFiniteSet(Threads) /\ Threads # {}

\* What loading guarantees of every rate rule (RuleLoading!RulesWellFormed).
ASSUME RulesAssumption ==
  /\ \A rs \in RuleSets : RateRules(rs) \in Seq(Range(RateRules(rs)))
  /\ \A r \in AllRateRules : /\ r.alg \in {"count", "base"}
                             /\ r.count \in Nat \ {0}
                             /\ r.base \in Int
                             /\ Ceiling[r.name] \in Nat
                             /\ r.count <= Ceiling[r.name]

ASSUME BoundsAssumption ==
  MaxFaults \in Nat /\ MaxElapses \in Nat /\ MaxReloads \in Nat

Calls == {"Browse", "BrowseUpdate", "Update"}
PCs == {"idle", "match", "browse", "browse2", "update", "update2", "done"}
Replies == {"none", "allowed", "denied", "error"}
NoRule == [name |-> "none", alg |-> "none"]
NoKey == <<"none">>

VARIABLES rules,     \* Engine.rules, the current rule set
          counters,  \* the storage
          pc, call, req,
          inner,     \* the engine method running: "browse" or "check"
          rule,      \* the rate rule selected from the snapshot
          reply,     \* what the adapter answers
          passed,    \* history: count key whose Browse allowed a BrowseUpdate
          granted,   \* history: BrowseUpdates granted per count key in the window
          lifetimes, \* history: lifetimes of the total that met the secondary's window
          faults, elapses, reloads

threadVars == <<pc, call, req, inner, rule, reply, passed>>
vars == <<rules, counters, threadVars, granted, lifetimes, faults, elapses, reloads>>

TypeOK ==
  /\ rules \in RuleSets
  /\ counters \in [CounterIds -> Nat]
  /\ pc \in [Threads -> PCs]
  /\ call \in [Threads -> Calls]
  /\ req \in [Threads -> Requests]
  /\ inner \in [Threads -> {"browse", "check"}]
  /\ rule \in [Threads -> AllRateRules \cup {NoRule}]
  /\ reply \in [Threads -> Replies]
  /\ passed \in [Threads -> Keys \cup {NoKey}]
  /\ granted \in [Keys -> Nat]
  /\ lifetimes \in [Keys -> Nat]
  /\ faults \in Nat /\ elapses \in Nat /\ reloads \in Nat

Init ==
  /\ rules \in RuleSets
  /\ counters = [c \in CounterIds |-> 0]
  /\ pc = [t \in Threads |-> "idle"]
  /\ call = [t \in Threads |-> "Browse"]
  /\ req \in {[t \in Threads |-> q] : q \in Requests}
  /\ inner = [t \in Threads |-> "browse"]
  /\ rule = [t \in Threads |-> NoRule]
  /\ reply = [t \in Threads |-> "none"]
  /\ passed = [t \in Threads |-> NoKey]
  /\ granted = [k \in Keys |-> 0]
  /\ lifetimes = [k \in Keys |-> 1]
  /\ faults = 0 /\ elapses = 0 /\ reloads = 0

Key(t) == GenerateKey(rule[t], req[t])
Counter(t, purpose) == counters[<<Key(t), purpose>>]
IncrWithTTL(t, purpose) == [counters EXCEPT ![<<Key(t), purpose>>] = @ + 1]

-------------------------------------------------------------------------------
(* How an engine method returns to the adapter.                            *)

\* History: a BrowseUpdate whose inner Check is over has been granted.
Settle(t) ==
  /\ granted' = IF passed[t] = NoKey THEN granted
                ELSE [granted EXCEPT ![passed[t]] = @ + 1]
  /\ passed' = [passed EXCEPT ![t] = NoKey]

\* The first engine method of a call has answered `answer`.  Only Browse with
\* update = true goes on, and only when the answer is "allowed": it runs
\* Check on the same request.
BrowseReturns(t, answer) ==
  /\ inner[t] = "browse"
  /\ reply' = [reply EXCEPT ![t] = answer]
  /\ IF call[t] = "BrowseUpdate" /\ answer = "allowed"
       THEN /\ inner' = [inner EXCEPT ![t] = "check"]
            /\ pc' = [pc EXCEPT ![t] = "match"]
            /\ passed' = [passed EXCEPT ![t] = IF rule[t].alg = "count" THEN Key(t) ELSE NoKey]
       ELSE /\ pc' = [pc EXCEPT ![t] = "done"]
            /\ UNCHANGED <<inner, passed>>
  /\ UNCHANGED granted

\* Check has answered.  Under Browse with update = true both its response and
\* its error are dropped: the Browse answer stands.  Update drops the response, so
\* a refused update is answered like one that counted.
CheckReturns(t, answer) ==
  /\ inner[t] = "check"
  /\ pc' = [pc EXCEPT ![t] = "done"]
  /\ reply' = IF call[t] = "Update"
                THEN [reply EXCEPT ![t] = IF answer = "error" THEN "error" ELSE "allowed"]
                ELSE reply
  /\ Settle(t)
  /\ UNCHANGED inner

MethodReturns(t, answer) ==
  (BrowseReturns(t, answer) \/ CheckReturns(t, answer)) /\ UNCHANGED <<call, req>>

-------------------------------------------------------------------------------
(* matchRules, one action per step.                                        *)

\* A handler has bound a request and calls the adapter; one it cannot bind is
\* answered without the engine.
Arrive(t, c, q) ==
  /\ pc[t] = "idle"
  /\ pc' = [pc EXCEPT ![t] = "match"]
  /\ call' = [call EXCEPT ![t] = c]
  /\ req' = [req EXCEPT ![t] = q]
  /\ inner' = [inner EXCEPT ![t] = IF c = "Update" THEN "check" ELSE "browse"]
  /\ reply' = [reply EXCEPT ![t] = "none"]
  /\ rule' = [rule EXCEPT ![t] = NoRule]
  /\ UNCHANGED <<rules, counters, passed, granted, lifetimes, faults, elapses, reloads>>

\* The rule set is loaded once per engine method; the access rules and the
\* choice of the rate rule need no storage.
Match(t) ==
  /\ pc[t] = "match"
  /\ \/ /\ Whitelisted(rules, req[t])
        /\ MethodReturns(t, "allowed")
        /\ UNCHANGED rule
     \/ /\ Blacklisted(rules, req[t])
        /\ MethodReturns(t, "denied")
        /\ UNCHANGED rule
     \/ /\ RateLimited(rules, req[t])
        /\ rule' = [rule EXCEPT ![t] = SelectedRule(rules, req[t])]
        /\ pc' = [pc EXCEPT ![t] = "browse"]
        /\ UNCHANGED <<call, req, inner, reply, passed, granted>>
     \/ /\ ~Whitelisted(rules, req[t])
        /\ ~Blacklisted(rules, req[t])
        /\ ~RateLimited(rules, req[t])
        /\ MethodReturns(t, "allowed")
        /\ UNCHANGED rule
  /\ UNCHANGED <<rules, counters, lifetimes, faults, elapses, reloads>>

\* The rule was not hit: Check goes on to update, Browse returns.
NotHit(t) ==
  \/ /\ inner[t] = "check"
     /\ pc' = [pc EXCEPT ![t] = "update"]
     /\ UNCHANGED <<call, req, inner, reply, passed, granted>>
  \/ /\ inner[t] = "browse"
     /\ MethodReturns(t, "allowed")

\* Mutant: the limit is compared with > instead of >=.
BrowseCountOffByOne(t) ==
  /\ pc[t] = "browse"
  /\ rule[t].alg = "count"
  /\ IF Counter(t, "count") > rule[t].count THEN MethodReturns(t, "denied") ELSE NotHit(t)
  /\ UNCHANGED <<rules, counters, rule, lifetimes, faults, elapses, reloads>>

BrowseCount(t) ==
  /\ pc[t] = "browse"
  /\ rule[t].alg = "count"
  /\ IF Counter(t, "count") >= rule[t].count THEN MethodReturns(t, "denied") ELSE NotHit(t)
  /\ UNCHANGED <<rules, counters, rule, lifetimes, faults, elapses, reloads>>

BrowseTotal(t) ==
  /\ pc[t] = "browse"
  /\ rule[t].alg = "base"
  /\ IF Counter(t, "total") <= rule[t].base
       THEN NotHit(t)
       ELSE /\ pc' = [pc EXCEPT ![t] = "browse2"]
            /\ UNCHANGED <<call, req, inner, reply, passed, granted>>
  /\ UNCHANGED <<rules, counters, rule, lifetimes, faults, elapses, reloads>>

\* Mutant: the secondary limit is compared with > instead of >=.
BrowseSecondaryOffByOne(t) ==
  /\ pc[t] = "browse2"
  /\ IF Counter(t, "secondary") > rule[t].count THEN MethodReturns(t, "denied") ELSE NotHit(t)
  /\ UNCHANGED <<rules, counters, rule, lifetimes, faults, elapses, reloads>>

BrowseSecondary(t) ==
  /\ pc[t] = "browse2"
  /\ IF Counter(t, "secondary") >= rule[t].count THEN MethodReturns(t, "denied") ELSE NotHit(t)
  /\ UNCHANGED <<rules, counters, rule, lifetimes, faults, elapses, reloads>>

\* A read of the storage fails: the method returns the error.
BrowseFails(t) ==
  /\ pc[t] \in {"browse", "browse2"}
  /\ faults < MaxFaults
  /\ faults' = faults + 1
  /\ MethodReturns(t, "error")
  /\ UNCHANGED <<rules, counters, rule, lifetimes, elapses, reloads>>

UpdateCount(t) ==
  /\ pc[t] = "update"
  /\ rule[t].alg = "count"
  /\ counters' = IncrWithTTL(t, "count")
  /\ MethodReturns(t, "allowed")
  /\ UNCHANGED <<rules, rule, lifetimes, faults, elapses, reloads>>

UpdateTotal(t) ==
  /\ pc[t] = "update"
  /\ rule[t].alg = "base"
  /\ counters' = IncrWithTTL(t, "total")
  /\ IF Counter(t, "total") + 1 > rule[t].base
       THEN /\ pc' = [pc EXCEPT ![t] = "update2"]
            /\ UNCHANGED <<call, req, inner, reply, passed, granted>>
       ELSE MethodReturns(t, "allowed")
  /\ UNCHANGED <<rules, rule, lifetimes, faults, elapses, reloads>>

UpdateSecondary(t) ==
  /\ pc[t] = "update2"
  /\ counters' = IncrWithTTL(t, "secondary")
  /\ MethodReturns(t, "allowed")
  /\ UNCHANGED <<rules, rule, lifetimes, faults, elapses, reloads>>

\* An increment reports an error, whether or not it took effect (a reply may be
\* lost): the error is logged and the request allowed.  An error of the total's
\* increment also skips the one of the secondary counter.
UpdatedCounter(t) ==
  IF pc[t] = "update2" THEN "secondary"
  ELSE IF rule[t].alg = "count" THEN "count" ELSE "total"

\* Mutant: a failed increment is taken back, whether or not it took effect.
UpdateFailsAndUndoes(t) ==
  /\ pc[t] \in {"update", "update2"}
  /\ faults < MaxFaults
  /\ faults' = faults + 1
  /\ counters' = [counters EXCEPT ![<<Key(t), UpdatedCounter(t)>>] = @ - 1]
  /\ MethodReturns(t, "allowed")
  /\ UNCHANGED <<rules, rule, lifetimes, elapses, reloads>>

\* Mutant: a failed increment that did take effect is retried.
UpdateFailsAndRetries(t) ==
  /\ pc[t] \in {"update", "update2"}
  /\ faults < MaxFaults
  /\ faults' = faults + 1
  /\ counters' = [counters EXCEPT ![<<Key(t), UpdatedCounter(t)>>] = @ + 2]
  /\ MethodReturns(t, "allowed")
  /\ UNCHANGED <<rules, rule, lifetimes, elapses, reloads>>

UpdateFails(t) ==
  /\ pc[t] \in {"update", "update2"}
  /\ faults < MaxFaults
  /\ faults' = faults + 1
  /\ counters' \in {counters, IncrWithTTL(t, UpdatedCounter(t))}
  /\ MethodReturns(t, "allowed")
  /\ UNCHANGED <<rules, rule, lifetimes, elapses, reloads>>

\* The adapter's answer, or its error, becomes the HTTP response.
Return(t) ==
  /\ pc[t] = "done"
  /\ pc' = [pc EXCEPT ![t] = "idle"]
  /\ UNCHANGED <<rules, counters, call, req, inner, rule, reply, passed, granted,
                 lifetimes, faults, elapses, reloads>>

-------------------------------------------------------------------------------
(* The environment: expiring keys and hot reload.                          *)

WindowElapses(k, purpose) ==
  /\ counters[<<k, purpose>>] > 0
  /\ elapses < MaxElapses
  /\ elapses' = elapses + 1
  /\ counters' = [counters EXCEPT ![<<k, purpose>>] = 0]
  /\ granted' = IF purpose = "count" THEN [granted EXCEPT ![k] = 0] ELSE granted
  /\ lifetimes' = CASE purpose = "total" -> [lifetimes EXCEPT ![k] = @ + 1]
                  [] purpose = "secondary" -> [lifetimes EXCEPT ![k] = 1]
                  [] OTHER -> lifetimes
  /\ UNCHANGED <<rules, threadVars, faults, reloads>>

\* Engine.LoadRules: a rule set that builds replaces the current one whole.
LoadRules(rs) ==
  /\ rs # rules
  /\ reloads < MaxReloads
  /\ reloads' = reloads + 1
  /\ rules' = rs
  /\ UNCHANGED <<counters, threadVars, granted, lifetimes, faults, elapses>>

ThreadStep(t) ==
  \/ \E c \in Calls, q \in Requests : Arrive(t, c, q)
  \/ Match(t)
  \/ BrowseCount(t) \/ BrowseTotal(t) \/ BrowseSecondary(t) \/ BrowseFails(t)
  \/ UpdateCount(t) \/ UpdateTotal(t) \/ UpdateSecondary(t) \/ UpdateFails(t)
  \/ Return(t)

Next ==
  \/ \E t \in Threads : ThreadStep(t)
  \/ \E k \in Keys, p \in Purposes : WindowElapses(k, p)
  \/ \E rs \in RuleSets : LoadRules(rs)

Spec == Init /\ [][Next]_vars

-------------------------------------------------------------------------------
(* Properties.                                                             *)

N == Cardinality(Threads)

\* Check reads the counter and increments it in two storage operations, so
\* requests that pass the limit together exceed the "count" of the rule (the
\* comment on LimitConfig.Count, rule.go:64).  What that costs is bounded: in one
\* window a counter passes the largest limit any version of its rule had by at
\* most one request per other thread, whatever the reloads, failures and
\* expiries in between.
CounterBound ==
  \A k \in Keys : counters[<<k, "count">>] <= Ceiling[k[1]] + N - 1

\* The same bound holds of what clients are told: Browse with update = true
\* answers from its first look at the counter, before it counts, yet within one
\* window it grants no more than the limit, one request per other thread, and
\* one per storage operation that failed.  It takes that both looks are at the same
\* rule: that no reload moves it, and that all who count under its name judge by
\* it.  The configuration reference asks for unique names (:479), but a file with
\* two rules of one name loads; then those the one rule refuses on the second look
\* have been granted while the other goes on.
UniqueNames(rs) == \A r, s \in Range(RateRules(rs)) : r.name = s.name => r = s

GrantBound ==
  reloads = 0 /\ UniqueNames(rules) =>
    \A k \in Keys : granted[k] <= Ceiling[k[1]] + N - 1 + faults

\* A base rule's free allowance is judged by the total counter, its limit by the
\* secondary one, and the two expire on their own.  A total that starts over lets
\* one request per thread through without a look at the secondary counter, and the
\* requests already past both looks when the secondary counter expires count into
\* its next window.  What a window of the secondary counter can hold is bounded
\* all the same: by the limit or the threads, whichever is larger, and by one
\* request per thread for each lifetime of the total that meets that window.  As
\* for GrantBound the rule must be one, and stay.
BaseBound ==
  reloads = 0 /\ UniqueNames(rules) =>
    \A k \in Keys :
      LET start == IF Ceiling[k[1]] > N THEN Ceiling[k[1]] - 1 ELSE N
      IN  counters[<<k, "secondary">>] <= start + N * lifetimes[k]

\* What the limiter promises of its counters: every key's counter is a budget
\* that refills whole when its window ends and is drawn one unit at a time.
Budget == INSTANCE RateBudget WITH
            Capacity <- [k \in Keys |-> Ceiling[k[1]] + N - 1],
            used <- [k \in Keys |-> counters[<<k, "count">>]]
ImplementsRateBudget == Budget!Spec
==============================================================================
