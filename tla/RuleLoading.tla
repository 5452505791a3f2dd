----------------------------- MODULE RuleLoading -----------------------------
(***************************************************************************)
(* From the rules file to the engine: LoadRules and validateRules of       *)
(* internal/config/rules.go, BuildRuleSet of internal/engine/rule.go and   *)
(* LoadRules of internal/engine/engine.go.                                 *)
(*                                                                         *)
(* A decoded file is a record                                              *)
(*    [version, results, whitelist, blacklist, business, post, advanced,   *)
(*     default]                                                            *)
(* of strings, a set of result names, and sequences of rules, one per      *)
(* phase; a file that does not decode is NotToml.  Of a rule's conditions  *)
(* only whether it has any is kept.                                        *)
(***************************************************************************)
EXTENDS Integers, Sequences

CONSTANTS Configs,  \* what the rules file may hold
          NotToml

AccessPhases == {"whitelist", "blacklist"}
RatePhases == {"business", "post", "advanced", "default"}
Types == {"count", "freq", "accumulate"}

RuleFields(r) == /\ r.match \in BOOLEAN
                 /\ r.time \in Int /\ r.count \in Int /\ r.base \in Int

ASSUME ConfigsAssumption ==
  /\ NotToml \notin Configs
  /\ \A c \in Configs, p \in RatePhases :
       Len(c[p]) \in Nat /\ \A i \in 1..Len(c[p]) : RuleFields(c[p][i])

VARIABLES file,    \* the content of the rules file
          rules,   \* Engine.rules
          source   \* history: what the rules file held when the engine took it

vars == <<file, rules, source>>

-------------------------------------------------------------------------------
(* validateRules.                                                          *)

\* Mutant: the result of an access rule is not looked up.
ValidAccessRuleAnyResult(r, results) == r.name # "" /\ r.match /\ r.result # ""

ValidAccessRule(r, results) ==
  /\ r.name # ""
  /\ r.match
  /\ r.result # "" /\ r.result \in results

\* Mutant: the type is left to buildRateRule, which has a default.
ValidRateRuleAnyType(r, results) ==
  /\ r.name # ""
  /\ r.match
  /\ r.count > 0 /\ r.time > 0
  /\ r.result # "" /\ r.result \in results

\* Of the base nothing is asked.
ValidRateRule(r, results) ==
  /\ r.name # ""
  /\ r.type \in Types
  /\ r.match
  /\ r.count > 0 /\ r.time > 0
  /\ r.result # "" /\ r.result \in results

ValidRules(c) ==
  /\ c.version # ""
  /\ \A p \in AccessPhases : \A i \in 1..Len(c[p]) : ValidAccessRule(c[p][i], c.results)
  /\ \A p \in RatePhases : \A i \in 1..Len(c[p]) : ValidRateRule(c[p][i], c.results)

\* config.LoadRules.
Loads(c) == c # NotToml /\ ValidRules(c)

-------------------------------------------------------------------------------
(* BuildRuleSet.                                                           *)

\* The algorithm of each type; an unknown one would be counted.
Algorithm(type) == CASE type = "freq" -> "leak"
                     [] type = "accumulate" -> "base"
                     [] OTHER -> "count"

BuildAccessRule(r) == [name |-> r.name, alg |-> "direct", result |-> r.result]
BuildRateRule(r) == [name |-> r.name, alg |-> Algorithm(r.type), time |-> r.time,
                     count |-> r.count, base |-> r.base, result |-> r.result]

\* It fails on a rule whose result is not defined, and only then.
Builds(c) ==
  \A p \in AccessPhases \cup RatePhases : \A i \in 1..Len(c[p]) : c[p][i].result \in c.results

BuildRuleSet(c) ==
  [p \in AccessPhases \cup RatePhases |->
     [i \in 1..Len(c[p]) |-> IF p \in AccessPhases THEN BuildAccessRule(c[p][i])
                                                   ELSE BuildRateRule(c[p][i])]]

EmptyRuleSet == [p \in AccessPhases \cup RatePhases |-> <<>>]
-------------------------------------------------------------------------------
Init == file \in Configs \cup {NotToml} /\ rules = EmptyRuleSet /\ source = NotToml

Save(c) == file' = c /\ UNCHANGED <<rules, source>>

\* A file that does not load, or does not build, leaves the engine as it is.
Load ==
  /\ Loads(file)
  /\ Builds(file)
  /\ rules' = BuildRuleSet(file) /\ source' = file
  /\ UNCHANGED file

Next == Load \/ \E c \in Configs \cup {NotToml} : Save(c)

Spec == Init /\ [][Next]_vars
-------------------------------------------------------------------------------
(* Properties.                                                             *)

\* The documented types of rate rules (03-CORE-ALGORITHMS.md:14) and the algorithms
\* that count them.
Counted == [count |-> "count", freq |-> "leak", accumulate |-> "base"]

\* r is what the engine makes of a rule as it is written in a file with these results.
WellFormed(r, written, results) ==
  /\ r.name = written.name /\ r.name # ""
  /\ r.result = written.result /\ r.result \in results
  /\ written.type \in DOMAIN Counted /\ r.alg = Counted[written.type]
  /\ r.count \in Nat \ {0} /\ r.time \in Nat \ {0}
  /\ r.base = written.base

\* The types a rule may have are listed twice, in validateRateRule and in buildRateRule,
\* which counts a type it does not know as "count".  Whatever the rules file has
\* held, the rate rules the engine has are those of one file, phase by phase and in
\* their order, none of an unknown type, each counted by the algorithm of its type
\* with a positive limit over a positive time.  Engine's assumption about its
\* rules rests on this; of the base neither asks anything: validateRateRule lets a
\* negative one pass, and Engine's BaseBound holds of every integer.
RulesWellFormed ==
  \A p \in RatePhases :
    /\ source = NotToml => rules[p] = <<>>
    /\ source # NotToml =>
         /\ Len(rules[p]) = Len(source[p])
         /\ \A i \in 1..Len(rules[p]) : WellFormed(rules[p][i], source[p][i], source.results)

\* The two checks of a rule's result, one when the file is validated and one when
\* the rule set is built, agree: a file that loads always builds, so a reload is
\* refused before the engine is asked.
LoadedRulesBuild == file # NotToml /\ ValidRules(file) => Builds(file)
==============================================================================
