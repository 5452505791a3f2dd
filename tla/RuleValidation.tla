---------------------------- MODULE RuleValidation ----------------------------
(***************************************************************************)
(* The thorough ValidateRules of internal/config/validate.go, beside the   *)
(* validateRules that LoadRules calls (RuleLoading).  Of a decoded file it *)
(* looks at three things more:                                             *)
(*    flawed   the results with a negative code or without a message       *)
(*    dicts    the names of the dictionaries the file defines              *)
(* and, of an access rule, dicts: the dictionaries its conditions name.    *)
(***************************************************************************)
EXTENDS RuleLoading

CONSTANT SemVers   \* the versions of the form 1.0.0

ASSUME SemVersAssumption == "" \notin SemVers

ValidateMeta(c) == c.version \in SemVers

ValidateResults(c) == c.results # {} /\ c.flawed = {}

ValidateSingleAccessRule(r, c) ==
  /\ r.name # ""
  /\ r.match
  /\ r.dicts \subseteq c.dicts
  /\ r.result # "" /\ r.result \in c.results

\* Mutant: a count of zero passes.
ValidateSingleRateRuleOrZero(r, c) ==
  /\ r.name # ""
  /\ r.type \in Types
  /\ r.match
  /\ r.time > 0 /\ r.count >= 0
  /\ r.result # "" /\ r.result \in c.results

ValidateSingleRateRule(r, c) ==
  /\ r.name # ""
  /\ r.type \in Types
  /\ r.match
  /\ r.time > 0 /\ r.count > 0
  /\ r.result # "" /\ r.result \in c.results

ValidateRules(c) ==
  /\ ValidateMeta(c) /\ ValidateResults(c)
  /\ \A p \in AccessPhases : \A i \in 1..Len(c[p]) : ValidateSingleAccessRule(c[p][i], c)
  /\ \A p \in RatePhases : \A i \in 1..Len(c[p]) : ValidateSingleRateRule(c[p][i], c)

-------------------------------------------------------------------------------
(* Properties.                                                             *)

\* There are two validators of one file, written apart: validateRules, which runs,
\* and ValidateRules (validate.go:258), which only checks a file beforehand.  What
\* the second passes the first does too, and the engine takes it: nobody is told
\* that a file is sound which a reload then refuses.
ValidatedRulesLoad ==
  file # NotToml /\ ValidateRules(file) => Loads(file) /\ Builds(file)
===============================================================================
