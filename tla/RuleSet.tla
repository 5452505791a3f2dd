------------------------------- MODULE RuleSet -------------------------------
(***************************************************************************)
(* How a rule set decides a request: internal/engine/rule.go and the       *)
(* matching loop of internal/engine/engine.go (matchRules).                *)
(*                                                                         *)
(* A request is a function from field names to values.  A compiled matcher *)
(* is abstracted to the set of field values it accepts, so a rule is a     *)
(* record                                                                  *)
(*    [name, match : field -> set of values, alg, count, base, allow]      *)
(* and a rule set a record of six sequences of rules, one per phase.       *)
(***************************************************************************)
EXTENDS Naturals, Sequences

\* Every condition of the rule holds of the request; fields the rule does
\* not name are not looked at.
Matches(rule, req) == \A f \in DOMAIN rule.match : req[f] \in rule.match[f]

\* The storage key: the rule's name and the request's values of the fields
\* the rule names.  Two rules with one name and the same fields share it.
\* The code joins them with ":" and "=", which keeps different pairs apart as
\* long as names and values contain neither.
GenerateKey(rule, req) == <<rule.name, [f \in DOMAIN rule.match |-> req[f]]>>

AnyMatch(rules, req) == \E i \in DOMAIN rules : Matches(rules[i], req)

IsFirstMatch(rules, req, i) ==
  Matches(rules[i], req) /\ \A j \in DOMAIN rules : Matches(rules[j], req) => i <= j

FirstMatch(rules, req) ==
  rules[CHOOSE i \in DOMAIN rules : IsFirstMatch(rules, req, i)]

\* The four phases of rate rules, in the order matchRules walks them.
RateRules(rs) == rs.business \o rs.post \o rs.advanced \o rs.default

\* What matchRules does before it needs the storage: a whitelisted request is
\* allowed, else a blacklisted one is refused, else the first matching rate
\* rule is to be consulted, else the request is allowed.
Whitelisted(rs, req) == AnyMatch(rs.whitelist, req)
Blacklisted(rs, req) == ~Whitelisted(rs, req) /\ AnyMatch(rs.blacklist, req)
RateLimited(rs, req) ==
  /\ ~Whitelisted(rs, req)
  /\ ~Blacklisted(rs, req)
  /\ AnyMatch(RateRules(rs), req)

SelectedRule(rs, req) == FirstMatch(RateRules(rs), req)
==============================================================================
