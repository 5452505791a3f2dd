------------------------------- MODULE MCEngine -------------------------------
(* Instances of Engine for TLC.  MCRuleSets holds two versions of a count rule *)
(* (the hot reload lowers or raises its limit), a rule set that lets the       *)
(* client pass and one that refuses it, and a base rule that lets one request  *)
(* go before it limits.                                                        *)
EXTENDS Engine, TLC

CONSTANTS t1, t2, guest

MCRequests == {[uid |-> guest]}

access == [name |-> "access", match |-> [uid |-> {guest}]]
rate(name, algorithm, n, b) ==
  [name |-> name, match |-> [uid |-> {guest}], alg |-> algorithm, count |-> n, base |-> b]
ruleSet(white, black, business, default) ==
  [whitelist |-> white, blacklist |-> black, business |-> business,
   post |-> <<>>, advanced |-> <<>>, default |-> default]

MCRuleSets ==
  {ruleSet(<<>>, <<>>, <<>>, <<rate("login", "count", 2, 0)>>),
   ruleSet(<<>>, <<>>, <<rate("login", "count", 1, 0)>>, <<>>),
   ruleSet(<<>>, <<>>, <<rate("post", "base", 3, 1)>>, <<>>),
   ruleSet(<<access>>, <<access>>, <<>>, <<>>),
   ruleSet(<<>>, <<access>>, <<>>, <<>>)}
MCCeiling == [login |-> 2, post |-> 3]

Symmetry == Permutations(Threads)
==============================================================================
