-------------------------------- MODULE Inputs --------------------------------
(***************************************************************************)
(* What the process reads and judges on its own, without state shared with *)
(* its other parts: the settings file (Settings), the rules file           *)
(* (RuleValidation) and the pattern of a rule's field (Matcher).  They     *)
(* have nothing in common, so a behaviour is one of one of them: `reader`  *)
(* says which, and the others rest.                                        *)
(***************************************************************************)
EXTENDS Settings, RuleValidation, Matcher

CONSTANTS RestingSettings, RestingText   \* what the readers that rest hold

VARIABLE reader

inputs == <<reader, settingsVars, vars, matchVars>>

SettingsRest == /\ config = RestingSettings /\ loaded = config
                /\ boot = "config" /\ store = "none" /\ maxCost = 0 /\ numCounters = 0
                /\ requestTimeout = 0 /\ watching = "off"
RulesRest == file = NotToml /\ rules = EmptyRuleSet /\ source = NotToml
MatcherRests == pattern = RestingText /\ value = RestingText /\ verdict = "none"

InputsInit ==
  \/ reader = "settings" /\ SettingsInit /\ RulesRest /\ MatcherRests
  \/ reader = "rules" /\ Init /\ SettingsRest /\ MatcherRests
  \/ reader = "matcher" /\ MatchInit /\ SettingsRest /\ RulesRest

InputsNext ==
  \/ reader = "settings" /\ SettingsNext /\ UNCHANGED <<reader, vars, matchVars>>
  \/ reader = "rules" /\ Next /\ UNCHANGED <<reader, settingsVars, matchVars>>
  \/ reader = "matcher" /\ Match /\ UNCHANGED <<reader, settingsVars, vars>>

InputsSpec == InputsInit /\ [][InputsNext]_inputs
===============================================================================
