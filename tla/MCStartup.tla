------------------------------ MODULE MCStartup ------------------------------
(* Startup for TLC: a storage and an engine checker, and a second storage     *)
(* checker that has the name of the first.                                     *)
EXTENDS Startup

MCCheckers == {"redis", "local", "engine"}
MCName == [c \in MCCheckers |-> IF c = "engine" THEN c ELSE "storage"]
==============================================================================
