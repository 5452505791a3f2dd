---------------------------- MODULE MCLocalCounters ----------------------------
(* LocalCounters for TLC: one key, since operations on different keys share      *)
(* nothing but a lock that no step holds across another step.                     *)
EXTENDS LocalCounters, TLC

CONSTANTS t1, t2

MCThreads == {t1, t2}
MCKeys == {"login"}
MCTTLs == {0, 1}

Symmetry == Permutations(Threads)
==============================================================================
