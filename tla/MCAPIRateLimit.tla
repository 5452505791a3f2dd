---------------------------- MODULE MCAPIRateLimit ----------------------------
(* APIRateLimit for TLC: one address, since addresses share only the mutex.    *)
EXTENDS APIRateLimit, TLC

CONSTANTS t1, t2, t3
MCThreads == {t1, t2, t3}
MCOneIP == {"a"}

Symmetry == Permutations(Handlers)
==============================================================================
