---------------------------- MODULE MCLocalLists ----------------------------
(* LocalLists for TLC: offsets on both sides of both ends of the list.            *)
EXTENDS LocalLists, TLC

CONSTANTS t1, t2

MCThreads == {t1, t2}
MCIndices == {-3, -1, 0, 1}

Symmetry == Permutations(Callers)
==============================================================================
