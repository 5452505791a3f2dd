----------------------------- MODULE MCLeakBucket -----------------------------
(* LeakBucket for TLC: two calls at a time.                                      *)
EXTENDS LeakBucket, TLC

CONSTANTS t1, t2

MCThreads == {t1, t2}

Symmetry == Permutations(Threads)
==============================================================================
