------------------------------ MODULE MCFailover ------------------------------
(* Failover for TLC.                                                              *)
EXTENDS Failover, TLC

CONSTANTS c1, c2, c3

Symmetry == Permutations(Callers)
===============================================================================
