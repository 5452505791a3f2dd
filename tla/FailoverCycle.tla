---------------------------- MODULE FailoverCycle ----------------------------
(***************************************************************************)
(* What the storage manager promises of its two atomics, with no mention   *)
(* of goroutines, failures or locks: the flag and the pointer take turns,  *)
(* so that the manager goes round in one circle: from the primary to the   *)
(* flag, from the flag to the fallback, and back in the same order.        *)
(***************************************************************************)
VARIABLES degraded, current

Init == degraded = FALSE /\ current = "primary"

\* The flag is raised over the primary, and lowered over the fallback.
Flag ==
  /\ degraded <=> current = "fallback"
  /\ degraded' = ~degraded
  /\ UNCHANGED current

\* The pointer follows the flag.
Pointer ==
  /\ ~(degraded <=> current = "fallback")
  /\ current' = IF degraded THEN "fallback" ELSE "primary"
  /\ UNCHANGED degraded

Next == Flag \/ Pointer

Spec == Init /\ [][Next]_<<degraded, current>>
==============================================================================
