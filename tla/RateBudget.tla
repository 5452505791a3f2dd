------------------------------ MODULE RateBudget ------------------------------
(***************************************************************************)
(* What a fixed-window limiter promises, with no mention of threads, rules *)
(* or algorithms: each key has a budget per window; a unit is drawn only   *)
(* while the budget lasts, and the window's end restores it whole.         *)
(***************************************************************************)
EXTENDS Naturals

CONSTANT Capacity  \* a function: the units a key may draw in one window

VARIABLE used

Init == used = [k \in DOMAIN Capacity |-> 0]

Draw(k) == used[k] < Capacity[k] /\ used' = [used EXCEPT ![k] = @ + 1]

Refill(k) == used' = [used EXCEPT ![k] = 0]

Next == \E k \in DOMAIN Capacity : Draw(k) \/ Refill(k)

Spec == Init /\ [][Next]_used
==============================================================================
