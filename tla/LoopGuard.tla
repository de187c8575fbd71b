----------------------------- MODULE LoopGuard -----------------------------
(***************************************************************************)
(* The promise behind VALIDATION_LOOP_DETECTED, one indivisible step per   *)
(* validation: the failures in a row of each pull request are counted one  *)
(* by one, the count stops at the limit, and only a success, or a pull     *)
(* request that is opened or merged, takes it away, all at once.           *)
(***************************************************************************)
EXTENDS Naturals

CONSTANTS Prs, LoopLimit

VARIABLE failures

Init == failures = [p \in Prs |-> 0]

ValidationFails(p) ==
    /\ failures[p] < LoopLimit
    /\ failures' = [failures EXCEPT ![p] = @ + 1]

StartsAfresh(p) == failures' = [failures EXCEPT ![p] = 0]

Next == \E p \in Prs : ValidationFails(p) \/ StartsAfresh(p)

Spec == Init /\ [][Next]_failures

==============================================================================
