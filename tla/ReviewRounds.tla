---------------------------- MODULE ReviewRounds ----------------------------
(***************************************************************************)
(* What the simulated pull request teaches: it is submitted, answered,     *)
(* reviewed again, answered again and approved, in that order, and no      *)
(* round ends before each of its comments has been answered.               *)
(***************************************************************************)
EXTENDS Naturals

CommentsOf(stage) == CASE stage = 1 -> {"c1", "c2"} [] stage = 2 -> {"c3", "c4"} [] OTHER -> {}

VARIABLES
    stage,      \* 0 not submitted, 1 and 2 the rounds, 3 approved
    answered    \* the comments that have been answered, if only for a time

vars == <<stage, answered>>

Init == stage = 0 /\ answered = {}

Answer ==
    \E c \in CommentsOf(1) \cup CommentsOf(2) :
        answered' = answered \cup {c} /\ UNCHANGED stage

Advance ==
    /\ stage < 3
    /\ CommentsOf(stage) \subseteq answered
    /\ stage' = stage + 1
    /\ UNCHANGED answered

Next == Answer \/ Advance

Spec == Init /\ [][Next]_vars

==============================================================================
