----------------------------- MODULE Arrangements -----------------------------
(***************************************************************************)
(* What Array.prototype.filter and Array.prototype.sort return, said       *)
(* without recursion: the elements of a sequence at some of its positions, *)
(* in a given order.                                                       *)
(***************************************************************************)
EXTENDS Naturals, FiniteSets, Sequences

(* before[i] is the set of the positions whose elements come before that   *)
(* at i; the positions in the domain of "before" are those that are kept.  *)
Arranged(s, before) ==
    LET place == [i \in DOMAIN before |-> 1 + Cardinality(before[i])]
    IN  [k \in 1..Cardinality(DOMAIN before) |->
            s[CHOOSE i \in DOMAIN before : place[i] = k]]

(* filter: the elements at the positions S, in the order they have. *)
Kept(s, S) == Arranged(s, [i \in S |-> {j \in S : j < i}])

===============================================================================
