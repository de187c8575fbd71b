------------------------------- MODULE Gates -------------------------------
(***************************************************************************)
(* The gate ladder of a simulation session: the vocabulary that the row of *)
(* the session table (SimulationSession) and the abstract promise about it *)
(* (GateLadder) share.                                                     *)
(***************************************************************************)
EXTENDS Naturals, Sequences

CONSTANTS
    Instants,   \* the timestamps new Date() can give
    NULL        \* SQL NULL, and an option the caller left undefined

ASSUME NullAssumption == NULL \notin Instants

Gate == {"A", "B", "C", "D", "DONE"}

Beyond == {"C", "D", "DONE"}

(***************************************************************************)
(* transitionGate's table of manual moves.                                 *)
(***************************************************************************)
Allowed ==
    [A |-> {"B"}, B |-> {}, C |-> {"D"}, D |-> {"DONE"}, DONE |-> {}]

Reason == {"manual_patch", "verify_passed"}

HistoryEntry == [at: Instants, from: Gate, to: Gate, reason: Reason]

(***************************************************************************)
(* An entry the code may write: a manual move of the table, or the one     *)
(* move that belongs to verification.                                      *)
(***************************************************************************)
Rung(e) ==
    \/ e.reason = "manual_patch" /\ e.to \in Allowed[e.from]
    \/ e.reason = "verify_passed" /\ e.from = "B" /\ e.to = "C"

==============================================================================
