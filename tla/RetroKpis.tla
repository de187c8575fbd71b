------------------------------- MODULE RetroKpis -------------------------------
(***************************************************************************)
(* The scores of a retrospective (retro-kpi.util.ts), computed from the    *)
(* newest events of a session, as many as a listing returns                *)
(* (retro.controller.ts).                                                  *)
(***************************************************************************)
EXTENDS Integers, Sequences, FiniteSets

CONSTANTS
    Window      \* the most events a listing returns: 200 in the code (model bound)

VARIABLE
    listed      \* the types of the session's newest events, oldest first

vars == <<listed>>

Types == {"VALIDATION_FAILED", "VALIDATION_PASSED", "VALIDATION_LOOP_DETECTED",
          "PR_UPDATED", "PR_MERGED", "VFS_APPROVED"}

Init == listed = <<>>

----------------------------------------------------------------------------
(* Scores *)

(* listIntegrationEvents: whatever limit is asked for, no more than Window. *)
Listed(log) == IF Len(log) <= Window THEN log ELSE Tail(log)

Count(log, type) == Cardinality({i \in DOMAIN log : log[i] = type})

(* Mutant: no bounds. *)
Unclamped(n, lo, hi) == n

Clamp(n, lo, hi) == IF n < lo THEN lo ELSE IF n > hi THEN hi ELSE n

(* computeRetroKpisFromEvents *)
Kpis(log) ==
    LET fails == Count(log, "VALIDATION_FAILED")
        passes == Count(log, "VALIDATION_PASSED")
        loops == Count(log, "VALIDATION_LOOP_DETECTED")
        prUpdates == Count(log, "PR_UPDATED")
        merged == Count(log, "PR_MERGED")
        vfsOk == Count(log, "VFS_APPROVED")
    IN  [roleBalance |-> Clamp(35 + 4 * passes + 5 * vfsOk - 3 * fails - 8 * loops, 0, 99),
         rework |-> Clamp(8 + 6 * fails + 2 * prUpdates, 0, 95),
         reviewReflection |-> Clamp(45 + 5 * prUpdates + 12 * merged, 0, 99),
         communication |-> Clamp(40 + 3 * passes + 10 * merged - 5 * loops, 0, 99)]

----------------------------------------------------------------------------
(* Steps *)

LogEvent(type) == listed' = Listed(Append(listed, type))

Next == \E type \in Types : LogEvent(type)

Spec == Init /\ [][Next]_vars

----------------------------------------------------------------------------
(* Properties *)

Scores == [roleBalance: 0..99, rework: 0..95, reviewReflection: 0..99, communication: 0..99]

(* Scores keep their ranges. *)
TypeOK == listed \in Seq(Types) /\ Kpis(listed) \in Scores

===============================================================================
