----------------------------- MODULE GateLadder -----------------------------
(***************************************************************************)
(* What a simulation session promises its learner, one indivisible step    *)
(* per accepted request: the session starts at gate A and climbs one rung  *)
(* at a time, B to C only by a verification, which needs the learner's     *)
(* acknowledgement unless the demo endpoint skips it.                      *)
(***************************************************************************)
EXTENDS Gates

CONSTANT DemoOffered    \* may a client call the endpoint that skips the acknowledgement?

VARIABLES gate, history, acknowledgedAt

vars == <<gate, history, acknowledgedAt>>

Init ==
    /\ gate = "A"
    /\ history = <<>>
    /\ acknowledgedAt = NULL

Climb(to, reason) ==
    /\ gate' = to
    /\ \E at \in Instants :
          history' = Append(history, [at |-> at, from |-> gate, to |-> to, reason |-> reason])

(* A move of the table; entering B forgets an earlier acknowledgement. *)
Move ==
    \E to \in Allowed[gate] :
        /\ Climb(to, "manual_patch")
        /\ acknowledgedAt' = IF to = "B" THEN NULL ELSE acknowledgedAt

Acknowledge ==
    /\ gate = "B"
    /\ acknowledgedAt' \in Instants
    /\ UNCHANGED <<gate, history>>

Verify ==
    /\ gate = "B"
    /\ acknowledgedAt # NULL \/ DemoOffered
    /\ Climb("C", "verify_passed")
    /\ UNCHANGED acknowledgedAt

Next == Move \/ Acknowledge \/ Verify

Spec == Init /\ [][Next]_vars

==============================================================================
