------------------------------- MODULE AutoRun -------------------------------
(***************************************************************************)
(* The automatic run of the simulation page (simulate/page.tsx): a loop in *)
(* the browser that creates a session if the page has none and takes it    *)
(* from gate A to DONE, call by call.  "Stop" raises a flag that the loop  *)
(* looks at between its awaits; a latch and the disabled buttons are to    *)
(* keep a second loop and the manual calls out.                            *)
(*                                                                         *)
(* Each await is a place where the learner may stop or start again.  The   *)
(* server is reduced to the gate each call needs and may reach; its        *)
(* requests are SimulationSession's.                                       *)
(***************************************************************************)
EXTENDS Naturals, FiniteSets

CONSTANTS
    Loops,      \* the loops that a click may start; each names the session it creates
    None        \* no session

VARIABLES
    loops,      \* where each loop is, and the session it works on
    gates,      \* the gate of each session on the server
    page,       \* the session id on the page
    running,    \* autoRunning: what disables the buttons
    latch,      \* autoRunLatchRef
    cancel,     \* autoCancelRef
    busy,       \* the label that disables the manual buttons
    manual,     \* the manual call in progress
    late        \* history variable: the calls each loop has made since the last stop

vars == <<loops, gates, page, running, latch, cancel, busy, manual, late>>

Posts == {"intro", "ready", "verify", "finish"}
Rests == {"restCreated", "restIntro", "restReady", "restVerified", "restFinished"}
Waits == {"waitA", "waitB", "waitC", "waitDONE"}

AfterCall == [create |-> "restCreated", intro |-> "restIntro", ready |-> "restReady",
              verify |-> "restVerified", finish |-> "restFinished"]
AfterRest == [restCreated |-> "waitA", restIntro |-> "waitB", restReady |-> "verify",
              restVerified |-> "waitC", restFinished |-> "waitDONE"]
AfterWait == [waitA |-> "look", waitB |-> "ready", waitC |-> "finish", waitDONE |-> "close"]
Wanted    == [waitA |-> "A", waitB |-> "B", waitC |-> "C", waitDONE |-> "DONE"]

(* The gate a call needs, and the one it leaves when it succeeds. *)
Needs  == [intro |-> "A", ready |-> "B", verify |-> "B", finish |-> "C"]
Leaves == [intro |-> "B", ready |-> "B", verify |-> "C", finish |-> "DONE"]

Idle == [pc |-> "idle", session |-> None]

Init ==
    /\ loops = [l \in Loops |-> Idle]
    /\ gates = [l \in Loops |-> "none"]
    /\ page = None
    /\ running = FALSE /\ latch = FALSE /\ cancel = FALSE /\ busy = FALSE
    /\ manual = "none"
    /\ late = [l \in Loops |-> 0]

----------------------------------------------------------------------------
(* The learner *)

Start(l) ==
    /\ ~running /\ ~latch
    /\ loops[l] = Idle /\ gates[l] = "none"
    /\ cancel' = FALSE /\ latch' = TRUE /\ running' = TRUE
    /\ loops' = [loops EXCEPT ![l] =
          [pc |-> IF page = None THEN "create" ELSE "waitA", session |-> page]]
    /\ busy' = (busy \/ page = None)
    /\ late' = [late EXCEPT ![l] = 0]
    /\ UNCHANGED <<gates, page, manual>>

Stop ==
    /\ cancel' = TRUE /\ latch' = FALSE /\ running' = FALSE /\ busy' = FALSE
    /\ late' = [l \in Loops |-> 0]
    /\ UNCHANGED <<loops, gates, page, manual>>

(* The manual buttons: the page polls the gate. *)
ManualCalls(step) ==
    /\ ~running /\ ~busy /\ manual = "none"
    /\ page # None /\ gates[page] = Needs[step]
    /\ manual' = step /\ busy' = TRUE
    /\ UNCHANGED <<loops, gates, page, running, latch, cancel, late>>

(* A call that finds its gate succeeds or fails; any other is refused. *)
Served(session, step, ok) ==
    /\ ok => gates[session] = Needs[step]
    /\ gates' = IF ok THEN [gates EXCEPT ![session] = Leaves[step]] ELSE gates

ManualAnswered ==
    /\ manual # "none"
    /\ \E ok \in BOOLEAN : Served(page, manual, ok)
    /\ manual' = "none" /\ busy' = FALSE
    /\ UNCHANGED <<loops, page, running, latch, cancel, late>>

----------------------------------------------------------------------------
(* The loop *)

(* Where the loop goes; a call is sent as it gets there. *)
Goes(l, pc) ==
    /\ loops' = [loops EXCEPT ![l].pc = pc]
    /\ late' = IF pc \in Posts /\ cancel THEN [late EXCEPT ![l] = @ + 1] ELSE late
    /\ busy' = (busy \/ pc \in Posts)
    /\ UNCHANGED <<running, latch, cancel, manual>>

(* return or throw, and then the finally block, whoever has the latch now. *)
Ends(l) ==
    /\ loops' = [loops EXCEPT ![l] = Idle]
    /\ latch' = FALSE /\ running' = FALSE /\ busy' = FALSE
    /\ UNCHANGED <<cancel, manual, late>>

Created(l) ==
    /\ loops[l].pc = "create"
    /\ loops' = [loops EXCEPT ![l] = [pc |-> "restCreated", session |-> l]]
    /\ gates' = [gates EXCEPT ![l] = "A"]
    /\ page' = l
    /\ UNCHANGED <<running, latch, cancel, busy, manual, late>>

CallAnswered(l) ==
    /\ loops[l].pc \in Posts
    /\ \E ok \in BOOLEAN :
          /\ Served(loops[l].session, loops[l].pc, ok)
          /\ IF ok THEN Goes(l, AfterCall[loops[l].pc]) ELSE Ends(l)
    /\ UNCHANGED page

(* Mutant: the flag is not looked at after a pause. *)
RestOverUnasked(l) ==
    /\ loops[l].pc \in Rests
    /\ Goes(l, AfterRest[loops[l].pc])
    /\ UNCHANGED <<gates, page>>

(* The pause after the last call is not followed by a look at the flag. *)
RestOver(l) ==
    /\ loops[l].pc \in Rests
    /\ IF cancel /\ loops[l].pc # "restFinished"
       THEN Ends(l) ELSE Goes(l, AfterRest[loops[l].pc])
    /\ UNCHANGED <<gates, page>>

(* waitForGate sees the gate; only the wait for DONE does not ask again. *)
WaitSees(l) ==
    /\ loops[l].pc \in Waits
    /\ gates[loops[l].session] = Wanted[loops[l].pc]
    /\ IF cancel /\ loops[l].pc # "waitDONE"
       THEN Ends(l) ELSE Goes(l, AfterWait[loops[l].pc])
    /\ UNCHANGED <<gates, page>>

(* The deadline, or the flag: an error, except for DONE. *)
WaitGivesUp(l) ==
    /\ loops[l].pc \in Waits
    /\ IF loops[l].pc = "waitDONE" THEN Goes(l, "close") ELSE Ends(l)
    /\ UNCHANGED <<gates, page>>

(* After gate A two awaits pass, refresh and the session, and no look at   *)
(* the flag before the introduction is asked for.  A session that could    *)
(* not be fetched counts as one beyond gate A.                             *)
Looks(l) ==
    /\ loops[l].pc = "look"
    /\ \/ gates[loops[l].session] = "A" /\ Goes(l, "intro")
       \/ IF cancel THEN Ends(l) ELSE Goes(l, "waitB")
    /\ UNCHANGED <<gates, page>>

(* The answer to a call that succeeded does not arrive. *)
AnswerLost(l) ==
    /\ loops[l].pc \in Posts
    /\ Served(loops[l].session, loops[l].pc, TRUE)
    /\ Ends(l)
    /\ UNCHANGED page

(* Any other fetch may fail; the refresh after DONE is the last. *)
LoopEnds(l) ==
    /\ loops[l].pc \in {"create", "look", "close"}
    /\ Ends(l)
    /\ UNCHANGED <<gates, page>>

Next ==
    \/ Stop \/ ManualAnswered
    \/ \E step \in Posts : ManualCalls(step)
    \/ \E l \in Loops : Start(l) \/ Created(l) \/ CallAnswered(l) \/ RestOver(l) \/ WaitSees(l)
                        \/ WaitGivesUp(l) \/ Looks(l) \/ AnswerLost(l) \/ LoopEnds(l)

Spec == Init /\ [][Next]_vars

----------------------------------------------------------------------------
(* Properties *)

(* The loops, the sessions and the page's flags keep their types. *)
TypeOK ==
    /\ loops \in [Loops -> [pc: {"idle", "create", "look", "close"} \cup Posts \cup Rests \cup Waits,
                            session: Loops \cup {None}]]
    /\ gates \in [Loops -> {"none", "A", "B", "C", "DONE"}]
    /\ page \in Loops \cup {None}
    /\ manual \in Posts \cup {"none"}
    /\ late \in [Loops -> Nat]

(* After a stop a loop makes at most one more call, the introduction it    *)
(* was about to ask for, whatever it was waiting for and however often the *)
(* learner starts and stops.                                               *)
StopIsHeeded ==
    cancel => \A l \in Loops :
        late[l] <= 1 /\ (late[l] = 1 => loops[l].pc \in {"intro", "restIntro", "idle"})

(* The page never makes the calls of two at once: no session is called by  *)
(* two loops, or by a loop and by hand, at one time.                       *)
NoCallIsDoubled ==
    /\ \A l, m \in Loops :
          loops[l].pc \in Posts /\ loops[m].pc \in Posts /\ loops[l].session = loops[m].session
              => l = m
    /\ manual # "none" => \A l \in Loops : ~(loops[l].pc \in Posts /\ loops[l].session = page)

----------------------------------------------------------------------------
(* The inductive invariant of the proofs. *)

IInv == TypeOK /\ StopIsHeeded

==============================================================================
