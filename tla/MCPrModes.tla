----------------------------- MODULE MCPrModes -----------------------------
(***************************************************************************)
(* PrValidation for TLC in the three ways the API can be started: checks   *)
(* within the delivery (the default), a queue in memory, and BullMQ with a *)
(* worker in a process of its own.  They share their variables; the one    *)
(* that was started is "mode".                                             *)
(***************************************************************************)
EXTENDS Naturals, Sequences, FiniteSets

CONSTANTS
    Handlers,       \* deliveries
    BullHandlers,   \* deliveries when there is BullMQ
    Workers, Pump,
    Sessions, Prs,
    Shas,           \* commits
    QueuedShas,     \* commits when there is a queue
    None,
    LoopLimit,      \* 5 in the code
    MaxLoad,        \* bounds on the deliveries not yet dealt with (model bound)
    MemoryLoad,
    BullLoad,
    MaxStreak,      \* bounds on the stored streak (model bound)
    BullStreak

(* One session has the pull request to itself, and a commit's retries and  *)
(* stalls, 3 and 1 in the code, stay below the limit.                      *)
ASSUME PrModesAssumption ==
    /\ IsFiniteSet(Handlers) /\ IsFiniteSet(BullHandlers) /\ IsFiniteSet(Workers)
    /\ Pump \notin Handlers \cup BullHandlers \cup Workers
    /\ BullHandlers \cap Workers = {}
    /\ \A s, t \in Sessions : s = t
    /\ None \notin [session: Sessions, pr: Prs, sha: Shas]
    /\ None \notin [session: Sessions, pr: Prs, sha: QueuedShas]
    /\ LoopLimit \in Nat /\ LoopLimit > 4
    /\ MaxLoad \in Nat /\ MemoryLoad \in Nat /\ BullLoad \in Nat
    /\ MaxStreak \in Nat /\ BullStreak \in Nat

VARIABLES streak, cache, tasks, memoryQueue, adding, bull, inARow, runs, threw, mode

(* Each with PrValidation's theorems. *)
Inline == INSTANCE PrValidationProofs WITH
    Workers <- {}, Async <- FALSE, Bull <- "off", MayThrow <- {}, MayCrash <- {}

Memory == INSTANCE PrValidationProofs WITH
    Workers <- {}, Shas <- QueuedShas, Async <- TRUE, Bull <- "off",
    MayThrow <- Handlers \cup {Pump}, MayCrash <- Handlers \cup {Pump}, MaxLoad <- MemoryLoad

Worker == INSTANCE PrValidationProofs WITH
    Handlers <- BullHandlers, Shas <- QueuedShas, Async <- TRUE, Bull <- "separate",
    MayThrow <- BullHandlers \cup Workers, MayCrash <- BullHandlers \cup Workers,
    MaxLoad <- BullLoad, MaxStreak <- BullStreak

vars == <<streak, cache, tasks, memoryQueue, adding, bull, inARow, runs, threw, mode>>

Init ==
    \/ mode = "inline" /\ Inline!Init
    \/ mode = "memory" /\ Memory!Init
    \/ mode = "worker" /\ Worker!Init

Next ==
    /\ UNCHANGED mode
    /\ \/ mode = "inline" /\ Inline!Next
       \/ mode = "memory" /\ Memory!Next
       \/ mode = "worker" /\ Worker!Next

Spec == Init /\ [][Next]_vars

----------------------------------------------------------------------------
(* What holds in each mode; the properties are PrValidation's. *)

(* Every task is at a step with what that step needs. *)
TypeOK ==
    /\ mode = "inline" => Inline!TypeOK
    /\ mode = "memory" => Memory!TypeOK
    /\ mode = "worker" => Worker!TypeOK

(* While nothing throws, streak and stored outcome hang together. *)
StatusIsCoherent == mode = "inline" => Inline!StatusIsCoherent

(* The streak passes the limit by the validations under way at most. *)
BoundedOvershoot == mode = "inline" => Inline!BoundedOvershoot

(* No failure is counted whose outcome was not stored first. *)
CountedIsStored ==
    /\ mode = "memory" => Memory!CountedIsStored
    /\ mode = "worker" => Worker!CountedIsStored

(* Jobs wait in memory without a pump only after a job that threw. *)
StrandedOnlyByFailure == mode = "memory" => Memory!StrandedOnlyByFailure

(* Retries and stalls of one BullMQ job never stop its pull request. *)
OneCommitNeverLoops == mode = "worker" => Worker!OneCommitNeverLoops

(* The loop event goes out only after LoopLimit failures in a row. *)
LoopIsEarned ==
    [][/\ mode = "inline" => Inline!EarnedStep
       /\ mode = "memory" => Memory!EarnedStep]_vars

(* With one task that validates, the streak keeps LoopGuard's promise. *)
Guard == INSTANCE LoopGuard WITH
    failures <- IF mode = "memory" THEN streak ELSE [p \in Prs |-> 0]

ImplementsLoopGuard == Guard!Spec

==============================================================================
