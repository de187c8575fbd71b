----------------------------- MODULE Orchestration -----------------------------
(***************************************************************************)
(* The queue of the agents' work (orchestration-queue.service.ts): a turn  *)
(* of the supervisor and of the agents it names, or the review of an       *)
(* artifact (orchestrator.service.ts).  Both ask a model that may be       *)
(* overloaded (gemini.service.ts) and tell the session of what came of it  *)
(* by events.                                                              *)
(*                                                                         *)
(* BullMQ hands a job out again when it threw, up to Attempts times, and   *)
(* when the process that had it died; every attempt begins anew.           *)
(***************************************************************************)
EXTENDS Naturals, FiniteSets

CONSTANTS
    Jobs,       \* the jobs enqueued, once each
    Attempts,   \* how often BullMQ hands out a job that throws: 3 in the code, 2 in the
                \* runs (model bound)
    TextTries, FallbackTries, MediaTries,
                \* how often a model is asked before it is given up: 5, 4 and 4 in the
                \* code, fewer in the runs (model bound)
    MaxAgents,  \* bound on the agents a supervisor names (model bound)
    None        \* no turn

ASSUME OrchestrationAssumption ==
    /\ IsFiniteSet(Jobs) /\ None \notin Jobs
    /\ MaxAgents \in Nat
    /\ {Attempts, TextTries, FallbackTries, MediaTries} \subseteq Nat \ {0}

VARIABLES
    queueing,   \* whether the process has a queue (INTEGRATION_BULLMQ, REDIS_URL)
    kind,       \* the type each job has when it is enqueued
    fallback,   \* whether the fallback model differs from the primary one
    job,        \* what Redis knows of each job
    work,       \* how far the attempt at each job has come
    rubric,     \* the artifacts' rubrics: how many times AI checks were appended
    talk,       \* what the events show: the turn that was started last, until it completes
    told        \* the jobs whose last event was logged

vars == <<queueing, kind, fallback, job, work, rubric, talk, told>>

Turns == {j \in Jobs : kind[j] = "TURN"}

Reviews == {j \in Jobs : kind[j] = "ARTIFACT_REVIEW"}

(* Mutant: a worker that takes two jobs at a time. *)
ConcurrencyTwo == 2

Concurrency == 1

MaxStalled == 1

NotQueued == [state |-> "new", failures |-> 0, stalls |-> 0]

Begin == [pc |-> "begin", agents |-> 0, checks |-> 0, model |-> "primary", tries |-> 0]

Init ==
    /\ queueing \in BOOLEAN
    /\ kind \in [Jobs -> {"TURN", "ARTIFACT_REVIEW"}]
    /\ fallback \in BOOLEAN
    /\ job = [j \in Jobs |-> NotQueued]
    /\ work = [j \in Jobs |-> Begin]
    /\ rubric = [j \in Jobs |-> 0]
    /\ talk = None
    /\ told = {}

----------------------------------------------------------------------------
(* The queue *)

In(j, state) == job[j].state = state

Becomes(j, state) == job' = [job EXCEPT ![j].state = state]

(* Of an attempt that is over nothing is kept. *)
Forgets(j) == work' = [work EXCEPT ![j] = Begin]

(* Without a queue the caller gets an id, and nothing runs. *)
Enqueue(j) ==
    /\ In(j, "new")
    /\ Becomes(j, IF queueing THEN "waiting" ELSE "dropped")
    /\ UNCHANGED <<queueing, kind, fallback, work, rubric, talk, told>>

WorkerTakes(j) ==
    /\ In(j, "waiting")
    /\ Cardinality({k \in Jobs : In(k, "active")}) < Concurrency
    /\ Becomes(j, "active")
    /\ UNCHANGED <<queueing, kind, fallback, work, rubric, talk, told>>

BackoffEnds(j) ==
    /\ In(j, "delayed")
    /\ Becomes(j, "waiting")
    /\ UNCHANGED <<queueing, kind, fallback, work, rubric, talk, told>>

Completes(j) ==
    /\ In(j, "active") /\ work[j].pc = "finished"
    /\ Becomes(j, "completed")
    /\ Forgets(j)
    /\ UNCHANGED <<queueing, kind, fallback, rubric, talk, told>>

(* Mutant: the handler catches the error and does not throw it again. *)
ThrowsSwallowed(j) ==
    /\ In(j, "active") /\ work[j].pc # "finished"
    /\ Becomes(j, "completed")
    /\ Forgets(j)
    /\ UNCHANGED <<queueing, kind, fallback, rubric, talk, told>>

(* The model refuses, its JSON cannot be parsed, a file or a row is        *)
(* missing, or an event cannot be logged. *)
Throws(j) ==
    /\ In(j, "active") /\ work[j].pc # "finished"
    /\ job' = [job EXCEPT ![j].failures = @ + 1,
                          ![j].state = IF job[j].failures + 1 < Attempts THEN "delayed" ELSE "failed"]
    /\ Forgets(j)
    /\ UNCHANGED <<queueing, kind, fallback, rubric, talk, told>>

(* The process dies; the job's lock expires and another worker notices. *)
Stalls(j) ==
    /\ In(j, "active")
    /\ job' = [job EXCEPT ![j].stalls = @ + 1,
                          ![j].state = IF job[j].stalls < MaxStalled THEN "waiting" ELSE "failed"]
    /\ Forgets(j)
    /\ UNCHANGED <<queueing, kind, fallback, rubric, talk, told>>

----------------------------------------------------------------------------
(* An attempt *)

At(j, pc) == In(j, "active") /\ work[j].pc = pc

Proceed(j, w) == work' = [work EXCEPT ![j] = [w EXCEPT !.model = "primary", !.tries = 0]]

Asking(j) == In(j, "active") /\ work[j].pc \in {"supervisor", "agents", "review"}

(* generateWithRetries *)
Tries(j) ==
    IF work[j].pc = "review" THEN MediaTries
    ELSE IF work[j].model = "primary" THEN TextTries ELSE FallbackTries

(* generateText: after its retries a turn turns to the fallback model. *)
Overloaded(j) ==
    /\ Asking(j)
    /\ \/ /\ work[j].tries + 1 < Tries(j)
          /\ work' = [work EXCEPT ![j].tries = @ + 1]
       \/ /\ work[j].tries + 1 = Tries(j)
          /\ fallback /\ work[j].model = "primary" /\ j \in Turns
          /\ work' = [work EXCEPT ![j].model = "fallback", ![j].tries = 0]
    /\ UNCHANGED <<queueing, kind, fallback, job, rubric, talk, told>>

(* ORCHESTRATION_STARTED *)
TurnStarts(j) ==
    /\ j \in Turns /\ At(j, "begin")
    /\ Proceed(j, [work[j] EXCEPT !.pc = "supervisor"])
    /\ talk' = j
    /\ UNCHANGED <<queueing, kind, fallback, job, rubric, told>>

(* processTurn: the supervisor's answer, logged, names the agents that go on. *)
SupervisorAnswers(j, agents) ==
    /\ At(j, "supervisor")
    /\ Proceed(j, [work[j] EXCEPT !.pc = "agents", !.agents = agents])
    /\ UNCHANGED <<queueing, kind, fallback, job, rubric, talk, told>>

(* invokeAgent; AGENT_REPLY *)
AgentReplies(j) ==
    /\ At(j, "agents") /\ work[j].agents > 0
    /\ Proceed(j, [work[j] EXCEPT !.agents = @ - 1])
    /\ UNCHANGED <<queueing, kind, fallback, job, rubric, talk, told>>

(* ORCHESTRATION_COMPLETED *)
TurnCompletes(j) ==
    /\ At(j, "agents") /\ work[j].agents = 0
    /\ Proceed(j, [work[j] EXCEPT !.pc = "finished"])
    /\ talk' = None
    /\ told' = told \cup {j}
    /\ UNCHANGED <<queueing, kind, fallback, job, rubric>>

(* evaluateArtifact reads the rubric before it asks the model... *)
ReviewBegins(j) ==
    /\ j \in Reviews /\ At(j, "begin")
    /\ Proceed(j, [work[j] EXCEPT !.pc = "review", !.checks = rubric[j]])
    /\ UNCHANGED <<queueing, kind, fallback, job, rubric, talk, told>>

(* ... and appends the checks in the answer, if it can be parsed. *)
ReviewStored(j, parsed) ==
    /\ At(j, "review")
    /\ rubric' = [rubric EXCEPT ![j] = IF parsed THEN work[j].checks + 1 ELSE work[j].checks]
    /\ Proceed(j, [work[j] EXCEPT !.pc = "reviewed"])
    /\ UNCHANGED <<queueing, kind, fallback, job, talk, told>>

(* AGENT_REPLY *)
ReviewPublished(j) ==
    /\ At(j, "reviewed")
    /\ Proceed(j, [work[j] EXCEPT !.pc = "finished"])
    /\ told' = told \cup {j}
    /\ UNCHANGED <<queueing, kind, fallback, job, rubric, talk>>

(* What the worker that has the job will do sooner or later. *)
Attempt(j) ==
    \/ TurnStarts(j)
    \/ \E n \in 0..MaxAgents : SupervisorAnswers(j, n)
    \/ AgentReplies(j) \/ TurnCompletes(j)
    \/ ReviewBegins(j) \/ ReviewPublished(j) \/ \E parsed \in BOOLEAN : ReviewStored(j, parsed)
    \/ Overloaded(j) \/ Throws(j) \/ Completes(j)

Next == \E j \in Jobs : Enqueue(j) \/ WorkerTakes(j) \/ BackoffEnds(j) \/ Attempt(j) \/ Stalls(j)

----------------------------------------------------------------------------
(* Fairness: a worker that is free takes a job, what it awaits comes to an *)
(* end, and Redis hands out delayed jobs. *)

TakesSome == \E j \in Jobs : WorkerTakes(j)

Fairness ==
    /\ WF_vars(TakesSome)
    /\ \A j \in Jobs : WF_vars(Attempt(j)) /\ WF_vars(BackoffEnds(j))

Spec == Init /\ [][Next]_vars /\ Fairness

----------------------------------------------------------------------------
(* Properties *)

(* The jobs, the attempts and what the events show keep their types. *)
TypeOK ==
    /\ queueing \in BOOLEAN /\ fallback \in BOOLEAN
    /\ kind \in [Jobs -> {"TURN", "ARTIFACT_REVIEW"}]
    /\ job \in [Jobs ->
          [state: {"new", "dropped", "waiting", "active", "delayed", "completed", "failed"},
           failures: 0..Attempts, stalls: 0..(MaxStalled + 1)]]
    /\ work \in [Jobs ->
          [pc: {"begin", "supervisor", "agents", "review", "reviewed", "finished"},
           agents: 0..MaxAgents, checks: Nat, model: {"primary", "fallback"}, tries: Nat]]
    /\ rubric \in [Jobs -> 0..(Attempts + MaxStalled)]
    /\ talk \in Turns \cup {None}
    /\ told \subseteq Jobs

(* The events of turns do not mix: whatever fails or stalls on the way,    *)
(* what an attempt says belongs to the turn that was announced last.       *)
TurnsDoNotMix ==
    \A j \in Turns : In(j, "active") /\ work[j].pc \in {"supervisor", "agents"} => talk = j

(* A queued job comes to an end, and one that counts as completed has told *)
(* the session what came of it.                                            *)
JobsEndOpenly ==
    \A j \in Jobs : In(j, "waiting") ~> (In(j, "failed") \/ (In(j, "completed") /\ j \in told))

===============================================================================
