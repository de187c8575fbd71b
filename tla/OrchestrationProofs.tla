------------------------- MODULE OrchestrationProofs -------------------------
(***************************************************************************)
(* Proofs about Orchestration, for any finite set of jobs and any limits:  *)
(* one job is worked on at a time, and the events of turns do not mix.     *)
(***************************************************************************)
EXTENDS Orchestration, FiniteSetTheorems, TLAPS

JobStates == {"new", "dropped", "waiting", "active", "delayed", "completed", "failed"}

Steps == {"begin", "supervisor", "agents", "review", "reviewed", "finished"}

JobRecord == [state: JobStates, failures: Nat, stalls: Nat]

WorkRecord ==
    [pc: Steps, agents: Nat, checks: Nat, model: {"primary", "fallback"}, tries: Nat]

(* What the argument needs of the types. *)
Typed ==
    /\ kind \in [Jobs -> {"TURN", "ARTIFACT_REVIEW"}]
    /\ job \in [Jobs -> JobRecord]
    /\ work \in [Jobs -> WorkRecord]
    /\ rubric \in [Jobs -> Nat]

(* Work is kept only of the job that is active, of which there is one.     *)
OneActive == \A j, k \in Jobs : In(j, "active") /\ In(k, "active") => j = k

NoneKept == \A j \in Jobs : ~In(j, "active") => work[j] = Begin

Alone == Typed /\ OneActive /\ NoneKept /\ TurnsDoNotMix

----------------------------------------------------------------------------
(* Three shapes of step: a job that was not active changes its state, an   *)
(* attempt is over, an attempt goes on. *)

LEMMA FreeWorker ==
    ASSUME Cardinality({k \in Jobs : In(k, "active")}) < Concurrency
    PROVE  \A k \in Jobs : ~In(k, "active")
<1>. DEFINE active == {k \in Jobs : In(k, "active")}
<1>1. IsFiniteSet(active)
  BY OrchestrationAssumption, FS_Subset
<1>2. Cardinality(active) = 0
  BY <1>1, FS_CardinalityType DEF Concurrency
<1>3. active = {}
  BY <1>1, <1>2, FS_EmptySet
<1>. QED
  BY <1>3

LEMMA QueueStep ==
    ASSUME Alone, NEW j \in Jobs, NEW state \in JobStates, ~In(j, "active"), Becomes(j, state),
           state = "active" => \A k \in Jobs : ~In(k, "active"),
           UNCHANGED <<kind, work, rubric, talk>>
    PROVE  Alone'
<1>1. Typed'
  BY DEF Alone, Typed, Becomes, JobRecord
<1>2. /\ job'[j].state = state
      /\ \A k \in Jobs : k # j => job'[k] = job[k]
  BY DEF Alone, Typed, Becomes
<1>3. OneActive' /\ NoneKept'
  BY <1>2 DEF Alone, OneActive, NoneKept, In
<1>4. TurnsDoNotMix'
  <2>1. work[j].pc = "begin"
    BY DEF Alone, NoneKept, Begin
  <2>. QED
    BY <1>2, <2>1 DEF Alone, TurnsDoNotMix, Turns, In
<1>. QED
  BY <1>1, <1>3, <1>4 DEF Alone

LEMMA AttemptOver ==
    ASSUME Alone, NEW j \in Jobs, In(j, "active"),
           job' \in [Jobs -> JobRecord],
           job'[j].state # "active", \A k \in Jobs : k # j => job'[k] = job[k],
           Forgets(j), UNCHANGED <<kind, rubric, talk>>
    PROVE  Alone'
<1>1. Typed'
  BY DEF Alone, Typed, Forgets, Begin, WorkRecord, Steps
<1>2. \A k \in Jobs : ~In(k, "active")'
  BY DEF Alone, OneActive, In
<1>3. \A k \in Jobs : work'[k] = Begin
  BY DEF Alone, Typed, OneActive, NoneKept, Forgets
<1>. QED
  BY <1>1, <1>2, <1>3 DEF Alone, OneActive, NoneKept, TurnsDoNotMix, Turns

LEMMA AttemptStep ==
    ASSUME Alone, NEW j \in Jobs, In(j, "active"),
           NEW w, work' = [work EXCEPT ![j] = w],
           w \in WorkRecord,
           rubric' \in [Jobs -> Nat], UNCHANGED <<kind, job>>,
           j \in Turns /\ w.pc \in {"supervisor", "agents"} => talk' = j
    PROVE  Alone'
<1>1. Typed'
  BY DEF Alone, Typed
<1>2. work'[j] = w /\ \A k \in Jobs : k # j => work'[k] = work[k]
  BY DEF Alone, Typed
<1>3. OneActive' /\ NoneKept'
  BY <1>2 DEF Alone, OneActive, NoneKept, In
<1>4. TurnsDoNotMix'
  BY <1>2 DEF Alone, OneActive, TurnsDoNotMix, Turns, In
<1>. QED
  BY <1>1, <1>3, <1>4 DEF Alone

LEMMA ProceedStep ==
    ASSUME Alone, NEW j \in Jobs, In(j, "active"), NEW w \in WorkRecord, Proceed(j, w),
           rubric' \in [Jobs -> Nat], UNCHANGED <<kind, job>>,
           j \in Turns /\ w.pc \in {"supervisor", "agents"} => talk' = j
    PROVE  Alone'
<1>. DEFINE fresh == [w EXCEPT !.model = "primary", !.tries = 0]
<1>1. fresh \in WorkRecord /\ fresh.pc = w.pc
  BY DEF WorkRecord
<1>2. work' = [work EXCEPT ![j] = fresh]
  BY DEF Proceed
<1>. QED
  BY <1>1, <1>2, AttemptStep

(* A job's record when an attempt is over. *)
LEMMA Counted ==
    ASSUME NEW r \in JobRecord, NEW state \in JobStates
    PROVE  /\ [r EXCEPT !.state = state] \in JobRecord
           /\ [r EXCEPT !.failures = r.failures + 1, !.state = state] \in JobRecord
           /\ [r EXCEPT !.stalls = r.stalls + 1, !.state = state] \in JobRecord
           /\ [r EXCEPT !.state = state].state = state
           /\ [r EXCEPT !.failures = r.failures + 1, !.state = state].state = state
           /\ [r EXCEPT !.stalls = r.stalls + 1, !.state = state].state = state
<1>1. /\ [r EXCEPT !.state = state] \in JobRecord
      /\ [r EXCEPT !.state = state].state = state
  BY DEF JobRecord
<1>2. /\ [r EXCEPT !.failures = r.failures + 1, !.state = state] \in JobRecord
      /\ [r EXCEPT !.failures = r.failures + 1, !.state = state].state = state
  <2>1. r.failures + 1 \in Nat
    BY DEF JobRecord
  <2>. QED
    BY <2>1 DEF JobRecord
<1>3. /\ [r EXCEPT !.stalls = r.stalls + 1, !.state = state] \in JobRecord
      /\ [r EXCEPT !.stalls = r.stalls + 1, !.state = state].state = state
  <2>1. r.stalls + 1 \in Nat
    BY DEF JobRecord
  <2>. QED
    BY <2>1 DEF JobRecord
<1>. QED
  BY <1>1, <1>2, <1>3

LEMMA RecordOver ==
    ASSUME Alone, NEW j \in Jobs, In(j, "active"), NEW r \in JobRecord, r.state # "active",
           job' = [job EXCEPT ![j] = r], Forgets(j), UNCHANGED <<kind, rubric, talk>>
    PROVE  Alone'
<1>1. job \in [Jobs -> JobRecord]
  BY DEF Alone, Typed
<1>2. /\ job' \in [Jobs -> JobRecord] /\ job'[j].state # "active"
      /\ \A k \in Jobs : k # j => job'[k] = job[k]
  BY <1>1
<1>. QED
  BY <1>2, AttemptOver

----------------------------------------------------------------------------
(* Every step keeps the invariant. *)

LEMMA QueueKeeps ==
    ASSUME Alone, NEW j \in Jobs, Enqueue(j) \/ WorkerTakes(j) \/ BackoffEnds(j)
    PROVE  Alone'
<1>1. CASE Enqueue(j)
  BY <1>1, QueueStep DEF Enqueue, In, JobStates
<1>2. CASE WorkerTakes(j)
  BY <1>2, QueueStep, FreeWorker DEF WorkerTakes, In, JobStates
<1>3. CASE BackoffEnds(j)
  BY <1>3, QueueStep DEF BackoffEnds, In, JobStates
<1>. QED
  BY <1>1, <1>2, <1>3

LEMMA EndsKeep ==
    ASSUME Alone, NEW j \in Jobs, Completes(j) \/ Throws(j) \/ Stalls(j)
    PROVE  Alone'
<1>1. job \in [Jobs -> JobRecord] /\ job[j] \in JobRecord
  BY DEF Alone, Typed
<1>2. CASE Completes(j)
  <2>1. job' = [job EXCEPT ![j] = [job[j] EXCEPT !.state = "completed"]]
    BY <1>1, <1>2 DEF Completes, Becomes
  <2>2. "completed" \in JobStates
    BY DEF JobStates
  <2>. QED
    BY <1>1, <1>2, <2>1, <2>2, Counted, RecordOver DEF Completes
<1>3. CASE Throws(j)
  <2>1. PICK state \in {"delayed", "failed"} :
           job' = [job EXCEPT ![j] = [job[j] EXCEPT !.failures = job[j].failures + 1,
                                                    !.state = state]]
    BY <1>1, <1>3 DEF Throws
  <2>2. state \in JobStates /\ state # "active"
    BY DEF JobStates
  <2>. QED
    BY <1>1, <1>3, <2>1, <2>2, Counted, RecordOver DEF Throws
<1>4. CASE Stalls(j)
  <2>1. PICK state \in {"waiting", "failed"} :
           job' = [job EXCEPT ![j] = [job[j] EXCEPT !.stalls = job[j].stalls + 1,
                                                    !.state = state]]
    BY <1>1, <1>4 DEF Stalls
  <2>2. state \in JobStates /\ state # "active"
    BY DEF JobStates
  <2>. QED
    BY <1>1, <1>4, <2>1, <2>2, Counted, RecordOver DEF Stalls
<1>. QED
  BY <1>2, <1>3, <1>4

LEMMA TurnKeeps ==
    ASSUME Alone, NEW j \in Jobs,
           TurnStarts(j) \/ (\E n \in 0..MaxAgents : SupervisorAnswers(j, n))
             \/ AgentReplies(j) \/ TurnCompletes(j)
    PROVE  Alone'
<1>1. work[j] \in WorkRecord /\ rubric \in [Jobs -> Nat]
  BY DEF Alone, Typed
<1>2. CASE TurnStarts(j)
  <2>1. [work[j] EXCEPT !.pc = "supervisor"] \in WorkRecord
    BY <1>1 DEF WorkRecord, Steps
  <2>. QED
    BY <1>1, <1>2, <2>1, ProceedStep DEF TurnStarts, At
<1>3. ASSUME NEW n \in 0..MaxAgents, SupervisorAnswers(j, n)
      PROVE  Alone'
  <2>1. j \in Turns => talk' = j
    BY <1>3 DEF SupervisorAnswers, At, Alone, TurnsDoNotMix
  <2>2. n \in Nat
    BY OrchestrationAssumption
  <2>3. [work[j] EXCEPT !.pc = "agents", !.agents = n] \in WorkRecord
    BY <1>1, <2>2 DEF WorkRecord, Steps
  <2>. QED
    BY <1>1, <1>3, <2>1, <2>3, ProceedStep DEF SupervisorAnswers, At
<1>4. CASE AgentReplies(j)
  <2>1. j \in Turns => talk' = j
    BY <1>4 DEF AgentReplies, At, Alone, TurnsDoNotMix
  <2>2. work[j].agents - 1 \in Nat
    BY <1>1, <1>4 DEF AgentReplies, WorkRecord
  <2>3. [work[j] EXCEPT !.agents = work[j].agents - 1] \in WorkRecord
    BY <1>1, <2>2 DEF WorkRecord
  <2>. QED
    BY <1>1, <1>4, <2>1, <2>3, ProceedStep DEF AgentReplies, At
<1>5. CASE TurnCompletes(j)
  <2>1. /\ [work[j] EXCEPT !.pc = "finished"] \in WorkRecord
        /\ [work[j] EXCEPT !.pc = "finished"].pc = "finished"
    BY <1>1 DEF WorkRecord, Steps
  <2>. QED
    BY <1>1, <1>5, <2>1, ProceedStep DEF TurnCompletes, At
<1>. QED
  BY <1>2, <1>3, <1>4, <1>5

LEMMA ReviewKeeps ==
    ASSUME Alone, NEW j \in Jobs,
           ReviewBegins(j) \/ ReviewPublished(j) \/ (\E p \in BOOLEAN : ReviewStored(j, p))
    PROVE  Alone'
<1>1. work[j] \in WorkRecord /\ rubric \in [Jobs -> Nat] /\ rubric[j] \in Nat
  BY DEF Alone, Typed
<1>2. CASE ReviewBegins(j)
  <2>1. /\ [work[j] EXCEPT !.pc = "review", !.checks = rubric[j]] \in WorkRecord
        /\ [work[j] EXCEPT !.pc = "review", !.checks = rubric[j]].pc = "review"
    BY <1>1 DEF WorkRecord, Steps
  <2>. QED
    BY <1>1, <1>2, <2>1, ProceedStep DEF ReviewBegins, At
<1>3. CASE ReviewPublished(j)
  <2>1. /\ [work[j] EXCEPT !.pc = "finished"] \in WorkRecord
        /\ [work[j] EXCEPT !.pc = "finished"].pc = "finished"
    BY <1>1 DEF WorkRecord, Steps
  <2>. QED
    BY <1>1, <1>3, <2>1, ProceedStep DEF ReviewPublished, At
<1>4. ASSUME NEW p \in BOOLEAN, ReviewStored(j, p)
      PROVE  Alone'
  <2>1. work[j].checks \in Nat /\ work[j].checks + 1 \in Nat
    BY <1>1 DEF WorkRecord
  <2>2. rubric' \in [Jobs -> Nat]
    BY <1>1, <1>4, <2>1 DEF ReviewStored
  <2>3. /\ [work[j] EXCEPT !.pc = "reviewed"] \in WorkRecord
        /\ [work[j] EXCEPT !.pc = "reviewed"].pc = "reviewed"
    BY <1>1 DEF WorkRecord, Steps
  <2>. QED
    BY <1>1, <1>4, <2>2, <2>3, ProceedStep DEF ReviewStored, At
<1>. QED
  BY <1>2, <1>3, <1>4

LEMMA OverloadKeeps ==
    ASSUME Alone, NEW j \in Jobs, Overloaded(j)
    PROVE  Alone'
<1>1. work \in [Jobs -> WorkRecord] /\ work[j] \in WorkRecord /\ rubric \in [Jobs -> Nat]
  BY DEF Alone, Typed
<1>2. In(j, "active") /\ UNCHANGED <<kind, job, rubric, talk>>
  BY DEF Overloaded, Asking
<1>3. j \in Turns /\ work[j].pc \in {"supervisor", "agents"} => talk' = j
  BY <1>2 DEF Alone, TurnsDoNotMix
<1>4. CASE work' = [work EXCEPT ![j].tries = @ + 1]
  <2>1. work' = [work EXCEPT ![j] = [work[j] EXCEPT !.tries = work[j].tries + 1]]
    BY <1>1, <1>4
  <2>2. /\ [work[j] EXCEPT !.tries = work[j].tries + 1] \in WorkRecord
        /\ [work[j] EXCEPT !.tries = work[j].tries + 1].pc = work[j].pc
    BY <1>1 DEF WorkRecord
  <2>. QED
    BY <1>1, <1>2, <1>3, <2>1, <2>2, AttemptStep
<1>5. CASE work' = [work EXCEPT ![j].model = "fallback", ![j].tries = 0]
  <2>1. work' = [work EXCEPT ![j] = [work[j] EXCEPT !.model = "fallback", !.tries = 0]]
    BY <1>1, <1>5
  <2>2. /\ [work[j] EXCEPT !.model = "fallback", !.tries = 0] \in WorkRecord
        /\ [work[j] EXCEPT !.model = "fallback", !.tries = 0].pc = work[j].pc
    BY <1>1 DEF WorkRecord
  <2>. QED
    BY <1>1, <1>2, <1>3, <2>1, <2>2, AttemptStep
<1>. QED
  BY <1>4, <1>5 DEF Overloaded

LEMMA NextAlone ==
    ASSUME Alone, [Next]_vars
    PROVE  Alone'
<1>1. CASE UNCHANGED vars
  BY <1>1 DEF vars, Alone, Typed, OneActive, NoneKept, TurnsDoNotMix, Turns, In
<1>. QED
  BY <1>1, QueueKeeps, EndsKeep, TurnKeeps, ReviewKeeps, OverloadKeeps DEF Next, Attempt

(* What an attempt says belongs to the turn that was announced last, for   *)
(* any number of jobs and tries, whatever throws, stalls or is overloaded. *)
THEOREM TurnsKeptApart == Spec => []TurnsDoNotMix
<1>1. ASSUME Init PROVE Alone
  <2>1. Typed
    BY <1>1 DEF Init, Typed, NotQueued, Begin, JobRecord, JobStates, WorkRecord, Steps
  <2>2. \A j \in Jobs : ~In(j, "active") /\ work[j] = Begin
    BY <1>1 DEF Init, In, NotQueued
  <2>. QED
    BY <2>1, <2>2 DEF Alone, OneActive, NoneKept, TurnsDoNotMix, Turns
<1>2. Alone => TurnsDoNotMix
  BY DEF Alone
<1>. QED
  BY <1>1, <1>2, NextAlone, PTL DEF Spec

==============================================================================
