---------------------------- MODULE PrValidation ----------------------------
(***************************************************************************)
(* Validation of pull requests on GitHub webhooks                          *)
(* (webhook.controller.ts, webhook-pr-validation.service.ts and the two    *)
(* pr_validation tables of workspace-persistence.service.ts).              *)
(*                                                                         *)
(* A delivery resets the pull request's failure streak if it opens or      *)
(* merges it, announces the event, and then validates on the spot or hands *)
(* the commit to a queue: BullMQ, whose worker runs in the API process or  *)
(* in one of its own, or a queue in memory that the API process pumps.     *)
(*                                                                         *)
(* JavaScript runs each process's tasks one at a time and changes task     *)
(* only at an await.  The checks themselves (execSync) block the process,  *)
(* so reading the streak and running the checks is one step; recording the *)
(* outcome is three SQL statements, between which only another process can *)
(* run.                                                                    *)
(***************************************************************************)
EXTENDS Integers, Sequences, FiniteSets

CONSTANTS
    Handlers,   \* webhook deliveries in progress at one time
    Workers,    \* BullMQ workers, one job at a time each (concurrency 1)
    Pump,       \* the loop that empties the queue in memory
    Sessions,   \* the sessions that repositories are routed to
    Prs,        \* pull request numbers; each repository counts from 1
    Shas,       \* commits
    None,       \* no job
    Async,      \* WEBHOOK_VALIDATION_ASYNC
    Bull,       \* "off"; "inprocess"; "separate" (INTEGRATION_BULLMQ_SEPARATE_WORKER)
    MayThrow,   \* the tasks whose SQL statements and events may fail (model switch)
    MayCrash,   \* the tasks whose process may die (model switch)
    LoopLimit,  \* 5 in the code
    MaxLoad,    \* bound on the deliveries not yet dealt with (model bound)
    MaxStreak   \* bound on the stored streak (model bound)

ASSUME PrValidationAssumption ==
    /\ Async \in BOOLEAN
    /\ Bull \in {"off", "inprocess", "separate"}
    /\ Bull = "off" => Workers = {}
    /\ Pump \notin Handlers \cup Workers
    /\ Handlers \cap Workers = {}
    /\ IsFiniteSet(Handlers) /\ IsFiniteSet(Workers)
    /\ None \notin [session: Sessions, pr: Prs, sha: Shas]
    /\ LoopLimit \in Nat \ {0} /\ MaxLoad \in Nat /\ MaxStreak \in Nat

(* Mutant: a longer retry policy. *)
AttemptsSix == 6

Attempts == 3       \* BullMQ: attempts
MaxStalled == 1     \* BullMQ: a job whose worker lost its lock is run again once

Job == [session: Sessions, pr: Prs, sha: Shas]

Tasks == Handlers \cup Workers \cup {Pump}

Process(t) == IF t \in Workers /\ Bull = "separate" THEN t ELSE "api"

VARIABLES
    streak,         \* pr_validation_failure_streak
    cache,          \* pr_validation_cache: the outcome stored for a pull request
    tasks,          \* what each handler, each worker and the pump is doing
    memoryQueue,    \* WebhookPrValidationService.memoryQueue
    adding,         \* bullQueue.add calls under way, one per handler
    bull,           \* the BullMQ queue in Redis
    inARow,         \* history variable: each session's own failures in a row
    runs,           \* history variable: outcomes recorded for a BullMQ job since it was added
    threw           \* history variable: a job threw in the pump and no job has been queued since

vars == <<streak, cache, tasks, memoryQueue, adding, bull, inARow, runs, threw>>

queues  == <<memoryQueue, adding, bull>>
ghosts  == <<inARow, runs, threw>>

----------------------------------------------------------------------------
(* Tasks *)

Idle == [pc |-> "idle", job |-> None, passed |-> FALSE, prev |-> 0, awaits |-> <<>>]

Task ==
    [pc: {"idle", "announcing", "merging", "answering",
          "validated", "saved", "counting", "publishing"},
     job: Job \cup {None}, passed: BOOLEAN, prev: Nat,
     awaits: Seq({"LOOP_DETECTED", "PASSED", "FAILED", "comment"})]

Doing(pc, job) == [Idle EXCEPT !.pc = pc, !.job = job]

Publishing(job, awaits) == [Doing("publishing", job) EXCEPT !.awaits = awaits]

(* No other task of t's process is between two SQL statements of one       *)
(* synchronous stretch: t may run.                                         *)
MayRun(t) ==
    \A u \in Tasks \ {t} :
        Process(u) = Process(t) => tasks[u].pc \notin {"saved", "counting"}

(* Mutant: the limit is passed, not reached. *)
TakeUpBeyondLimit(job) ==
    IF streak[job.pr] > LoopLimit
    THEN {Publishing(job, <<"LOOP_DETECTED">>)}
    ELSE {[Doing("validated", job) EXCEPT !.passed = p] : p \in BOOLEAN}

(* The streak is read and, below the limit, the checks run: what a task    *)
(* that takes up a job may then be.                                        *)
TakeUp(job) ==
    IF streak[job.pr] >= LoopLimit
    THEN {Publishing(job, <<"LOOP_DETECTED">>)}
    ELSE {[Doing("validated", job) EXCEPT !.passed = p] : p \in BOOLEAN}

Init ==
    /\ streak = [p \in Prs |-> 0]
    /\ cache = [p \in Prs |-> "none"]
    /\ tasks = [t \in Tasks |-> Idle]
    /\ memoryQueue = <<>>
    /\ adding = [h \in Handlers |-> None]
    /\ bull = [j \in Job |-> [state |-> "absent", attempts |-> 0, stalls |-> 0, by |-> None]]
    /\ inARow = [sp \in Sessions \X Prs |-> 0]
    /\ runs = [j \in Job |-> 0]
    /\ threw = FALSE

----------------------------------------------------------------------------
(* Deliveries *)

Load ==
    Len(memoryQueue) + Cardinality({h \in Handlers : tasks[h].pc # "idle" \/ adding[h] # None})

(* resetPrValidationStreak *)
ResetStreak(job) ==
    /\ streak' = [streak EXCEPT ![job.pr] = 0]
    /\ inARow' = [inARow EXCEPT ![<<job.session, job.pr>>] = 0]

Arrives(h) ==
    /\ tasks[h].pc = "idle" /\ adding[h] = None
    /\ \/ Load < MaxLoad
       \/ tasks[Pump].pc = "idle" /\ Load = Len(memoryQueue)
    /\ MayRun(h)

Opened(h) ==
    /\ Arrives(h)
    /\ \E job \in Job :
          /\ ResetStreak(job)
          /\ tasks' = [tasks EXCEPT ![h] = Doing("announcing", job)]
    /\ UNCHANGED <<cache, queues, runs, threw>>

Synchronize(h) ==
    /\ Arrives(h)
    /\ \E job \in Job : tasks' = [tasks EXCEPT ![h] = Doing("announcing", job)]
    /\ UNCHANGED <<streak, cache, queues, ghosts>>

Merged(h) ==
    /\ Arrives(h)
    /\ \E job \in Job :
          /\ ResetStreak(job)
          /\ tasks' = [tasks EXCEPT ![h] = Doing("merging", job)]
    /\ UNCHANGED <<cache, queues, runs, threw>>

(* enqueue into memory.  A pump that is not running starts at once, inside *)
(* this call: the job's checks have run by the time it returns.            *)
EnqueueInMemory(job, others) ==
    /\ threw' = FALSE
    /\ IF tasks[Pump].pc = "idle"
       THEN LET queue == Append(memoryQueue, job) IN
            /\ \E t \in TakeUp(Head(queue)) : tasks' = [others EXCEPT ![Pump] = t]
            /\ memoryQueue' = Tail(queue)
       ELSE /\ tasks' = others
            /\ memoryQueue' = Append(memoryQueue, job)

(* The announcement is out: scheduleOrRunValidation. *)
Schedule(h) ==
    LET job == tasks[h].job
        answering == [tasks EXCEPT ![h] = Doing("answering", job)]
    IN
    /\ tasks[h].pc = "announcing" /\ MayRun(h)
    /\ \/ /\ ~Async \/ streak[job.pr] >= LoopLimit
          /\ \E t \in TakeUp(job) : tasks' = [tasks EXCEPT ![h] = t]
          /\ UNCHANGED <<queues, threw>>
       \/ /\ Async /\ streak[job.pr] < LoopLimit /\ Bull = "off"
          /\ EnqueueInMemory(job, answering)
          /\ UNCHANGED <<adding, bull>>
       \/ /\ Async /\ streak[job.pr] < LoopLimit /\ Bull # "off"
          /\ adding' = [adding EXCEPT ![h] = job]
          /\ tasks' = answering
          /\ UNCHANGED <<memoryQueue, bull, threw>>
    /\ UNCHANGED <<streak, cache, inARow, runs>>

(* Mutant: the early return for a merged pull request gives no answer. *)
AnswerUnlessMerged(h) ==
    /\ tasks[h].pc = "answering" /\ MayRun(h)
    /\ tasks' = [tasks EXCEPT ![h] = Idle]
    /\ UNCHANGED <<streak, cache, queues, ghosts>>

(* The answer to GitHub, after the audit row. *)
Answer(h) ==
    /\ tasks[h].pc \in {"merging", "answering"} /\ MayRun(h)
    /\ tasks' = [tasks EXCEPT ![h] = Idle]
    /\ UNCHANGED <<streak, cache, queues, ghosts>>

----------------------------------------------------------------------------
(* BullMQ *)

(* add with a job id Redis already knows adds nothing. *)
AddSucceeds(h) ==
    LET job == adding[h] IN
    /\ job # None
    /\ adding' = [adding EXCEPT ![h] = None]
    /\ IF bull[job].state = "absent"
       THEN /\ bull' = [bull EXCEPT ![job] = [state |-> "waiting", attempts |-> 0,
                                              stalls |-> 0, by |-> None]]
            /\ runs' = [runs EXCEPT ![job] = 0]
       ELSE UNCHANGED <<bull, runs>>
    /\ UNCHANGED <<streak, cache, tasks, memoryQueue, inARow, threw>>

AddFails(h) ==
    /\ h \in MayThrow /\ adding[h] # None /\ MayRun(h)
    /\ EnqueueInMemory(adding[h], tasks)
    /\ adding' = [adding EXCEPT ![h] = None]
    /\ UNCHANGED <<streak, cache, bull, inARow, runs>>

WorkerTakes(w, job) ==
    /\ tasks[w].pc = "idle" /\ MayRun(w)
    /\ bull[job].state = "waiting"
    /\ bull' = [bull EXCEPT ![job].state = "active", ![job].by = w]
    /\ \E t \in TakeUp(job) : tasks' = [tasks EXCEPT ![w] = t]
    /\ UNCHANGED <<streak, cache, memoryQueue, adding, ghosts>>

(* The checks block the worker, so that it may lose its lock on the job,   *)
(* and a dead worker does: BullMQ hands the job out again, MaxStalled      *)
(* times.  A living worker carries on all the same.                        *)
Stall(job) ==
    /\ bull[job].state = "active"
    /\ bull' = [bull EXCEPT ![job].state = IF @ = "active" /\ bull[job].stalls < MaxStalled
                                           THEN "waiting" ELSE "failed",
                            ![job].stalls = @ + 1]
    /\ UNCHANGED <<streak, cache, tasks, memoryQueue, adding, ghosts>>

(* removeOnComplete and removeOnFail, by age: an hour or a day later,      *)
(* nobody works on the job any more.                                       *)
Forget(job) ==
    /\ bull[job].state \in {"completed", "failed"}
    /\ \A w \in Workers : tasks[w].job # job
    /\ bull' = [bull EXCEPT ![job].state = "absent"]
    /\ UNCHANGED <<streak, cache, tasks, memoryQueue, adding, ghosts>>

Holds(w, job) == bull[job].state = "active" /\ bull[job].by = w

Completed(w, job) ==
    IF Holds(w, job) THEN [bull EXCEPT ![job].state = "completed"] ELSE bull

(* Mutant: retries without end. *)
RetriedForever(w, job) ==
    IF Holds(w, job) THEN [bull EXCEPT ![job].state = "waiting"] ELSE bull

Retried(w, job) ==
    IF Holds(w, job)
    THEN [bull EXCEPT ![job].attempts = @ + 1,
                      ![job].state = IF bull[job].attempts + 1 < Attempts
                                     THEN "waiting" ELSE "failed"]
    ELSE bull

----------------------------------------------------------------------------
(* finalizeValidation *)

(* savePrValidationResult *)
SaveResult(t) ==
    LET task == tasks[t] IN
    /\ task.pc = "validated" /\ MayRun(t)
    /\ cache' = [cache EXCEPT ![task.job.pr] = IF task.passed THEN "passed" ELSE "failed"]
    /\ tasks' = [tasks EXCEPT ![t].pc = "saved"]
    /\ UNCHANGED <<streak, queues, ghosts>>

CountRun(t) ==
    runs' = IF t \in Workers THEN [runs EXCEPT ![tasks[t].job] = @ + 1] ELSE runs

(* Mutant: a success does not clear the streak. *)
RecordPassedKeepsStreak(t) ==
    LET task == tasks[t] IN
    /\ task.pc = "saved" /\ task.passed
    /\ CountRun(t)
    /\ tasks' = [tasks EXCEPT ![t] = Publishing(task.job, <<"PASSED">>)]
    /\ UNCHANGED <<streak, inARow, cache, queues, threw>>

(* recordValidationOutcome of a success *)
RecordPassed(t) ==
    LET task == tasks[t] IN
    /\ task.pc = "saved" /\ task.passed
    /\ ResetStreak(task.job)
    /\ CountRun(t)
    /\ tasks' = [tasks EXCEPT ![t] = Publishing(task.job, <<"PASSED">>)]
    /\ UNCHANGED <<cache, queues, threw>>

(* Mutant: the failure is counted before its outcome is stored. *)
ReadStreakUnsaved(t) ==
    LET task == tasks[t] IN
    /\ task.pc = "validated" /\ ~task.passed /\ MayRun(t)
    /\ tasks' = [tasks EXCEPT ![t].pc = "counting", ![t].prev = streak[task.job.pr]]
    /\ UNCHANGED <<streak, cache, queues, ghosts>>

(* recordValidationOutcome of a failure reads the streak... *)
ReadStreak(t) ==
    LET task == tasks[t] IN
    /\ task.pc = "saved" /\ ~task.passed
    /\ tasks' = [tasks EXCEPT ![t].pc = "counting", ![t].prev = streak[task.job.pr]]
    /\ UNCHANGED <<streak, cache, queues, ghosts>>

(* Mutant: the alarm is raised one failure early. *)
FailureEventsEarly(next) ==
    IF next = LoopLimit - 1 THEN <<"LOOP_DETECTED", "FAILED", "comment">> ELSE <<"FAILED", "comment">>

FailureEvents(next) ==
    IF next = LoopLimit THEN <<"LOOP_DETECTED", "FAILED", "comment">> ELSE <<"FAILED", "comment">>

(* Mutant: the failure is recorded by the check and again by its caller. *)
WriteStreakTwice(t) ==
    LET task == tasks[t]
        own == <<task.job.session, task.job.pr>>
    IN
    /\ task.pc = "counting" /\ task.prev < MaxStreak
    /\ streak' = [streak EXCEPT ![task.job.pr] = task.prev + 2]
    /\ inARow' = [inARow EXCEPT ![own] = IF @ < LoopLimit THEN @ + 1 ELSE @]
    /\ CountRun(t)
    /\ tasks' = [tasks EXCEPT ![t] = Publishing(task.job, FailureEvents(task.prev + 2))]
    /\ UNCHANGED <<cache, queues, threw>>

(* ...and stores what it read plus one. *)
WriteStreak(t) ==
    LET task == tasks[t]
        own == <<task.job.session, task.job.pr>>
    IN
    /\ task.pc = "counting" /\ task.prev < MaxStreak
    /\ streak' = [streak EXCEPT ![task.job.pr] = task.prev + 1]
    /\ inARow' = [inARow EXCEPT ![own] = IF @ < LoopLimit THEN @ + 1 ELSE @]
    /\ CountRun(t)
    /\ tasks' = [tasks EXCEPT ![t] = Publishing(task.job, FailureEvents(task.prev + 1))]
    /\ UNCHANGED <<cache, queues, threw>>

(* An event or the comment on GitHub is out and there is another to come. *)
NextAwait(t) ==
    /\ tasks[t].pc = "publishing" /\ Len(tasks[t].awaits) > 1 /\ MayRun(t)
    /\ tasks' = [tasks EXCEPT ![t].awaits = Tail(@)]
    /\ UNCHANGED <<streak, cache, queues, ghosts>>

LastAwait(t) ==
    tasks[t].pc = "publishing" /\ Len(tasks[t].awaits) = 1 /\ MayRun(t)

(* Mutant: a finished handler keeps its job. *)
HandlerDoneKeepsJob(h) ==
    /\ LastAwait(h)
    /\ tasks' = [tasks EXCEPT ![h].pc = "idle"]
    /\ UNCHANGED <<streak, cache, queues, ghosts>>

HandlerDone(h) ==
    /\ LastAwait(h)
    /\ tasks' = [tasks EXCEPT ![h] = Idle]
    /\ UNCHANGED <<streak, cache, queues, ghosts>>

WorkerDone(w) ==
    /\ LastAwait(w)
    /\ bull' = Completed(w, tasks[w].job)
    /\ tasks' = [tasks EXCEPT ![w] = Idle]
    /\ UNCHANGED <<streak, cache, memoryQueue, adding, ghosts>>

(* Mutant: the pump takes one job and stops. *)
PumpDoneOnce ==
    /\ LastAwait(Pump)
    /\ tasks' = [tasks EXCEPT ![Pump] = Idle]
    /\ UNCHANGED <<streak, cache, queues, ghosts>>

(* Mutant: the pump takes the job that came last. *)
PumpDoneNewest ==
    /\ LastAwait(Pump)
    /\ IF memoryQueue = <<>>
       THEN tasks' = [tasks EXCEPT ![Pump] = Idle] /\ UNCHANGED memoryQueue
       ELSE /\ \E t \in TakeUp(memoryQueue[Len(memoryQueue)]) : tasks' = [tasks EXCEPT ![Pump] = t]
            /\ memoryQueue' = SubSeq(memoryQueue, 1, Len(memoryQueue) - 1)
    /\ UNCHANGED <<streak, cache, adding, bull, ghosts>>

(* The pump goes on to the next job without letting go of the process. *)
PumpDone ==
    /\ LastAwait(Pump)
    /\ IF memoryQueue = <<>>
       THEN tasks' = [tasks EXCEPT ![Pump] = Idle] /\ UNCHANGED memoryQueue
       ELSE /\ \E t \in TakeUp(Head(memoryQueue)) : tasks' = [tasks EXCEPT ![Pump] = t]
            /\ memoryQueue' = Tail(memoryQueue)
    /\ UNCHANGED <<streak, cache, adding, bull, ghosts>>

----------------------------------------------------------------------------
(* Failures *)

(* A statement or an event of t throws: GitHub gets an error, BullMQ tries *)
(* again, and the pump stops where it is.  A comment never throws.         *)
Throw(t) ==
    /\ t \in MayThrow
    /\ tasks[t].pc \notin {"idle", "answering"}
    /\ tasks[t].pc = "publishing" => Head(tasks[t].awaits) # "comment"
    /\ MayRun(t)
    /\ tasks' = [tasks EXCEPT ![t] = Idle]
    /\ bull' = IF t \in Workers THEN Retried(t, tasks[t].job) ELSE bull
    /\ threw' = (threw \/ t = Pump)
    /\ UNCHANGED <<streak, cache, memoryQueue, adding, inARow, runs>>

(* A process dies and is started again: what it had in memory is gone. *)
Crash(t) ==
    /\ t \in MayCrash
    /\ tasks' = [u \in Tasks |-> IF Process(u) = Process(t) THEN Idle ELSE tasks[u]]
    /\ IF Process(t) = "api"
       THEN /\ memoryQueue' = <<>>
            /\ adding' = [h \in Handlers |-> None]
            /\ threw' = FALSE
       ELSE UNCHANGED <<memoryQueue, adding, threw>>
    /\ UNCHANGED <<streak, cache, bull, inARow, runs>>

----------------------------------------------------------------------------

Finalize(t) ==
    SaveResult(t) \/ RecordPassed(t) \/ ReadStreak(t) \/ WriteStreak(t) \/ NextAwait(t)

Deliver(h) == Opened(h) \/ Synchronize(h) \/ Merged(h)

Handle(h) == Schedule(h) \/ Answer(h) \/ Finalize(h) \/ HandlerDone(h)

Add(h) == AddSucceeds(h) \/ AddFails(h)

RunPump == Finalize(Pump) \/ PumpDone

Work(w) == (\E job \in Job : WorkerTakes(w, job)) \/ Finalize(w) \/ WorkerDone(w)

Next ==
    \/ \E h \in Handlers : Deliver(h) \/ Handle(h) \/ Add(h)
    \/ RunPump
    \/ \E w \in Workers : Work(w)
    \/ \E job \in Job : Stall(job) \/ Forget(job)
    \/ \E t \in Tasks : Throw(t) \/ Crash(t)

Spec == Init /\ [][Next]_vars

(* The event loop serves its tasks in the order in which they become       *)
(* ready, so one that is ready again and again does run; a worker takes    *)
(* each waiting job in its turn.                                           *)
Fairness ==
    /\ \A h \in Handlers : SF_vars(Handle(h)) /\ WF_vars(Add(h))
    /\ SF_vars(RunPump)
    /\ \A w \in Workers :
          /\ SF_vars(Finalize(w) \/ WorkerDone(w))
          /\ \A job \in Job : SF_vars(WorkerTakes(w, job))
    /\ \A job \in Job : WF_vars(Stall(job) /\ \A w \in Workers : tasks[w].job # job)

FairSpec == Spec /\ Fairness

----------------------------------------------------------------------------
(* Properties *)

BullEntry ==
    [state: {"absent", "waiting", "active", "completed", "failed"},
     attempts: 0..Attempts, stalls: 0..MaxStalled + 1, by: Workers \cup {None}]

(* Every task is at a step with what that step needs. *)
TypeOK ==
    /\ streak \in [Prs -> 0..MaxStreak]
    /\ cache \in [Prs -> {"none", "passed", "failed"}]
    /\ tasks \in [Tasks -> Task]
    /\ memoryQueue \in Seq(Job)
    /\ adding \in [Handlers -> Job \cup {None}]
    /\ bull \in [Job -> BullEntry]
    /\ inARow \in [Sessions \X Prs -> 0..LoopLimit]
    /\ runs \in [Job -> Nat]
    /\ threw \in BOOLEAN
    /\ \A t \in Tasks : /\ tasks[t].pc = "idle" <=> tasks[t].job = None
                        /\ tasks[t].pc = "publishing" => tasks[t].awaits # <<>>

(* With one task that validates, the stored streak keeps LoopGuard's       *)
(* promise, whatever waits in the queue, throws, is retried or crashes:    *)
(* each job reads the streak again when its turn comes.                    *)
Guard == INSTANCE LoopGuard WITH failures <- streak

ImplementsLoopGuard == Guard!Spec

(* The loop event is earned: it goes out only when the session's own pull  *)
(* request has failed LoopLimit times in a row ("the same PR failing five  *)
(* times in a row").                                                       *)
EarnedStep ==
    \A t \in Tasks :
        /\ tasks[t].pc # "publishing" \/ tasks[t].job # tasks'[t].job
        /\ tasks'[t].pc = "publishing" /\ Head(tasks'[t].awaits) = "LOOP_DETECTED"
        => inARow'[<<tasks'[t].job.session, tasks'[t].job.pr>>] = LoopLimit

LoopIsEarned == [][EarnedStep]_vars

(* No failure is counted whose outcome was not stored first, whatever      *)
(* throws or dies in between: the status endpoint never shows a streak     *)
(* without an outcome.                                                     *)
CountedIsStored == \A p \in Prs : streak[p] > 0 => cache[p] # "none"

(* While nothing throws, what the status endpoint shows hangs together:    *)
(* failures in a row go with a stored outcome that is a failure.           *)
StatusIsCoherent ==
    \A p \in Prs :
        /\ streak[p] > 0
        /\ \A t \in Tasks : tasks[t].pc \notin {"saved", "counting"}
        => cache[p] = "failed"

(* Jobs wait in memory without a pump only after a job that threw. *)
StrandedOnlyByFailure ==
    memoryQueue # <<>> /\ tasks[Pump].pc = "idle" => threw

(* With validation within the deliveries the streak passes the limit by no *)
(* more than the other deliveries that were under way when it was reached. *)
BoundedOvershoot ==
    ~Async => \A p \in Prs : streak[p] < LoopLimit + Cardinality(Handlers)

(* Retries and stalls of one BullMQ job, which record a failure each, stay *)
(* below the limit: one commit alone never stops the validation of its PR. *)
OneCommitNeverLoops == \A job \in Job : runs[job] < LoopLimit

(* Every delivery is answered, be it before or after its checks. *)
EveryDeliveryAnswered ==
    \A h \in Handlers : tasks[h].pc # "idle" ~> tasks[h].pc = "idle"

Queued(job) == \E i \in DOMAIN memoryQueue : memoryQueue[i] = job

(* The pump comes to a job that waits in memory. *)
HasItsTurn(job) == Queued(job) ~> tasks[Pump].job = job

(* Every BullMQ job is completed or given up, whatever throws and crashes. *)
JobsSettle ==
    \A job \in Job : bull[job].state = "waiting" ~> bull[job].state \in {"completed", "failed"}

==============================================================================
