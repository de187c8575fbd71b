------------------------- MODULE PrValidationProofs -------------------------
(***************************************************************************)
(* Proofs about PrValidation, for every set of deliveries, workers,        *)
(* sessions, pull requests and commits, and every way of starting the API. *)
(***************************************************************************)
EXTENDS PrValidation, FiniteSetTheorems, SequenceTheorems, TLAPS

----------------------------------------------------------------------------
(* What a task can be *)

Awaits == {"LOOP_DETECTED", "PASSED", "FAILED", "comment"}

(* Between the checks and the recording of their outcome. *)
Checking == {"validated", "saved", "counting"}

(* Between two SQL statements. *)
Busy == {"saved", "counting"}

Sound(task) ==
    /\ task \in Task
    /\ task.pc = "idle" <=> task.job = None
    /\ task.pc = "publishing" => task.awaits # <<>>

LEMMA NoJob == None \notin Job
BY PrValidationAssumption DEF Job

LEMMA IdleSound == Sound(Idle)
BY DEF Sound, Idle, Task

LEMMA DoingSound ==
    ASSUME NEW job \in Job, NEW pc \in {"announcing", "merging", "answering", "validated"}
    PROVE  Sound(Doing(pc, job)) /\ Doing(pc, job).pc = pc /\ Doing(pc, job).job = job
<1>1. Idle \in Task
  BY IdleSound DEF Sound
<1>2. Doing(pc, job) \in Task
  BY <1>1 DEF Doing, Task
<1>3. Doing(pc, job).pc = pc /\ Doing(pc, job).job = job
  BY DEF Doing, Idle
<1>. QED
  BY <1>2, <1>3, NoJob DEF Sound

LEMMA PublishingSound ==
    ASSUME NEW job \in Job, NEW awaits \in Seq(Awaits), awaits # <<>>
    PROVE  /\ Sound(Publishing(job, awaits))
           /\ Publishing(job, awaits).pc = "publishing"
           /\ Publishing(job, awaits).job = job
           /\ Publishing(job, awaits).awaits = awaits
<1>1. Idle \in Task
  BY IdleSound DEF Sound
<1>2. Doing("publishing", job) \in Task
  BY <1>1 DEF Doing, Task
<1>3. Doing("publishing", job).pc = "publishing" /\ Doing("publishing", job).job = job
  BY DEF Doing, Idle
<1>4. Publishing(job, awaits) \in Task
  BY <1>2 DEF Publishing, Task, Awaits
<1>5. /\ Publishing(job, awaits).pc = "publishing"
      /\ Publishing(job, awaits).job = job
      /\ Publishing(job, awaits).awaits = awaits
  BY <1>2, <1>3 DEF Publishing, Task
<1>. QED
  BY <1>4, <1>5, NoJob DEF Sound

(* The sequences of events that are published. *)
LEMMA Events ==
    /\ <<"LOOP_DETECTED">> \in Seq(Awaits) /\ <<"LOOP_DETECTED">> # <<>>
    /\ <<"PASSED">> \in Seq(Awaits) /\ <<"PASSED">> # <<>>
    /\ \A n : FailureEvents(n) \in Seq(Awaits) /\ FailureEvents(n) # <<>>
    /\ Head(<<"LOOP_DETECTED">>) = "LOOP_DETECTED" /\ Head(<<"PASSED">>) = "PASSED"
    /\ \A n : n # LoopLimit => Head(FailureEvents(n)) = "FAILED"
<1>1. /\ <<"LOOP_DETECTED">> \in Seq(Awaits) /\ <<"LOOP_DETECTED">> # <<>>
      /\ <<"PASSED">> \in Seq(Awaits) /\ <<"PASSED">> # <<>>
  BY DEF Awaits
<1>2. /\ <<"FAILED", "comment">> \in Seq(Awaits) /\ <<"FAILED", "comment">> # <<>>
      /\ <<"LOOP_DETECTED", "FAILED", "comment">> \in Seq(Awaits)
      /\ <<"LOOP_DETECTED", "FAILED", "comment">> # <<>>
  BY DEF Awaits
<1>3. ASSUME NEW n
      PROVE  FailureEvents(n) \in Seq(Awaits) /\ FailureEvents(n) # <<>>
  BY <1>2 DEF FailureEvents
<1>4. /\ Head(<<"LOOP_DETECTED">>) = "LOOP_DETECTED" /\ Head(<<"PASSED">>) = "PASSED"
      /\ Head(<<"FAILED", "comment">>) = "FAILED"
  OBVIOUS
<1>5. \A n : n # LoopLimit => Head(FailureEvents(n)) = "FAILED"
  BY <1>4 DEF FailureEvents
<1>. QED
  BY <1>1, <1>3, <1>4, <1>5

(* A job whose turn has come is refused at the limit and checked below it. *)
LEMMA TakenUp ==
    ASSUME NEW job \in Job, NEW task \in TakeUp(job), streak[job.pr] \in Nat
    PROVE  /\ Sound(task) /\ task.job = job
           /\ \/ streak[job.pr] >= LoopLimit /\ task.pc = "publishing"
              \/ streak[job.pr] < LoopLimit /\ task.pc = "validated"
<1>1. CASE streak[job.pr] >= LoopLimit
  <2>1. task = Publishing(job, <<"LOOP_DETECTED">>)
    BY <1>1 DEF TakeUp
  <2>. QED
    BY <1>1, <2>1, Events, PublishingSound
<1>2. CASE ~(streak[job.pr] >= LoopLimit)
  <2>1. PICK passed \in BOOLEAN : task = [Doing("validated", job) EXCEPT !.passed = passed]
    BY <1>2 DEF TakeUp
  <2>2. Doing("validated", job) \in Task
    BY DoingSound DEF Sound
  <2>3. task \in Task /\ task.job = job /\ task.pc = "validated"
    BY <2>1, <2>2, DoingSound DEF Task
  <2>4. streak[job.pr] < LoopLimit
    BY <1>2, PrValidationAssumption
  <2>. QED
    BY <2>3, <2>4, NoJob DEF Sound
<1>. QED
  BY <1>1, <1>2

----------------------------------------------------------------------------
(* Types.  A BullMQ job that waits or is worked on has tries left, or the  *)
(* counters would grow without end.                                        *)

TasksTyped == tasks \in [Tasks -> Task] /\ \A t \in Tasks : Sound(tasks[t])

CountsTyped ==
    /\ streak \in [Prs -> 0..MaxStreak]
    /\ inARow \in [Sessions \X Prs -> 0..LoopLimit]
    /\ cache \in [Prs -> {"none", "passed", "failed"}]
    /\ runs \in [Job -> Nat]

QueuesTyped ==
    /\ memoryQueue \in Seq(Job)
    /\ adding \in [Handlers -> Job \cup {None}]
    /\ threw \in BOOLEAN

TriesLeft(entry) ==
    entry.state \in {"waiting", "active"} =>
        entry.attempts < Attempts /\ entry.stalls <= MaxStalled

BullTyped == bull \in [Job -> BullEntry] /\ \A job \in Job : TriesLeft(bull[job])

Typed == TasksTyped /\ CountsTyped /\ QueuesTyped /\ BullTyped

LEMMA TypedIsTypeOK == Typed => TypeOK
BY DEF Typed, TypeOK, TasksTyped, Sound, CountsTyped, QueuesTyped, BullTyped

LEMMA InitTyped == Init => Typed
<1>. SUFFICES ASSUME Init PROVE Typed
  OBVIOUS
<1>1. TasksTyped
  <2>1. Idle \in Task /\ \A t \in Tasks : tasks[t] = Idle
    BY IdleSound DEF Init, Sound
  <2>. QED
    BY <2>1, IdleSound DEF Init, TasksTyped
<1>2. CountsTyped
  BY PrValidationAssumption DEF Init, CountsTyped
<1>3. QueuesTyped
  <2>1. memoryQueue \in Seq(Job) /\ adding \in [Handlers -> Job \cup {None}]
    BY DEF Init
  <2>2. threw \in BOOLEAN
    BY DEF Init
  <2>. QED
    BY <2>1, <2>2 DEF QueuesTyped
<1>4. BullTyped
  <2>1. [state |-> "absent", attempts |-> 0, stalls |-> 0, by |-> None] \in BullEntry
    BY DEF BullEntry, Attempts, MaxStalled
  <2>. QED
    BY <2>1 DEF Init, BullTyped, TriesLeft
<1>. QED
  BY <1>1, <1>2, <1>3, <1>4 DEF Typed

LEMMA OneTask ==
    ASSUME TasksTyped, NEW t \in Tasks, NEW task, Sound(task),
           tasks' = [tasks EXCEPT ![t] = task]
    PROVE  TasksTyped' /\ tasks'[t] = task /\ \A u \in Tasks \ {t} : tasks'[u] = tasks[u]
BY DEF TasksTyped, Sound

LEMMA JobOfTask ==
    ASSUME Typed, NEW t \in Tasks, tasks[t].pc # "idle"
    PROVE  /\ tasks[t] \in Task /\ tasks[t].job \in Job
           /\ tasks[t].job.pr \in Prs /\ tasks[t].job.session \in Sessions
           /\ streak[tasks[t].job.pr] \in Nat
BY DEF Typed, TasksTyped, CountsTyped, Sound, Task, Job

LEMMA StreakOfJob ==
    ASSUME Typed, NEW job \in Job
    PROVE  job.pr \in Prs /\ job.session \in Sessions /\ streak[job.pr] \in Nat
BY DEF Typed, CountsTyped, Job

LEMMA ResetTyped ==
    ASSUME Typed, NEW job \in Job, ResetStreak(job), UNCHANGED cache, runs' \in [Job -> Nat]
    PROVE  CountsTyped'
BY StreakOfJob, PrValidationAssumption DEF Typed, CountsTyped, ResetStreak

----------------------------------------------------------------------------
(* Steps.  A quiet step leaves the streaks and outcomes alone and makes no *)
(* task busy; only a fault takes a task away from its checks.              *)

Onward(t) ==
    \/ tasks'[t] = tasks[t]
    \/ tasks'[t].pc \notin Checking \cup {"publishing"}
    \/ \E job \in Job : tasks'[t] \in TakeUp(job)
    \/ /\ tasks[t].pc = "publishing" /\ tasks'[t].pc = "publishing"
       /\ tasks'[t].job = tasks[t].job

Quiet == UNCHANGED <<streak, cache, inARow>> /\ \A t \in Tasks : Onward(t)

Undisturbed == \A t \in Tasks : tasks[t].pc \in Checking => tasks'[t] = tasks[t]

(* A step of one task that is not checking. *)
LEMMA QuietTask ==
    ASSUME Typed, NEW t \in Tasks, NEW task, Sound(task), tasks[t].pc \notin Checking,
           \/ task.pc \notin Checking \cup {"publishing"}
           \/ \E job \in Job : task \in TakeUp(job)
           \/ tasks[t].pc = "publishing" /\ task.pc = "publishing" /\ task.job = tasks[t].job,
           tasks' = [tasks EXCEPT ![t] = task],
           UNCHANGED <<streak, cache, inARow>>
    PROVE  TasksTyped' /\ Quiet /\ Undisturbed
<1>1. TasksTyped
  BY DEF Typed
<1>2. /\ TasksTyped' /\ tasks'[t] = task
      /\ \A u \in Tasks : u # t => tasks'[u] = tasks[u]
  BY <1>1, OneTask
<1>3. Onward(t) /\ \A u \in Tasks : u # t => Onward(u)
  BY <1>2 DEF Onward
<1>. QED
  BY <1>2, <1>3 DEF Quiet, Undisturbed

(* What is the same after a quiet step keeps its type. *)
LEMMA KeepsTypes ==
    ASSUME Typed
    PROVE  /\ UNCHANGED <<streak, cache, inARow>> /\ runs' = runs => CountsTyped'
           /\ UNCHANGED <<memoryQueue, adding, threw>> => QueuesTyped'
           /\ UNCHANGED bull => BullTyped'
BY DEF Typed, CountsTyped, QueuesTyped, BullTyped

LEMMA ArrivalTyped ==
    ASSUME Typed, NEW h \in Handlers, Opened(h) \/ Merged(h)
    PROVE  /\ Typed' /\ MayRun(h) /\ tasks[h].pc = "idle" /\ h \in Tasks
           /\ tasks'[h].pc \notin Checking \cup {"publishing"}
           /\ \A t \in Tasks : t # h => tasks'[t] = tasks[t]
           /\ \E job \in Job : ResetStreak(job)
           /\ UNCHANGED cache
<1>1. PICK job \in Job, pc \in {"announcing", "merging"} :
         ResetStreak(job) /\ tasks' = [tasks EXCEPT ![h] = Doing(pc, job)]
  BY DEF Opened, Merged
<1>2. MayRun(h) /\ tasks[h].pc = "idle" /\ h \in Tasks /\ UNCHANGED <<cache, runs, queues, threw>>
  BY DEF Opened, Merged, Arrives, Tasks
<1>3. Sound(Doing(pc, job)) /\ Doing(pc, job).pc = pc
  BY DoingSound
<1>4. /\ TasksTyped' /\ tasks'[h] = Doing(pc, job)
      /\ \A t \in Tasks : t # h => tasks'[t] = tasks[t]
  BY <1>1, <1>2, <1>3, OneTask DEF Typed
<1>5. runs' \in [Job -> Nat]
  BY <1>2 DEF Typed, CountsTyped
<1>6. CountsTyped'
  BY <1>1, <1>2, <1>5, ResetTyped
<1>7. QueuesTyped' /\ BullTyped'
  BY <1>2, KeepsTypes DEF queues
<1>8. Typed'
  BY <1>4, <1>6, <1>7 DEF Typed
<1>9. tasks'[h].pc \notin Checking \cup {"publishing"}
  BY <1>3, <1>4 DEF Checking
<1>. QED
  BY <1>1, <1>2, <1>4, <1>8, <1>9

(* The sequences of jobs. *)
LEMMA Lined ==
    ASSUME NEW queue \in Seq(Job)
    PROVE  /\ queue # <<>> => Head(queue) \in Job /\ Tail(queue) \in Seq(Job)
           /\ \A job \in Job : Append(queue, job) \in Seq(Job) /\ Append(queue, job) # <<>>
<1>1. queue # <<>> => Head(queue) \in Job /\ Tail(queue) \in Seq(Job)
  BY HeadTailProperties
<1>2. ASSUME NEW job \in Job
      PROVE  Append(queue, job) \in Seq(Job) /\ Append(queue, job) # <<>>
  BY AppendProperties
<1>. QED
  BY <1>1, <1>2

LEMMA Enqueued ==
    ASSUME Typed, NEW job \in Job, NEW others \in [Tasks -> Task],
           \A t \in Tasks : Sound(others[t]), others[Pump] = tasks[Pump],
           EnqueueInMemory(job, others)
    PROVE  /\ TasksTyped' /\ memoryQueue' \in Seq(Job) /\ threw' \in BOOLEAN
           /\ \A t \in Tasks : t # Pump => tasks'[t] = others[t]
           /\ \/ tasks'[Pump] = tasks[Pump]
              \/ /\ tasks[Pump].pc = "idle"
                 /\ \E next \in Job : tasks'[Pump] \in TakeUp(next)
<1>1. memoryQueue \in Seq(Job) /\ Pump \in Tasks
  BY DEF Typed, QueuesTyped, Tasks
<1>2. threw' \in BOOLEAN
  BY DEF EnqueueInMemory
<1>3. CASE tasks[Pump].pc = "idle"
  <2>. DEFINE queue == Append(memoryQueue, job)
  <2>1. PICK task \in TakeUp(Head(queue)) :
           tasks' = [others EXCEPT ![Pump] = task] /\ memoryQueue' = Tail(queue)
    BY <1>3 DEF EnqueueInMemory
  <2>2. Head(queue) \in Job /\ Tail(queue) \in Seq(Job)
    BY <1>1, Lined
  <2>3. Sound(task)
    BY <2>2, TakenUp, StreakOfJob
  <2>4. /\ tasks' \in [Tasks -> Task] /\ tasks'[Pump] = task
        /\ \A t \in Tasks : t # Pump => tasks'[t] = others[t]
    BY <1>1, <2>1, <2>3 DEF Sound
  <2>5. TasksTyped'
    BY <2>3, <2>4 DEF TasksTyped, Sound
  <2>. QED
    BY <1>2, <1>3, <2>1, <2>2, <2>4, <2>5
<1>4. CASE tasks[Pump].pc # "idle"
  <2>1. tasks' = others /\ memoryQueue' = Append(memoryQueue, job)
    BY <1>4 DEF EnqueueInMemory
  <2>2. TasksTyped'
    BY <2>1 DEF TasksTyped, Sound
  <2>. QED
    BY <1>1, <1>2, <2>1, <2>2, Lined
<1>. QED
  BY <1>3, <1>4

(* Deliveries on their way. *)
LEMMA DeliveryQuiet ==
    ASSUME Typed, NEW h \in Handlers,
           Synchronize(h) \/ Schedule(h) \/ Answer(h) \/ HandlerDone(h)
    PROVE  Typed' /\ Quiet /\ Undisturbed
<1>1. h \in Tasks /\ h # Pump /\ Pump \in Tasks
  BY PrValidationAssumption DEF Tasks
<1>2. ASSUME NEW task, Sound(task), tasks[h].pc \notin Checking,
             \/ task.pc \notin Checking \cup {"publishing"}
             \/ \E job \in Job : task \in TakeUp(job),
             tasks' = [tasks EXCEPT ![h] = task],
             UNCHANGED <<streak, cache, inARow, runs, memoryQueue, adding, bull, threw>>
      PROVE  Typed' /\ Quiet /\ Undisturbed
  <2>1. TasksTyped' /\ Quiet /\ Undisturbed
    BY <1>1, <1>2, QuietTask
  <2>2. CountsTyped' /\ QueuesTyped' /\ BullTyped'
    BY <1>2, KeepsTypes
  <2>. QED
    BY <2>1, <2>2 DEF Typed
<1>3. CASE Synchronize(h)
  <2>1. PICK job \in Job : tasks' = [tasks EXCEPT ![h] = Doing("announcing", job)]
    BY <1>3 DEF Synchronize
  <2>2. tasks[h].pc \notin Checking
        /\ UNCHANGED <<streak, cache, inARow, runs, memoryQueue, adding, bull, threw>>
    BY <1>3 DEF Synchronize, Arrives, Checking, queues, ghosts
  <2>3. Sound(Doing("announcing", job))
        /\ Doing("announcing", job).pc \notin Checking \cup {"publishing"}
    BY DoingSound DEF Checking
  <2>. QED
    BY <1>2, <2>1, <2>2, <2>3
<1>4. CASE Answer(h) \/ HandlerDone(h)
  <2>1. /\ tasks' = [tasks EXCEPT ![h] = Idle] /\ tasks[h].pc \notin Checking
        /\ UNCHANGED <<streak, cache, inARow, runs, memoryQueue, adding, bull, threw>>
    BY <1>4 DEF Answer, HandlerDone, LastAwait, Checking, queues, ghosts
  <2>2. Sound(Idle) /\ Idle.pc \notin Checking \cup {"publishing"}
    BY IdleSound DEF Idle, Checking
  <2>. QED
    BY <1>2, <2>1, <2>2
<1>5. CASE Schedule(h)
  <2>. DEFINE job == tasks[h].job
              answering == [tasks EXCEPT ![h] = Doing("answering", job)]
  <2>1. tasks[h].pc = "announcing" /\ UNCHANGED <<streak, cache, inARow, runs>>
    BY <1>5 DEF Schedule
  <2>2. job \in Job /\ streak[job.pr] \in Nat
    BY <1>1, <2>1, JobOfTask
  <2>3. Sound(Doing("answering", job))
        /\ Doing("answering", job).pc \notin Checking \cup {"publishing"}
    BY <2>2, DoingSound DEF Checking
  <2>4. CASE /\ \E task \in TakeUp(job) : tasks' = [tasks EXCEPT ![h] = task]
             /\ UNCHANGED <<queues, threw>>
    <3>1. PICK task \in TakeUp(job) : tasks' = [tasks EXCEPT ![h] = task]
      BY <2>4
    <3>2. Sound(task)
      BY <2>2, TakenUp
    <3>. QED
      BY <1>2, <2>1, <2>2, <2>4, <3>1, <3>2 DEF Checking, queues
  <2>5. CASE EnqueueInMemory(job, answering) /\ UNCHANGED <<adding, bull>>
    <3>1. /\ answering \in [Tasks -> Task] /\ answering[Pump] = tasks[Pump]
          /\ \A t \in Tasks : Sound(answering[t])
          /\ \A t \in Tasks : t # h => answering[t] = tasks[t]
          /\ answering[h] = Doing("answering", job)
      BY <1>1, <2>3 DEF Typed, TasksTyped, Sound
    <3>2. /\ TasksTyped' /\ memoryQueue' \in Seq(Job) /\ threw' \in BOOLEAN
          /\ \A t \in Tasks : t # Pump => tasks'[t] = answering[t]
          /\ \/ tasks'[Pump] = tasks[Pump]
             \/ tasks[Pump].pc = "idle" /\ \E next \in Job : tasks'[Pump] \in TakeUp(next)
      BY <2>2, <2>5, <3>1, Enqueued
    <3>3. Quiet /\ Undisturbed
      BY <1>1, <2>1, <2>3, <3>1, <3>2 DEF Quiet, Undisturbed, Onward, Checking
    <3>4. CountsTyped' /\ BullTyped'
      BY <2>1, <2>5, KeepsTypes
    <3>5. QueuesTyped'
      BY <2>5, <3>2 DEF Typed, QueuesTyped
    <3>. QED
      BY <3>2, <3>3, <3>4, <3>5 DEF Typed
  <2>6. CASE /\ adding' = [adding EXCEPT ![h] = job] /\ tasks' = answering
             /\ UNCHANGED <<memoryQueue, bull, threw>>
    <3>1. TasksTyped' /\ Quiet /\ Undisturbed
      BY <1>1, <2>1, <2>3, <2>6, QuietTask DEF Checking
    <3>2. CountsTyped' /\ BullTyped'
      BY <2>1, <2>6, KeepsTypes
    <3>3. QueuesTyped'
      BY <2>2, <2>6 DEF Typed, QueuesTyped
    <3>. QED
      BY <3>1, <3>2, <3>3 DEF Typed
  <2>. QED
    BY <1>5, <2>4, <2>5, <2>6 DEF Schedule
<1>. QED
  BY <1>3, <1>4, <1>5

(* BullMQ on its own. *)
LEMMA AddQuiet ==
    ASSUME Typed, NEW h \in Handlers, Add(h)
    PROVE  Typed' /\ Quiet /\ Undisturbed
<1>1. Pump \in Tasks
  BY DEF Tasks
<1>2. CASE AddSucceeds(h)
  <2>. DEFINE job == adding[h]
              entry == [state |-> "waiting", attempts |-> 0, stalls |-> 0, by |-> None]
  <2>1. job \in Job
    BY <1>2 DEF AddSucceeds, Typed, QueuesTyped
  <2>2. UNCHANGED <<streak, cache, tasks, memoryQueue, inARow, threw>>
        /\ adding' = [adding EXCEPT ![h] = None]
    BY <1>2 DEF AddSucceeds
  <2>3. entry \in BullEntry /\ TriesLeft(entry)
    BY DEF BullEntry, Attempts, MaxStalled, TriesLeft
  <2>4. \/ bull' = [bull EXCEPT ![job] = entry] /\ runs' = [runs EXCEPT ![job] = 0]
        \/ UNCHANGED <<bull, runs>>
    BY <1>2 DEF AddSucceeds
  <2>5. BullTyped'
    BY <2>1, <2>3, <2>4 DEF Typed, BullTyped
  <2>6. CountsTyped'
    BY <2>1, <2>2, <2>4 DEF Typed, CountsTyped
  <2>7. QueuesTyped'
    BY <2>2 DEF Typed, QueuesTyped
  <2>8. TasksTyped' /\ Quiet /\ Undisturbed
    BY <2>2 DEF Typed, TasksTyped, Sound, Quiet, Undisturbed, Onward
  <2>. QED
    BY <2>5, <2>6, <2>7, <2>8 DEF Typed
<1>3. CASE AddFails(h)
  <2>1. adding[h] \in Job
    BY <1>3 DEF AddFails, Typed, QueuesTyped
  <2>2. /\ EnqueueInMemory(adding[h], tasks) /\ adding' = [adding EXCEPT ![h] = None]
        /\ UNCHANGED <<streak, cache, bull, inARow, runs>>
    BY <1>3 DEF AddFails
  <2>3. tasks \in [Tasks -> Task] /\ \A t \in Tasks : Sound(tasks[t])
    BY DEF Typed, TasksTyped
  <2>4. /\ TasksTyped' /\ memoryQueue' \in Seq(Job) /\ threw' \in BOOLEAN
        /\ \A t \in Tasks : t # Pump => tasks'[t] = tasks[t]
        /\ \/ tasks'[Pump] = tasks[Pump]
           \/ tasks[Pump].pc = "idle" /\ \E next \in Job : tasks'[Pump] \in TakeUp(next)
    BY <2>1, <2>2, <2>3, Enqueued
  <2>5. Quiet /\ Undisturbed
    BY <1>1, <2>2, <2>4 DEF Quiet, Undisturbed, Onward, Checking
  <2>6. CountsTyped' /\ BullTyped'
    BY <2>2, KeepsTypes
  <2>7. QueuesTyped'
    BY <2>2, <2>4 DEF Typed, QueuesTyped
  <2>. QED
    BY <2>4, <2>5, <2>6, <2>7 DEF Typed
<1>. QED
  BY <1>2, <1>3 DEF Add

(* An entry of the BullMQ queue changes. *)
LEMMA OneEntry ==
    ASSUME Typed, NEW job \in Job, NEW entry \in BullEntry, TriesLeft(entry),
           bull' = [bull EXCEPT ![job] = entry]
    PROVE  BullTyped'
BY DEF Typed, BullTyped

LEMMA EntriesTyped ==
    ASSUME Typed, NEW w \in Workers, NEW job \in Job,
           bull' = Completed(w, job) \/ bull' = Retried(w, job)
    PROVE  BullTyped'
<1>1. bull \in [Job -> BullEntry] /\ bull[job] \in BullEntry /\ TriesLeft(bull[job])
  BY DEF Typed, BullTyped
<1>2. CASE UNCHANGED bull
  BY <1>2, KeepsTypes
<1>3. CASE bull' = [bull EXCEPT ![job].state = "completed"]
  <2>1. bull' = [bull EXCEPT ![job] = [bull[job] EXCEPT !.state = "completed"]]
    BY <1>3
  <2>2. [bull[job] EXCEPT !.state = "completed"] \in BullEntry
        /\ [bull[job] EXCEPT !.state = "completed"].state = "completed"
    BY <1>1 DEF BullEntry
  <2>. QED
    BY <2>1, <2>2, OneEntry DEF TriesLeft
<1>4. CASE /\ bull[job].state = "active"
           /\ bull' = [bull EXCEPT ![job].attempts = @ + 1,
                                   ![job].state = IF bull[job].attempts + 1 < Attempts
                                                  THEN "waiting" ELSE "failed"]
  <2>. DEFINE next == bull[job].attempts + 1
              state == IF next < Attempts THEN "waiting" ELSE "failed"
              entry == [bull[job] EXCEPT !.attempts = next, !.state = state]
  <2>1. bull' = [bull EXCEPT ![job] = entry]
    BY <1>1, <1>4
  <2>2. next \in 0..Attempts /\ bull[job].stalls <= MaxStalled
    BY <1>1, <1>4 DEF TriesLeft, BullEntry, Attempts
  <2>3. state \in {"waiting", "failed"} /\ (state = "waiting" => next < Attempts)
    OBVIOUS
  <2>4. /\ entry \in BullEntry /\ entry.state = state
        /\ entry.attempts = next /\ entry.stalls = bull[job].stalls
    <3>. HIDE DEF state, next
    <3>. QED
      BY <1>1, <2>2, <2>3 DEF BullEntry
  <2>5. TriesLeft(entry)
    BY <2>2, <2>3, <2>4 DEF TriesLeft
  <2>. HIDE DEF entry
  <2>. QED
    BY <2>1, <2>4, <2>5, OneEntry
<1>. QED
  BY <1>2, <1>3, <1>4 DEF Completed, Retried, Holds

LEMMA WorkerQuiet ==
    ASSUME Typed, NEW w \in Workers,
           (\E job \in Job : WorkerTakes(w, job)) \/ WorkerDone(w)
    PROVE  Typed' /\ Quiet /\ Undisturbed
<1>1. w \in Tasks
  BY DEF Tasks
<1>2. CASE WorkerDone(w)
  <2>1. /\ tasks' = [tasks EXCEPT ![w] = Idle] /\ tasks[w].pc = "publishing"
        /\ bull' = Completed(w, tasks[w].job)
        /\ UNCHANGED <<streak, cache, inARow, runs, memoryQueue, adding, threw>>
    BY <1>2 DEF WorkerDone, LastAwait, ghosts
  <2>2. Sound(Idle) /\ Idle.pc \notin Checking \cup {"publishing"}
    BY IdleSound DEF Idle, Checking
  <2>3. TasksTyped' /\ Quiet /\ Undisturbed
    BY <1>1, <2>1, <2>2, QuietTask DEF Checking
  <2>4. BullTyped'
    BY <1>1, <2>1, JobOfTask, EntriesTyped
  <2>. QED
    BY <2>1, <2>3, <2>4, KeepsTypes DEF Typed
<1>3. ASSUME NEW job \in Job, WorkerTakes(w, job)
      PROVE  Typed' /\ Quiet /\ Undisturbed
  <2>1. PICK task \in TakeUp(job) : tasks' = [tasks EXCEPT ![w] = task]
    BY <1>3 DEF WorkerTakes
  <2>2. /\ tasks[w].pc = "idle" /\ bull[job].state = "waiting"
        /\ bull' = [bull EXCEPT ![job].state = "active", ![job].by = w]
        /\ UNCHANGED <<streak, cache, inARow, runs, memoryQueue, adding, threw>>
    BY <1>3 DEF WorkerTakes, ghosts
  <2>3. Sound(task)
    BY StreakOfJob, TakenUp
  <2>4. TasksTyped' /\ Quiet /\ Undisturbed
    BY <1>1, <2>1, <2>2, <2>3, QuietTask DEF Checking
  <2>. DEFINE entry == [bull[job] EXCEPT !.state = "active", !.by = w]
  <2>5. bull \in [Job -> BullEntry] /\ bull[job] \in BullEntry /\ TriesLeft(bull[job])
    BY DEF Typed, BullTyped
  <2>6. bull' = [bull EXCEPT ![job] = entry]
    BY <2>2, <2>5
  <2>7. /\ entry \in BullEntry
        /\ entry.attempts = bull[job].attempts /\ entry.stalls = bull[job].stalls
    BY <2>5 DEF BullEntry
  <2>8. BullTyped'
    BY <2>2, <2>5, <2>6, <2>7, OneEntry DEF TriesLeft
  <2>. QED
    BY <2>2, <2>4, <2>8, KeepsTypes DEF Typed
<1>. QED
  BY <1>2, <1>3

LEMMA RedisQuiet ==
    ASSUME Typed, NEW job \in Job, Stall(job) \/ Forget(job)
    PROVE  Typed' /\ Quiet /\ Undisturbed
<1>1. UNCHANGED <<streak, cache, tasks, memoryQueue, adding, inARow, runs, threw>>
  BY DEF Stall, Forget, ghosts
<1>2. TasksTyped' /\ Quiet /\ Undisturbed
  BY <1>1 DEF Typed, TasksTyped, Sound, Quiet, Undisturbed, Onward
<1>3. bull \in [Job -> BullEntry] /\ bull[job] \in BullEntry /\ TriesLeft(bull[job])
  BY DEF Typed, BullTyped
<1>4. CASE Stall(job)
  <2>. DEFINE next == bull[job].stalls + 1
              state == IF bull[job].stalls < MaxStalled THEN "waiting" ELSE "failed"
              entry == [bull[job] EXCEPT !.state = state, !.stalls = next]
  <2>1. bull[job].state = "active" /\ bull' = [bull EXCEPT ![job] = entry]
    BY <1>3, <1>4 DEF Stall
  <2>2. /\ next \in 0..(MaxStalled + 1) /\ bull[job].attempts < Attempts
        /\ state \in {"waiting", "failed"} /\ (state = "waiting" => next <= MaxStalled)
    BY <1>3, <2>1 DEF TriesLeft, BullEntry, MaxStalled
  <2>3. /\ entry \in BullEntry /\ entry.state = state
        /\ entry.stalls = next /\ entry.attempts = bull[job].attempts
    <3>. HIDE DEF state, next
    <3>. QED
      BY <1>3, <2>2 DEF BullEntry
  <2>4. BullTyped'
    BY <2>1, <2>2, <2>3, OneEntry DEF TriesLeft
  <2>. QED
    BY <1>1, <1>2, <2>4, KeepsTypes DEF Typed
<1>5. CASE Forget(job)
  <2>. DEFINE entry == [bull[job] EXCEPT !.state = "absent"]
  <2>1. bull' = [bull EXCEPT ![job] = entry]
    BY <1>3, <1>5 DEF Forget
  <2>2. entry \in BullEntry /\ entry.state = "absent"
    BY <1>3 DEF BullEntry
  <2>3. BullTyped'
    BY <2>1, <2>2, OneEntry DEF TriesLeft
  <2>. QED
    BY <1>1, <1>2, <2>3, KeepsTypes DEF Typed
<1>. QED
  BY <1>4, <1>5

(* A published event or comment, the pump's next job. *)
LEMMA PublishingQuiet ==
    ASSUME Typed, NEW t \in Tasks, NextAwait(t) \/ (t = Pump /\ PumpDone)
    PROVE  Typed' /\ Quiet /\ Undisturbed
<1>1. tasks[t] \in Task /\ tasks[t].job # None /\ tasks[t].pc = "publishing"
  BY DEF NextAwait, PumpDone, LastAwait, Typed, TasksTyped, Sound
<1>2. CASE NextAwait(t)
  <2>. DEFINE rest == Tail(tasks[t].awaits)
              task == [tasks[t] EXCEPT !.awaits = rest]
  <2>1. /\ tasks' = [tasks EXCEPT ![t] = task] /\ Len(tasks[t].awaits) > 1
        /\ UNCHANGED <<streak, cache, inARow, runs, memoryQueue, adding, bull, threw>>
    BY <1>2 DEF NextAwait, queues, ghosts, Typed, TasksTyped
  <2>2. tasks[t].awaits \in Seq(Awaits)
    BY <1>1 DEF Task, Awaits
  <2>3. rest \in Seq(Awaits) /\ rest # <<>>
    <3>1. tasks[t].awaits # <<>> /\ Len(tasks[t].awaits) \in Nat
      BY <2>1, <2>2, EmptySeq, LenProperties
    <3>2. rest \in Seq(Awaits) /\ Len(rest) = Len(tasks[t].awaits) - 1
      BY <2>2, <3>1, HeadTailProperties
    <3>. QED
      BY <2>1, <3>1, <3>2, EmptySeq
  <2>4. task \in Task /\ task.pc = "publishing" /\ task.job = tasks[t].job /\ task.awaits = rest
    <3>. HIDE DEF rest
    <3>. QED
      BY <1>1, <2>3 DEF Task, Awaits
  <2>5. Sound(task)
    BY <1>1, <2>3, <2>4 DEF Sound
  <2>6. TasksTyped' /\ Quiet /\ Undisturbed
    <3>. HIDE DEF task
    <3>. QED
      BY <1>1, <2>1, <2>4, <2>5, QuietTask DEF Checking
  <2>. QED
    BY <2>1, <2>6, KeepsTypes DEF Typed
<1>3. CASE t = Pump /\ PumpDone /\ memoryQueue = <<>>
  <2>1. tasks' = [tasks EXCEPT ![t] = Idle]
        /\ UNCHANGED <<streak, cache, inARow, runs, memoryQueue, adding, bull, threw>>
    BY <1>3 DEF PumpDone, ghosts
  <2>2. Sound(Idle) /\ Idle.pc \notin Checking \cup {"publishing"}
    BY IdleSound DEF Idle, Checking
  <2>3. TasksTyped' /\ Quiet /\ Undisturbed
    BY <1>1, <2>1, <2>2, QuietTask DEF Checking
  <2>. QED
    BY <2>1, <2>3, KeepsTypes DEF Typed
<1>4. CASE t = Pump /\ PumpDone /\ memoryQueue # <<>>
  <2>1. PICK task \in TakeUp(Head(memoryQueue)) : tasks' = [tasks EXCEPT ![t] = task]
    BY <1>4 DEF PumpDone
  <2>2. memoryQueue' = Tail(memoryQueue)
        /\ UNCHANGED <<streak, cache, inARow, runs, adding, bull, threw>>
    BY <1>4 DEF PumpDone, ghosts
  <2>3. Head(memoryQueue) \in Job /\ Tail(memoryQueue) \in Seq(Job)
    BY <1>4, Lined DEF Typed, QueuesTyped
  <2>4. Sound(task)
    BY <2>3, StreakOfJob, TakenUp
  <2>5. TasksTyped' /\ Quiet /\ Undisturbed
    BY <1>1, <2>1, <2>2, <2>3, <2>4, QuietTask DEF Checking
  <2>6. QueuesTyped'
    BY <2>2, <2>3 DEF Typed, QueuesTyped
  <2>. QED
    BY <2>2, <2>5, <2>6, KeepsTypes DEF Typed
<1>. QED
  BY <1>2, <1>3, <1>4

LEMMA FaultQuiet ==
    ASSUME Typed, NEW t \in Tasks, Throw(t) \/ Crash(t)
    PROVE  /\ Typed' /\ Quiet
           /\ \A u \in Tasks : tasks'[u] = tasks[u] \/ tasks'[u] = Idle
<1>1. Idle \in Task /\ Sound(Idle) /\ Idle.pc \notin Checking \cup {"publishing"}
  BY IdleSound DEF Idle, Checking, Sound
<1>2. UNCHANGED <<streak, cache, inARow, runs>>
  BY DEF Throw, Crash
<1>3. tasks' \in [Tasks -> Task] /\ \A u \in Tasks : tasks'[u] = tasks[u] \/ tasks'[u] = Idle
  BY <1>1 DEF Throw, Crash, Typed, TasksTyped
<1>4. TasksTyped'
  BY <1>1, <1>3 DEF Typed, TasksTyped, Sound
<1>5. Quiet
  BY <1>1, <1>2, <1>3 DEF Quiet, Onward
<1>6. QueuesTyped'
  <2>1. threw' \in BOOLEAN
    <3>1. threw \in BOOLEAN
      BY DEF Typed, QueuesTyped
    <3>2. CASE Throw(t)
      <4>1. threw' = (threw \/ t = Pump)
        BY <3>2 DEF Throw
      <4>. QED
        BY Zenon, <4>1
    <3>3. CASE Crash(t)
      BY <3>1, <3>3 DEF Crash
    <3>. QED
      BY <3>2, <3>3
  <2>2. \/ UNCHANGED <<memoryQueue, adding>>
        \/ memoryQueue' = <<>> /\ adding' = [h \in Handlers |-> None]
    <3>1. CASE Throw(t)
      BY <3>1 DEF Throw
    <3>2. CASE Crash(t)
      BY <3>2 DEF Crash
    <3>. QED
      BY <3>1, <3>2
  <2>3. <<>> \in Seq(Job) /\ [h \in Handlers |-> None] \in [Handlers -> Job \cup {None}]
    OBVIOUS
  <2>4. memoryQueue' \in Seq(Job) /\ adding' \in [Handlers -> Job \cup {None}]
    BY <2>2, <2>3 DEF Typed, QueuesTyped
  <2>. QED
    BY <2>1, <2>4 DEF QueuesTyped
<1>7. BullTyped'
  <2>1. CASE UNCHANGED bull
    BY <2>1, KeepsTypes
  <2>2. CASE Throw(t) /\ t \in Workers
    <3>1. bull' = Retried(t, tasks[t].job) /\ tasks[t].pc # "idle"
      BY <2>2 DEF Throw
    <3>. QED
      BY <2>2, <3>1, JobOfTask, EntriesTyped
  <2>. QED
    BY <2>1, <2>2 DEF Throw, Crash
<1>. QED
  BY <1>2, <1>3, <1>4, <1>5, <1>6, <1>7, KeepsTypes DEF Typed

(* The statements of finalizeValidation: what each makes of its task. *)
LEMMA SaveTyped ==
    ASSUME Typed, NEW t \in Tasks, SaveResult(t)
    PROVE  /\ Typed' /\ UNCHANGED <<streak, inARow, runs, bull>>
           /\ tasks[t].pc = "validated" /\ MayRun(t)
           /\ tasks'[t].pc = "saved" /\ tasks'[t].job = tasks[t].job
           /\ tasks'[t].passed = tasks[t].passed
           /\ cache' = [cache EXCEPT ![tasks[t].job.pr] = IF tasks[t].passed THEN "passed"
                                                         ELSE "failed"]
           /\ \A u \in Tasks : u # t => tasks'[u] = tasks[u]
<1>1. tasks[t].pc = "validated" /\ MayRun(t)
      /\ UNCHANGED <<streak, inARow, runs, bull, memoryQueue, adding, threw>>
  BY DEF SaveResult, queues, ghosts
<1>2. tasks[t] \in Task /\ tasks[t].job \in Job
  BY <1>1, JobOfTask
<1>. DEFINE task == [tasks[t] EXCEPT !.pc = "saved"]
<1>3. tasks' = [tasks EXCEPT ![t] = task]
  BY DEF SaveResult, Typed, TasksTyped
<1>4. /\ Sound(task) /\ task.pc = "saved" /\ task.job = tasks[t].job
      /\ task.passed = tasks[t].passed
  BY <1>2, NoJob DEF Sound, Task
<1>5. /\ TasksTyped' /\ tasks'[t] = task
      /\ \A u \in Tasks : u # t => tasks'[u] = tasks[u]
  <2>. HIDE DEF task
  <2>. QED
    BY <1>3, <1>4, OneTask DEF Typed
<1>6. cache' = [cache EXCEPT ![tasks[t].job.pr] = IF tasks[t].passed THEN "passed" ELSE "failed"]
  BY DEF SaveResult
<1>7. CountsTyped'
  BY <1>1, <1>2, <1>6 DEF Typed, CountsTyped, Job
<1>8. Typed'
  BY <1>1, <1>5, <1>7, KeepsTypes DEF Typed
<1>. QED
  BY <1>1, <1>4, <1>5, <1>6, <1>8

LEMMA ReadTyped ==
    ASSUME Typed, NEW t \in Tasks, ReadStreak(t)
    PROVE  /\ Typed' /\ UNCHANGED <<streak, inARow, cache, runs, bull>>
           /\ tasks[t].pc = "saved" /\ ~tasks[t].passed
           /\ tasks'[t].pc = "counting" /\ tasks'[t].job = tasks[t].job
           /\ tasks'[t].prev = streak[tasks[t].job.pr] /\ ~tasks'[t].passed
           /\ \A u \in Tasks : u # t => tasks'[u] = tasks[u]
<1>1. tasks[t].pc = "saved" /\ ~tasks[t].passed
      /\ UNCHANGED <<streak, inARow, cache, runs, bull, memoryQueue, adding, threw>>
  BY DEF ReadStreak, queues, ghosts
<1>2. tasks[t] \in Task /\ tasks[t].job \in Job /\ streak[tasks[t].job.pr] \in Nat
  BY <1>1, JobOfTask
<1>. DEFINE read == streak[tasks[t].job.pr]
            task == [tasks[t] EXCEPT !.pc = "counting", !.prev = read]
<1>3. tasks' = [tasks EXCEPT ![t] = task]
  BY DEF ReadStreak, Typed, TasksTyped
<1>4. /\ Sound(task) /\ task.pc = "counting" /\ task.job = tasks[t].job
      /\ task.prev = read /\ task.passed = tasks[t].passed
  <2>. HIDE DEF read
  <2>1. read \in Nat
    BY <1>2 DEF read
  <2>. QED
    BY <1>2, <2>1, NoJob DEF Sound, Task
<1>5. /\ TasksTyped' /\ tasks'[t] = task
      /\ \A u \in Tasks : u # t => tasks'[u] = tasks[u]
  <2>. HIDE DEF task
  <2>. QED
    BY <1>3, <1>4, OneTask DEF Typed
<1>6. Typed'
  BY <1>1, <1>5, KeepsTypes DEF Typed
<1>. QED
  BY <1>1, <1>4, <1>5, <1>6

(* The number of times a BullMQ job was recorded. *)
LEMMA CountRunTyped ==
    ASSUME Typed, NEW t \in Tasks, CountRun(t)
    PROVE  runs' \in [Job -> Nat]
<1>1. runs \in [Job -> Nat]
  BY DEF Typed, CountsTyped
<1>2. CASE t \notin Workers
  BY <1>1, <1>2 DEF CountRun
<1>3. CASE t \in Workers
  <2>1. runs' = [runs EXCEPT ![tasks[t].job] = runs[tasks[t].job] + 1]
    BY <1>3 DEF CountRun
  <2>2. \A job \in Job : runs[job] + 1 \in Nat
    BY <1>1
  <2>. QED
    BY <1>1, <2>1, <2>2
<1>. QED
  BY <1>2, <1>3

LEMMA PassedTyped ==
    ASSUME Typed, NEW t \in Tasks, RecordPassed(t)
    PROVE  /\ Typed' /\ ResetStreak(tasks[t].job) /\ CountRun(t) /\ UNCHANGED <<cache, bull>>
           /\ tasks[t].pc = "saved" /\ tasks[t].passed
           /\ tasks'[t].pc = "publishing" /\ tasks'[t].job = tasks[t].job
           /\ Head(tasks'[t].awaits) = "PASSED"
           /\ \A u \in Tasks : u # t => tasks'[u] = tasks[u]
<1>. DEFINE task == Publishing(tasks[t].job, <<"PASSED">>)
<1>1. /\ tasks[t].pc = "saved" /\ tasks[t].passed /\ ResetStreak(tasks[t].job) /\ CountRun(t)
      /\ tasks' = [tasks EXCEPT ![t] = task]
      /\ UNCHANGED <<cache, bull, memoryQueue, adding, threw>>
  BY DEF RecordPassed, queues
<1>2. tasks[t].job \in Job
  BY <1>1, JobOfTask
<1>3. /\ Sound(task) /\ task.pc = "publishing" /\ task.job = tasks[t].job
      /\ Head(task.awaits) = "PASSED"
  BY <1>2, Events, PublishingSound
<1>4. /\ TasksTyped' /\ tasks'[t] = task
      /\ \A u \in Tasks : u # t => tasks'[u] = tasks[u]
  <2>. HIDE DEF task
  <2>. QED
    BY <1>1, <1>3, OneTask DEF Typed
<1>5. CountsTyped'
  BY <1>1, <1>2, CountRunTyped, ResetTyped
<1>6. Typed'
  BY <1>1, <1>4, <1>5, KeepsTypes DEF Typed
<1>. QED
  BY <1>1, <1>3, <1>4, <1>6

LEMMA WriteTyped ==
    ASSUME Typed, NEW t \in Tasks, WriteStreak(t)
    PROVE  LET job == tasks[t].job
               prev == tasks[t].prev
               own == <<job.session, job.pr>>
           IN  /\ Typed' /\ CountRun(t) /\ UNCHANGED <<cache, bull>>
               /\ tasks[t].pc = "counting" /\ prev \in Nat
               /\ streak' = [streak EXCEPT ![job.pr] = prev + 1]
               /\ inARow' = [inARow EXCEPT ![own] = IF @ < LoopLimit THEN @ + 1 ELSE @]
               /\ tasks'[t].pc = "publishing" /\ tasks'[t].job = job
               /\ tasks'[t].awaits = FailureEvents(prev + 1)
               /\ \A u \in Tasks : u # t => tasks'[u] = tasks[u]
<1>. DEFINE job == tasks[t].job
            prev == tasks[t].prev
            own == <<job.session, job.pr>>
            task == Publishing(job, FailureEvents(prev + 1))
<1>1. /\ tasks[t].pc = "counting" /\ CountRun(t) /\ prev < MaxStreak
      /\ streak' = [streak EXCEPT ![job.pr] = prev + 1]
      /\ inARow' = [inARow EXCEPT ![own] = IF @ < LoopLimit THEN @ + 1 ELSE @]
      /\ tasks' = [tasks EXCEPT ![t] = task]
      /\ UNCHANGED <<cache, bull, memoryQueue, adding, threw>>
  BY DEF WriteStreak, queues
<1>2. tasks[t] \in Task /\ job \in Job /\ job.pr \in Prs /\ job.session \in Sessions
  BY <1>1, JobOfTask
<1>3. prev \in Nat
  BY <1>2 DEF Task
<1>4. /\ Sound(task) /\ task.pc = "publishing" /\ task.job = job
      /\ task.awaits = FailureEvents(prev + 1)
  BY <1>2, Events, PublishingSound
<1>5. /\ TasksTyped' /\ tasks'[t] = task
      /\ \A u \in Tasks : u # t => tasks'[u] = tasks[u]
  <2>. HIDE DEF task
  <2>. QED
    BY <1>1, <1>4, OneTask DEF Typed
<1>6. CountsTyped'
  <2>1. streak' \in [Prs -> 0..MaxStreak]
    <3>. HIDE DEF prev, job
    <3>1. prev + 1 \in 0..MaxStreak
      BY <1>1, <1>3, PrValidationAssumption
    <3>. QED
      BY <1>1, <3>1 DEF Typed, CountsTyped
  <2>2. inARow' \in [Sessions \X Prs -> 0..LoopLimit]
    <3>1. own \in Sessions \X Prs
      BY <1>2
    <3>. HIDE DEF own
    <3>. QED
      BY <1>1, <3>1, PrValidationAssumption DEF Typed, CountsTyped
  <2>. QED
    BY <1>1, <2>1, <2>2, CountRunTyped DEF Typed, CountsTyped
<1>7. Typed'
  BY <1>1, <1>5, <1>6, KeepsTypes DEF Typed
<1>. QED
  BY <1>1, <1>3, <1>4, <1>5, <1>7

----------------------------------------------------------------------------
(* Every step, by what it does to streaks and outcomes. *)

Records(t) == SaveResult(t) \/ ReadStreak(t) \/ RecordPassed(t) \/ WriteStreak(t)

Faulty == \E t \in Tasks : Throw(t) \/ Crash(t)

LEMMA StepKinds ==
    ASSUME Typed, [Next]_vars
    PROVE  /\ Typed'
           /\ \/ Quiet /\ (Undisturbed \/ Faulty)
              \/ \E h \in Handlers : Opened(h) \/ Merged(h)
              \/ \E t \in Tasks : Records(t)
<1>. DEFINE Goal == /\ Typed'
                    /\ \/ Quiet /\ (Undisturbed \/ Faulty)
                       \/ \E h \in Handlers : Opened(h) \/ Merged(h)
                       \/ \E t \in Tasks : Records(t)
<1>1. ASSUME NEW t \in Tasks, Finalize(t)
      PROVE  Goal
  <2>1. CASE Records(t)
    BY <2>1, SaveTyped, ReadTyped, PassedTyped, WriteTyped DEF Records
  <2>2. CASE NextAwait(t)
    BY <2>2, PublishingQuiet
  <2>. QED
    BY <1>1, <2>1, <2>2 DEF Finalize, Records
<1>2. ASSUME NEW h \in Handlers, Deliver(h) \/ Handle(h) \/ Add(h)
      PROVE  Goal
  <2>1. h \in Tasks
    BY DEF Tasks
  <2>2. CASE Opened(h) \/ Merged(h)
    BY <2>2, ArrivalTyped
  <2>3. CASE Synchronize(h) \/ Schedule(h) \/ Answer(h) \/ HandlerDone(h)
    BY <2>3, DeliveryQuiet
  <2>4. CASE Add(h)
    BY <2>4, AddQuiet
  <2>. QED
    BY <1>1, <1>2, <2>1, <2>2, <2>3, <2>4 DEF Deliver, Handle
<1>3. CASE RunPump
  <2>1. Pump \in Tasks
    BY DEF Tasks
  <2>2. CASE PumpDone
    BY <2>1, <2>2, PublishingQuiet
  <2>. QED
    BY <1>1, <1>3, <2>1, <2>2 DEF RunPump
<1>4. ASSUME NEW w \in Workers, Work(w)
      PROVE  Goal
  <2>1. w \in Tasks
    BY DEF Tasks
  <2>2. CASE (\E job \in Job : WorkerTakes(w, job)) \/ WorkerDone(w)
    BY <2>2, WorkerQuiet
  <2>. QED
    BY <1>1, <1>4, <2>1, <2>2 DEF Work
<1>5. ASSUME NEW job \in Job, Stall(job) \/ Forget(job)
      PROVE  Goal
  BY <1>5, RedisQuiet
<1>6. ASSUME NEW t \in Tasks, Throw(t) \/ Crash(t)
      PROVE  Goal
  BY <1>6, FaultQuiet DEF Faulty
<1>7. CASE UNCHANGED vars
  <2>1. UNCHANGED <<streak, cache, tasks, memoryQueue, adding, bull, inARow, runs, threw>>
    BY <1>7 DEF vars
  <2>2. TasksTyped' /\ Quiet /\ Undisturbed
    BY <2>1 DEF Typed, TasksTyped, Sound, Quiet, Undisturbed, Onward
  <2>. QED
    BY <2>1, <2>2, KeepsTypes DEF Typed
<1>. QED
  <2>. HIDE DEF Goal
  <2>. QED
    BY <1>2, <1>3, <1>4, <1>5, <1>6, <1>7 DEF Next, Goal

LEMMA NextTyped == Typed /\ [Next]_vars => Typed'
BY StepKinds

(* Every task is at a step with what that step needs, however the API is   *)
(* started, and whatever throws or dies.                                   *)
THEOREM ValidationTyped == Spec => []TypeOK
<1>1. Spec => []Typed
  BY InitTyped, NextTyped, PTL DEF Spec
<1>. QED
  BY <1>1, TypedIsTypeOK, PTL

----------------------------------------------------------------------------
(* An outcome is stored before it is counted. *)

Stored ==
    /\ Typed
    /\ CountedIsStored
    /\ \A t \in Tasks : tasks[t].pc \in Busy => cache[tasks[t].job.pr] # "none"

LEMMA InitStored == Init => Stored
BY InitTyped DEF Init, Stored, CountedIsStored, Busy, Idle

LEMMA NextStored == Stored /\ [Next]_vars => Stored'
<1>. SUFFICES ASSUME Stored, [Next]_vars PROVE Stored'
  OBVIOUS
<1>. USE DEF Busy, Checking
<1>1. Typed /\ Typed'
  BY StepKinds DEF Stored
<1>2. cache \in [Prs -> {"none", "passed", "failed"}]
  BY <1>1 DEF Typed, CountsTyped
<1>3. CASE Quiet
  <2>1. \A t \in Tasks : tasks'[t].pc \in Busy => tasks'[t] = tasks[t]
    BY <1>1, <1>3, TakenUp, StreakOfJob DEF Quiet, Onward
  <2>. QED
    BY <1>1, <1>3, <2>1 DEF Stored, Quiet, CountedIsStored
<1>4. ASSUME NEW h \in Handlers, Opened(h) \/ Merged(h)
      PROVE  Stored'
  <2>1. \E job \in Job : ResetStreak(job)
    BY <1>1, <1>4, ArrivalTyped
  <2>2. streak \in [Prs -> 0..MaxStreak] /\ UNCHANGED cache
    BY <1>1, <1>4, ArrivalTyped DEF Typed, CountsTyped
  <2>3. CountedIsStored'
    BY <2>1, <2>2 DEF ResetStreak, Stored, CountedIsStored
  <2>4. \A t \in Tasks : tasks'[t].pc \in Busy => tasks'[t] = tasks[t]
    BY <1>1, <1>4, ArrivalTyped
  <2>. QED
    BY <1>1, <2>2, <2>3, <2>4 DEF Stored
<1>5. ASSUME NEW t \in Tasks, SaveResult(t)
      PROVE  Stored'
  <2>1. \A p \in Prs : cache[p] # "none" => cache'[p] # "none"
    BY <1>1, <1>2, <1>5, SaveTyped
  <2>2. cache'[tasks[t].job.pr] # "none"
    BY <1>1, <1>2, <1>5, SaveTyped, JobOfTask
  <2>3. UNCHANGED streak /\ tasks'[t].job = tasks[t].job
        /\ \A u \in Tasks : u # t => tasks'[u] = tasks[u]
    BY <1>1, <1>5, SaveTyped
  <2>4. \A u \in Tasks : tasks[u].pc \in Busy => tasks[u].job.pr \in Prs
    BY <1>1, JobOfTask
  <2>. QED
    BY <1>1, <2>1, <2>2, <2>3, <2>4 DEF Stored, CountedIsStored
<1>6. ASSUME NEW t \in Tasks, ReadStreak(t)
      PROVE  Stored'
  BY <1>1, <1>6, ReadTyped DEF Stored, CountedIsStored
<1>7. ASSUME NEW t \in Tasks, RecordPassed(t)
      PROVE  Stored'
  <2>1. streak \in [Prs -> 0..MaxStreak] /\ UNCHANGED cache /\ ResetStreak(tasks[t].job)
    BY <1>1, <1>7, PassedTyped DEF Typed, CountsTyped
  <2>2. CountedIsStored'
    BY <2>1 DEF ResetStreak, Stored, CountedIsStored
  <2>. QED
    BY <1>1, <1>7, <2>1, <2>2, PassedTyped DEF Stored
<1>8. ASSUME NEW t \in Tasks, WriteStreak(t)
      PROVE  Stored'
  <2>1. /\ streak \in [Prs -> 0..MaxStreak] /\ UNCHANGED cache /\ tasks[t].pc = "counting"
        /\ streak' = [streak EXCEPT ![tasks[t].job.pr] = tasks[t].prev + 1]
    BY <1>1, <1>8, WriteTyped DEF Typed, CountsTyped
  <2>2. CountedIsStored'
    BY <2>1 DEF Stored, CountedIsStored
  <2>. QED
    BY <1>1, <1>8, <2>1, <2>2, WriteTyped DEF Stored
<1>. QED
  BY <1>1, <1>3, <1>4, <1>5, <1>6, <1>7, <1>8, StepKinds DEF Records

(* No failure is counted whose outcome was not stored first, whatever      *)
(* throws or dies in between.                                              *)
THEOREM CountedAreStored == Spec => []CountedIsStored
<1>1. Stored => CountedIsStored
  BY DEF Stored
<1>. QED
  BY <1>1, InitStored, NextStored, PTL DEF Spec

----------------------------------------------------------------------------
(* The queue in memory.  Jobs wait for a pump that runs, or for one that   *)
(* threw; nothing but the pump, and a crash, takes them away.              *)

Waited == Typed /\ StrandedOnlyByFailure

(* A step that is none of the pump's business. *)
LEMMA AwayFromPump ==
    ASSUME Waited, UNCHANGED <<memoryQueue, threw>>,
           tasks'[Pump] = tasks[Pump] \/ tasks'[Pump].pc # "idle"
    PROVE  StrandedOnlyByFailure'
BY DEF Waited, StrandedOnlyByFailure

LEMMA EnqueueServes ==
    ASSUME Typed, NEW job \in Job, NEW others, others[Pump] = tasks[Pump],
           others \in [Tasks -> Task], EnqueueInMemory(job, others)
    PROVE  tasks'[Pump].pc # "idle"
<1>1. CASE tasks[Pump].pc = "idle"
  <2>. DEFINE queue == Append(memoryQueue, job)
  <2>1. PICK task \in TakeUp(Head(queue)) : tasks' = [others EXCEPT ![Pump] = task]
    BY <1>1 DEF EnqueueInMemory
  <2>2. Head(queue) \in Job
    BY Lined DEF Typed, QueuesTyped
  <2>3. task.pc # "idle"
    BY <2>2, TakenUp, StreakOfJob
  <2>. QED
    BY <2>1, <2>3 DEF Tasks
<1>2. CASE tasks[Pump].pc # "idle"
  BY <1>2 DEF EnqueueInMemory
<1>. QED
  BY <1>1, <1>2

LEMMA InitWaited == Init => Waited
BY InitTyped DEF Init, Waited, StrandedOnlyByFailure

LEMMA NextWaited == Waited /\ [Next]_vars => Waited'
<1>. SUFFICES ASSUME Waited, [Next]_vars PROVE StrandedOnlyByFailure'
  BY NextTyped DEF Waited
<1>1. Typed /\ Typed' /\ Pump \in Tasks /\ tasks \in [Tasks -> Task]
  BY NextTyped DEF Waited, Typed, TasksTyped, Tasks
<1>2. ASSUME NEW t \in Tasks, Finalize(t)
      PROVE  StrandedOnlyByFailure'
  <2>1. UNCHANGED <<memoryQueue, threw>>
    BY <1>2 DEF Finalize, SaveResult, RecordPassed, ReadStreak, WriteStreak, NextAwait,
                queues, ghosts
  <2>2. tasks'[Pump] = tasks[Pump] \/ tasks'[Pump].pc # "idle"
    <3>1. CASE NextAwait(t)
      BY <1>1, <3>1 DEF NextAwait
    <3>2. CASE SaveResult(t) \/ RecordPassed(t) \/ ReadStreak(t) \/ WriteStreak(t)
      BY <1>1, <3>2, SaveTyped, ReadTyped, PassedTyped, WriteTyped
    <3>. QED
      BY <1>2, <3>1, <3>2 DEF Finalize
  <2>. QED
    BY <2>1, <2>2, AwayFromPump
<1>3. ASSUME NEW h \in Handlers, Deliver(h) \/ Handle(h) \/ Add(h)
      PROVE  StrandedOnlyByFailure'
  <2>1. h \in Tasks /\ h # Pump
    BY PrValidationAssumption DEF Tasks
  <2>2. CASE Deliver(h) \/ Answer(h) \/ HandlerDone(h) \/ AddSucceeds(h)
    <3>1. UNCHANGED <<memoryQueue, threw>>
      BY <2>2 DEF Deliver, Opened, Synchronize, Merged, Answer, HandlerDone, AddSucceeds,
                  queues, ghosts
    <3>2. tasks'[Pump] = tasks[Pump]
      BY <1>1, <2>1, <2>2 DEF Deliver, Opened, Synchronize, Merged, Answer, HandlerDone,
                              AddSucceeds
    <3>. QED
      BY <3>1, <3>2, AwayFromPump
  <2>3. CASE AddFails(h)
    <3>1. adding[h] \in Job /\ EnqueueInMemory(adding[h], tasks)
      BY <1>1, <2>3 DEF AddFails, Typed, QueuesTyped
    <3>. QED
      BY <1>1, <3>1, EnqueueServes DEF StrandedOnlyByFailure
  <2>4. CASE Schedule(h)
    <3>. DEFINE job == tasks[h].job
                answering == [tasks EXCEPT ![h] = Doing("answering", job)]
    <3>1. tasks[h].pc = "announcing"
      BY <2>4 DEF Schedule
    <3>2. job \in Job
      BY <1>1, <2>1, <3>1, JobOfTask
    <3>3. CASE EnqueueInMemory(job, answering)
      <4>1. Doing("answering", job) \in Task
        BY <3>2, DoingSound DEF Sound
      <4>2. answering[Pump] = tasks[Pump] /\ answering \in [Tasks -> Task]
        BY <1>1, <2>1, <4>1
      <4>3. tasks'[Pump].pc # "idle"
        BY <1>1, <3>2, <3>3, <4>2, EnqueueServes
      <4>. QED
        BY <4>3 DEF StrandedOnlyByFailure
    <3>4. CASE /\ \E task : tasks' = [tasks EXCEPT ![h] = task]
               /\ UNCHANGED <<memoryQueue, threw>>
      BY <1>1, <2>1, <3>4, AwayFromPump
    <3>. QED
      BY <2>4, <3>3, <3>4 DEF Schedule, queues
  <2>. QED
    BY <1>2, <1>3, <2>1, <2>2, <2>3, <2>4 DEF Handle, Add
<1>4. CASE PumpDone
  <2>1. CASE memoryQueue = <<>>
    BY <1>4, <2>1 DEF PumpDone, StrandedOnlyByFailure
  <2>2. CASE memoryQueue # <<>>
    <3>1. Head(memoryQueue) \in Job
      BY <1>1, <2>2, Lined DEF Typed, QueuesTyped
    <3>2. PICK task \in TakeUp(Head(memoryQueue)) : tasks' = [tasks EXCEPT ![Pump] = task]
      BY <1>4, <2>2 DEF PumpDone
    <3>3. task.pc # "idle"
      BY <1>1, <3>1, TakenUp, StreakOfJob
    <3>. QED
      BY <1>1, <3>2, <3>3 DEF StrandedOnlyByFailure
  <2>. QED
    BY <2>1, <2>2
<1>5. ASSUME NEW w \in Workers, Work(w)
      PROVE  StrandedOnlyByFailure'
  <2>1. w \in Tasks /\ w # Pump
    BY PrValidationAssumption DEF Tasks
  <2>2. CASE (\E job \in Job : WorkerTakes(w, job)) \/ WorkerDone(w)
    <3>1. UNCHANGED <<memoryQueue, threw>> /\ tasks'[Pump] = tasks[Pump]
      BY <1>1, <2>1, <2>2 DEF WorkerTakes, WorkerDone, ghosts
    <3>. QED
      BY <3>1, AwayFromPump
  <2>. QED
    BY <1>2, <1>5, <2>1, <2>2 DEF Work
<1>6. ASSUME NEW job \in Job, Stall(job) \/ Forget(job)
      PROVE  StrandedOnlyByFailure'
  <2>1. UNCHANGED <<memoryQueue, threw, tasks>>
    BY <1>6 DEF Stall, Forget, ghosts
  <2>. QED
    BY <2>1, AwayFromPump
<1>7. ASSUME NEW t \in Tasks, Throw(t)
      PROVE  StrandedOnlyByFailure'
  <2>1. UNCHANGED memoryQueue /\ (threw' = (threw \/ t = Pump))
    BY <1>7 DEF Throw
  <2>2. CASE t = Pump
    <3>1. threw'
      BY Zenon, <2>1, <2>2
    <3>. QED
      BY <3>1 DEF StrandedOnlyByFailure
  <2>3. CASE t # Pump
    <3>1. tasks'[Pump] = tasks[Pump]
      BY <1>1, <1>7, <2>3 DEF Throw
    <3>2. threw => threw'
      BY Zenon, <2>1
    <3>. QED
      BY <2>1, <3>1, <3>2 DEF Waited, StrandedOnlyByFailure
  <2>. QED
    BY <2>2, <2>3
<1>8. ASSUME NEW t \in Tasks, Crash(t)
      PROVE  StrandedOnlyByFailure'
  <2>1. CASE Process(t) = "api"
    BY <1>8, <2>1 DEF Crash, StrandedOnlyByFailure
  <2>2. CASE Process(t) # "api"
    <3>1. UNCHANGED <<memoryQueue, threw>>
      BY <1>8, <2>2 DEF Crash
    <3>2. Process(Pump) = "api"
      BY PrValidationAssumption DEF Process
    <3>3. tasks'[Pump] = tasks[Pump]
      BY <1>1, <1>8, <2>2, <3>2 DEF Crash
    <3>. QED
      BY <3>1, <3>3, AwayFromPump
  <2>. QED
    BY <2>1, <2>2
<1>9. CASE UNCHANGED vars
  BY <1>9, AwayFromPump DEF vars
<1>. QED
  BY <1>1, <1>2, <1>3, <1>4, <1>5, <1>6, <1>7, <1>8, <1>9 DEF Next, RunPump

(* Jobs wait in memory without a pump only after a job that threw. *)
THEOREM OnlyFailureStrands == Spec => []StrandedOnlyByFailure
<1>1. Waited => StrandedOnlyByFailure
  BY DEF Waited
<1>. QED
  BY <1>1, InitWaited, NextWaited, PTL DEF Spec

----------------------------------------------------------------------------
(* One process.  JavaScript gives the process to another task only at an   *)
(* await, so no two tasks of a process are between SQL statements; when    *)
(* every task is the API's, the streak that was read is still the stored   *)
(* one when it is counted up.                                              *)

Exclusive ==
    \A t, u \in Tasks :
        tasks[t].pc \in Busy /\ tasks[u].pc \in Busy /\ Process(t) = Process(u) => t = u

CountsFailures == \A t \in Tasks : tasks[t].pc = "counting" => ~tasks[t].passed

Fresh == \A t \in Tasks : tasks[t].pc = "counting" => tasks[t].prev = streak[tasks[t].job.pr]

(* Only deliveries do anything: validation within the delivery. *)
OnlyDeliveries ==
    /\ memoryQueue = <<>>
    /\ \A h \in Handlers : adding[h] = None
    /\ \A job \in Job : bull[job].state = "absent"
    /\ \A t \in Tasks \ Handlers : tasks[t] = Idle

InApi == \A t \in Tasks : tasks[t].pc = "idle" \/ Process(t) = "api"

(* Ways to start the API in which one process validates. *)
Shared == Bull # "separate" \/ ~Async

Alone ==
    Typed /\ Exclusive /\ CountsFailures /\ Fresh /\ (~Async => OnlyDeliveries)

LEMMA HandlersInApi == \A h \in Handlers : h \in Tasks /\ Process(h) = "api"
BY PrValidationAssumption DEF Tasks, Process

LEMMA AloneInApi ==
    ASSUME Shared, Alone
    PROVE  InApi
<1>1. CASE Bull # "separate"
  BY <1>1 DEF InApi, Process
<1>2. CASE ~Async
  <2>1. \A t \in Tasks \ Handlers : tasks[t].pc = "idle"
    BY <1>2 DEF Alone, OnlyDeliveries, Idle
  <2>. QED
    BY <2>1, HandlersInApi DEF InApi
<1>. QED
  BY <1>1, <1>2 DEF Shared

(* After a quiet step, nothing that is busy was not busy before. *)
LEMMA QuietBusy ==
    ASSUME Typed, Quiet, NEW t \in Tasks, tasks'[t].pc \in Busy
    PROVE  tasks'[t] = tasks[t]
BY TakenUp, StreakOfJob DEF Quiet, Onward, Busy, Checking

LEMMA NextExclusive ==
    ASSUME Typed, Exclusive, CountsFailures, [Next]_vars
    PROVE  Exclusive' /\ CountsFailures'
<1>. USE DEF Busy
<1>1. CASE Quiet
  BY <1>1, QuietBusy DEF Exclusive, CountsFailures, Process
<1>2. ASSUME NEW h \in Handlers, Opened(h) \/ Merged(h)
      PROVE  Exclusive' /\ CountsFailures'
  BY <1>2, ArrivalTyped DEF Exclusive, CountsFailures, Checking, Process
<1>3. ASSUME NEW t \in Tasks, SaveResult(t)
      PROVE  Exclusive' /\ CountsFailures'
  <2>1. \A u \in Tasks : u # t /\ Process(u) = Process(t) => tasks[u].pc \notin Busy
    BY <1>3 DEF SaveResult, MayRun
  <2>2. /\ tasks'[t].pc = "saved"
        /\ \A u \in Tasks : u # t => tasks'[u] = tasks[u]
    BY <1>3, SaveTyped
  <2>3. Exclusive'
    BY <2>1, <2>2 DEF Exclusive, Process
  <2>. QED
    BY <2>2, <2>3 DEF CountsFailures
<1>4. ASSUME NEW t \in Tasks, ReadStreak(t)
      PROVE  Exclusive' /\ CountsFailures'
  BY <1>4, ReadTyped DEF Exclusive, CountsFailures, Process
<1>5. ASSUME NEW t \in Tasks, RecordPassed(t) \/ WriteStreak(t)
      PROVE  Exclusive' /\ CountsFailures'
  <2>1. /\ tasks'[t].pc = "publishing"
        /\ \A u \in Tasks : u # t => tasks'[u] = tasks[u]
    BY <1>5, PassedTyped, WriteTyped
  <2>. QED
    BY <2>1 DEF Exclusive, CountsFailures, Process
<1>. QED
  BY <1>1, <1>2, <1>3, <1>4, <1>5, StepKinds DEF Records

LEMMA NextFresh ==
    ASSUME Typed, Exclusive, Fresh, InApi, [Next]_vars
    PROVE  Fresh'
<1>. USE DEF Busy
<1>1. CASE Quiet
  BY <1>1, QuietBusy DEF Fresh, Quiet
<1>2. ASSUME NEW h \in Handlers, Opened(h) \/ Merged(h)
      PROVE  Fresh'
  <2>1. \A u \in Tasks : tasks[u].pc \notin Busy
    BY <1>2, ArrivalTyped, HandlersInApi DEF MayRun, InApi
  <2>. QED
    BY <1>2, <2>1, ArrivalTyped DEF Fresh, Checking
<1>3. ASSUME NEW t \in Tasks, SaveResult(t)
      PROVE  Fresh'
  BY <1>3, SaveTyped DEF Fresh
<1>4. ASSUME NEW t \in Tasks, ReadStreak(t)
      PROVE  Fresh'
  BY <1>4, ReadTyped DEF Fresh
<1>5. ASSUME NEW t \in Tasks, RecordPassed(t) \/ WriteStreak(t)
      PROVE  Fresh'
  <2>1. /\ tasks'[t].pc = "publishing" /\ tasks[t].pc \in Busy
        /\ \A u \in Tasks : u # t => tasks'[u] = tasks[u]
    BY <1>5, PassedTyped, WriteTyped
  <2>2. \A u \in Tasks : u # t => tasks[u].pc \notin Busy
    BY <2>1 DEF Exclusive, InApi
  <2>. QED
    BY <2>1, <2>2 DEF Fresh
<1>. QED
  BY <1>1, <1>2, <1>3, <1>4, <1>5, StepKinds DEF Records

LEMMA NextOnlyDeliveries ==
    ASSUME ~Async, Typed, OnlyDeliveries, [Next]_vars
    PROVE  OnlyDeliveries'
<1>. DEFINE Others == Tasks \ Handlers
<1>1. \A t \in Others : tasks[t].pc = "idle"
  BY DEF OnlyDeliveries, Idle
<1>2. tasks \in [Tasks -> Task] /\ Pump \in Others /\ Workers \subseteq Others
  BY PrValidationAssumption DEF Typed, TasksTyped, Tasks
<1>3. ASSUME NEW h \in Handlers, NEW task, tasks' = [tasks EXCEPT ![h] = task],
             UNCHANGED <<memoryQueue, adding, bull>>
      PROVE  OnlyDeliveries'
  BY <1>2, <1>3 DEF OnlyDeliveries
<1>4. ASSUME NEW t \in Tasks, Finalize(t)
      PROVE  OnlyDeliveries'
  <2>1. t \in Handlers
    BY <1>1, <1>4 DEF Finalize, SaveResult, RecordPassed, ReadStreak, WriteStreak, NextAwait
  <2>2. \E task : tasks' = [tasks EXCEPT ![t] = task]
    <3>1. CASE SaveResult(t) \/ RecordPassed(t) \/ WriteStreak(t)
      BY <3>1 DEF SaveResult, RecordPassed, WriteStreak
    <3>2. CASE ReadStreak(t)
      BY <1>2, <3>2 DEF ReadStreak
    <3>3. CASE NextAwait(t)
      BY <3>3 DEF NextAwait
    <3>. QED
      BY <1>4, <3>1, <3>2, <3>3 DEF Finalize
  <2>3. UNCHANGED <<memoryQueue, adding, bull>>
    BY <1>4 DEF Finalize, SaveResult, RecordPassed, ReadStreak, WriteStreak, NextAwait, queues
  <2>. QED
    BY <1>3, <2>1, <2>2, <2>3
<1>5. ASSUME NEW h \in Handlers, Deliver(h) \/ Handle(h) \/ Add(h)
      PROVE  OnlyDeliveries'
  <2>1. h \in Tasks
    BY DEF Tasks
  <2>2. CASE Deliver(h)
    BY <1>3, <2>2 DEF Deliver, Opened, Synchronize, Merged, queues
  <2>3. CASE Answer(h) \/ HandlerDone(h)
    BY <1>3, <2>3 DEF Answer, HandlerDone, queues
  <2>4. CASE Schedule(h)
    BY <1>3, <2>4 DEF Schedule, queues
  <2>5. CASE Add(h)
    BY <2>5 DEF Add, AddSucceeds, AddFails, OnlyDeliveries
  <2>. QED
    BY <1>4, <1>5, <2>1, <2>2, <2>3, <2>4, <2>5 DEF Handle
<1>6. ~PumpDone
  BY <1>1, <1>2 DEF PumpDone, LastAwait
<1>7. ASSUME NEW w \in Workers
      PROVE  ~(\E job \in Job : WorkerTakes(w, job)) /\ ~WorkerDone(w)
  BY <1>1, <1>2 DEF WorkerTakes, WorkerDone, LastAwait, OnlyDeliveries
<1>8. ASSUME NEW job \in Job
      PROVE  ~Stall(job) /\ ~Forget(job)
  BY DEF Stall, Forget, OnlyDeliveries
<1>9. ASSUME NEW t \in Tasks, Throw(t)
      PROVE  OnlyDeliveries'
  <2>1. t \in Handlers /\ t \notin Workers
    BY <1>1, <1>2, <1>9 DEF Throw
  <2>. QED
    BY <1>3, <1>9, <2>1 DEF Throw
<1>10. ASSUME NEW t \in Tasks, Crash(t)
       PROVE  OnlyDeliveries'
  BY <1>2, <1>10 DEF Crash, OnlyDeliveries
<1>11. CASE UNCHANGED vars
  BY <1>11 DEF vars, OnlyDeliveries
<1>12. Pump \in Tasks /\ \A w \in Workers : w \in Tasks
  BY DEF Tasks
<1>. QED
  BY <1>4, <1>5, <1>6, <1>7, <1>8, <1>9, <1>10, <1>11, <1>12 DEF Next, RunPump, Work

LEMMA InitAlone == Init => Alone
<1>. SUFFICES ASSUME Init PROVE Alone
  OBVIOUS
<1>1. \A t \in Tasks : tasks[t] = Idle /\ tasks[t].pc = "idle"
  BY DEF Init, Idle
<1>2. Exclusive /\ CountsFailures /\ Fresh
  BY <1>1 DEF Exclusive, CountsFailures, Fresh, Busy
<1>3. OnlyDeliveries
  BY <1>1 DEF Init, OnlyDeliveries
<1>. QED
  BY <1>2, <1>3, InitTyped DEF Alone

LEMMA NextAlone ==
    ASSUME Shared
    PROVE  Alone /\ [Next]_vars => Alone'
<1>. SUFFICES ASSUME Alone, [Next]_vars PROVE Alone'
  OBVIOUS
<1>1. Typed'
  BY NextTyped DEF Alone
<1>2. Exclusive' /\ CountsFailures'
  BY NextExclusive DEF Alone
<1>3. Fresh'
  BY AloneInApi, NextFresh DEF Alone
<1>4. ~Async => OnlyDeliveries'
  BY NextOnlyDeliveries DEF Alone
<1>. QED
  BY <1>1, <1>2, <1>3, <1>4 DEF Alone

----------------------------------------------------------------------------
(* The status endpoint, while nothing throws: a streak without a recording *)
(* under way goes with a stored failure, and so does a failure on its way  *)
(* from the cache to the streak.                                           *)

BusyOn(p) == \E t \in Tasks : tasks[t].pc \in Busy /\ tasks[t].job.pr = p

Coherent ==
    /\ Alone
    /\ \A p \in Prs : streak[p] > 0 /\ ~BusyOn(p) => cache[p] = "failed"
    /\ \A t \in Tasks :
          tasks[t].pc \in Busy /\ ~tasks[t].passed => cache[tasks[t].job.pr] = "failed"

Reliable == MayThrow = {} /\ MayCrash = {}

LEMMA InitCoherent == Init => Coherent
<1>. SUFFICES ASSUME Init PROVE Coherent
  OBVIOUS
<1>1. \A t \in Tasks : tasks[t].pc = "idle"
  BY DEF Init, Idle
<1>2. \A p \in Prs : ~(streak[p] > 0)
  BY DEF Init
<1>. QED
  BY <1>1, <1>2, InitAlone DEF Coherent, Busy

LEMMA NextCoherent ==
    ASSUME Shared, Reliable
    PROVE  Coherent /\ [Next]_vars => Coherent'
<1>. SUFFICES ASSUME Coherent, [Next]_vars PROVE Coherent'
  OBVIOUS
<1>. USE DEF Busy
<1>1. Alone /\ Alone' /\ Typed /\ InApi
  BY NextAlone, AloneInApi DEF Coherent, Alone
<1>2. /\ cache \in [Prs -> {"none", "passed", "failed"}]
      /\ streak \in [Prs -> 0..MaxStreak]
  BY <1>1 DEF Typed, CountsTyped
<1>3. ~Faulty
  BY DEF Faulty, Throw, Crash, Reliable
<1>4. CASE Quiet /\ Undisturbed
  <2>1. \A t \in Tasks : tasks[t].pc \in Busy \/ tasks'[t].pc \in Busy => tasks'[t] = tasks[t]
    BY <1>1, <1>4, QuietBusy DEF Undisturbed, Checking
  <2>2. \A p \in Prs : BusyOn(p) => BusyOn(p)'
    BY <2>1 DEF BusyOn
  <2>3. UNCHANGED <<streak, cache>>
    BY <1>4 DEF Quiet
  <2>. QED
    BY <1>1, <2>1, <2>2, <2>3 DEF Coherent
<1>5. ASSUME NEW h \in Handlers, Opened(h) \/ Merged(h)
      PROVE  Coherent'
  <2>1. \A t \in Tasks : tasks[t].pc \in Busy \/ tasks'[t].pc \in Busy => tasks'[t] = tasks[t]
    BY <1>1, <1>5, ArrivalTyped DEF Checking
  <2>2. \A p \in Prs : BusyOn(p) => BusyOn(p)'
    BY <2>1 DEF BusyOn
  <2>3. UNCHANGED cache /\ \E job \in Job : ResetStreak(job)
    BY <1>1, <1>5, ArrivalTyped
  <2>4. \A p \in Prs : streak'[p] > 0 => streak[p] > 0
    BY <1>2, <2>3 DEF ResetStreak
  <2>. QED
    BY <1>1, <2>1, <2>2, <2>3, <2>4 DEF Coherent
<1>6. ASSUME NEW t \in Tasks, SaveResult(t)
      PROVE  Coherent'
  <2>1. \A u \in Tasks : u # t => tasks[u].pc \notin Busy
    BY <1>1, <1>6, SaveTyped DEF MayRun, InApi
  <2>. DEFINE pr == tasks[t].job.pr
  <2>2. /\ tasks'[t].pc = "saved" /\ tasks'[t].job = tasks[t].job
        /\ tasks'[t].passed = tasks[t].passed /\ tasks[t].pc = "validated"
        /\ \A u \in Tasks : u # t => tasks'[u] = tasks[u]
        /\ cache' = [cache EXCEPT ![pr] = IF tasks[t].passed THEN "passed" ELSE "failed"]
        /\ UNCHANGED streak
    BY <1>1, <1>6, SaveTyped
  <2>3. pr \in Prs
    BY <1>1, <2>2, JobOfTask
  <2>4. ASSUME NEW p \in Prs, streak'[p] > 0, ~BusyOn(p)'
        PROVE  cache'[p] = "failed"
    <3>1. p # pr
      BY <2>2, <2>4 DEF BusyOn
    <3>2. ~BusyOn(p)
      BY <2>1, <2>2 DEF BusyOn
    <3>. QED
      BY <1>2, <2>2, <2>3, <2>4, <3>1, <3>2 DEF Coherent
  <2>5. \A u \in Tasks : tasks'[u].pc \in Busy => u = t
    BY <2>1, <2>2
  <2>6. ~tasks'[t].passed => cache'[pr] = "failed"
    BY <1>2, <2>2, <2>3
  <2>. QED
    BY <1>1, <2>2, <2>4, <2>5, <2>6 DEF Coherent
<1>7. ASSUME NEW t \in Tasks, ReadStreak(t)
      PROVE  Coherent'
  <2>1. /\ UNCHANGED <<streak, cache>> /\ tasks[t].pc = "saved" /\ ~tasks[t].passed
        /\ tasks'[t].pc = "counting" /\ tasks'[t].job = tasks[t].job
        /\ \A u \in Tasks : u # t => tasks'[u] = tasks[u]
    BY <1>1, <1>7, ReadTyped
  <2>2. \A p \in Prs : BusyOn(p) => BusyOn(p)'
    BY <2>1 DEF BusyOn
  <2>. QED
    BY <1>1, <2>1, <2>2 DEF Coherent
<1>8. ASSUME NEW t \in Tasks, RecordPassed(t) \/ WriteStreak(t)
      PROVE  Coherent'
  <2>. DEFINE pr == tasks[t].job.pr
  <2>1. /\ UNCHANGED cache /\ tasks[t].pc \in Busy /\ tasks'[t].pc = "publishing"
        /\ \A u \in Tasks : u # t => tasks'[u] = tasks[u]
    BY <1>1, <1>8, PassedTyped, WriteTyped
  <2>2. \A u \in Tasks : u # t => tasks[u].pc \notin Busy /\ tasks'[u].pc \notin Busy
    BY <1>1, <2>1 DEF Alone, Exclusive, InApi
  <2>3. pr \in Prs /\ \A p \in Prs : p # pr => ~BusyOn(p)
    BY <1>1, <2>1, <2>2, JobOfTask DEF BusyOn
  <2>4. \A p \in Prs : p # pr => streak'[p] = streak[p]
    BY <1>1, <1>2, <1>8, PassedTyped, WriteTyped DEF ResetStreak
  <2>5. streak'[pr] > 0 => cache[pr] = "failed"
    <3>1. CASE RecordPassed(t)
      <4>1. ResetStreak(tasks[t].job)
        BY <1>1, <3>1, PassedTyped
      <4>2. streak' = [streak EXCEPT ![pr] = 0]
        BY <4>1 DEF ResetStreak
      <4>3. streak'[pr] = 0
        BY <1>2, <2>3, <4>2
      <4>. QED
        BY <4>3
    <3>2. CASE WriteStreak(t)
      <4>1. tasks[t].pc = "counting"
        BY <1>1, <3>2, WriteTyped
      <4>2. ~tasks[t].passed
        BY <1>1, <4>1 DEF Alone, CountsFailures
      <4>. QED
        BY <4>1, <4>2 DEF Coherent
    <3>. QED
      BY <1>8, <3>1, <3>2
  <2>6. \A p \in Prs : streak'[p] > 0 => cache'[p] = "failed"
    BY <2>1, <2>3, <2>4, <2>5 DEF Coherent
  <2>7. \A u \in Tasks : tasks'[u].pc \notin Busy
    BY <2>1, <2>2
  <2>. QED
    BY <1>1, <2>6, <2>7 DEF Coherent
<1>. QED
  BY <1>1, <1>3, <1>4, <1>5, <1>6, <1>7, <1>8, StepKinds DEF Records

LEMMA CoherentStatus == Coherent => StatusIsCoherent
BY DEF Coherent, StatusIsCoherent, BusyOn, Busy

(* While nothing throws, a streak goes with a stored failure, whichever    *)
(* way the API validates in its own process.                               *)
THEOREM StatusCoherent ==
    ASSUME Shared, Reliable
    PROVE  Spec => []StatusIsCoherent
<1>1. Coherent /\ [Next]_vars => Coherent'
  BY NextCoherent
<1>. QED
  BY <1>1, InitCoherent, CoherentStatus, PTL DEF Spec

----------------------------------------------------------------------------
(* The loop event.  With one session, the streak stored for a pull request *)
(* number is that session's own count.                                     *)

Upto(n, limit) == IF n < limit THEN n ELSE limit

Counted ==
    /\ Alone
    /\ \A s \in Sessions, p \in Prs : inARow[<<s, p>>] = Upto(streak[p], LoopLimit)

OneSession == \A s1, s2 \in Sessions : s1 = s2

LEMMA InitCounted == Init => Counted
BY InitAlone, PrValidationAssumption DEF Init, Counted, Upto

LEMMA NextCounted ==
    ASSUME Shared, OneSession
    PROVE  Counted /\ [Next]_vars => Counted' /\ EarnedStep
<1>. SUFFICES ASSUME Counted, [Next]_vars PROVE Counted' /\ EarnedStep
  OBVIOUS
<1>1. Alone /\ Alone' /\ Typed /\ LoopLimit \in Nat \ {0}
  BY NextAlone, PrValidationAssumption DEF Counted, Alone
<1>2. /\ streak \in [Prs -> 0..MaxStreak]
      /\ inARow \in [Sessions \X Prs -> 0..LoopLimit]
  BY <1>1 DEF Typed, CountsTyped
<1>. DEFINE Counts == \A s \in Sessions, p \in Prs : inARow[<<s, p>>] = Upto(streak[p], LoopLimit)
            Loud(t) == tasks'[t].pc = "publishing" /\ Head(tasks'[t].awaits) = "LOOP_DETECTED"
            Same(t) == tasks[t].pc = "publishing" /\ tasks[t].job = tasks'[t].job
            Full(t) == inARow'[<<tasks'[t].job.session, tasks'[t].job.pr>>] = LoopLimit
<1>3. Counts
  BY DEF Counted
<1>4. SUFFICES Counts' /\ \A t \in Tasks : Loud(t) /\ ~Same(t) => Full(t)
  BY <1>1 DEF Counted, EarnedStep
<1>5. ASSUME NEW job \in Job, ResetStreak(job)
      PROVE  Counts'
  <2>1. job.session \in Sessions /\ job.pr \in Prs /\ \A s \in Sessions : s = job.session
    BY DEF Job, OneSession
  <2>2. /\ streak' = [streak EXCEPT ![job.pr] = 0]
        /\ inARow' = [inARow EXCEPT ![<<job.session, job.pr>>] = 0]
    BY <1>5 DEF ResetStreak
  <2>3. ASSUME NEW s \in Sessions, NEW p \in Prs
        PROVE  inARow'[<<s, p>>] = Upto(streak'[p], LoopLimit)
    <3>1. CASE p = job.pr
      <4>1. inARow'[<<s, p>>] = 0 /\ streak'[p] = 0
        BY <1>2, <2>1, <2>2, <3>1
      <4>. QED
        BY <1>1, <4>1 DEF Upto
    <3>2. CASE p # job.pr
      <4>1. <<s, p>> # <<job.session, job.pr>>
        BY <3>2
      <4>. QED
        BY <1>2, <1>3, <2>2, <3>2, <4>1
    <3>. QED
      BY <3>1, <3>2
  <2>. QED
    BY <2>3
<1>6. CASE Quiet
  <2>1. Counts'
    BY <1>3, <1>6 DEF Quiet
  <2>2. ASSUME NEW t \in Tasks, Loud(t), ~Same(t)
        PROVE  Full(t)
    <3>1. CASE tasks'[t] = tasks[t]
      BY <2>2, <3>1
    <3>2. CASE \E job \in Job : tasks'[t] \in TakeUp(job)
      <4>1. PICK job \in Job : tasks'[t] \in TakeUp(job)
        BY <3>2
      <4>2. streak[job.pr] \in Nat /\ job.session \in Sessions /\ job.pr \in Prs
        BY <1>1, StreakOfJob
      <4>3. tasks'[t].job = job /\ streak[job.pr] >= LoopLimit
        BY <2>2, <4>1, <4>2, TakenUp
      <4>4. inARow'[<<job.session, job.pr>>] = Upto(streak[job.pr], LoopLimit)
        BY <1>3, <1>6, <4>2 DEF Quiet
      <4>. QED
        BY <1>1, <4>2, <4>3, <4>4 DEF Upto
    <3>. QED
      BY <1>6, <2>2, <3>1, <3>2 DEF Quiet, Onward
  <2>. QED
    BY <2>1, <2>2
<1>7. ASSUME NEW h \in Handlers, Opened(h) \/ Merged(h)
      PROVE  Counts' /\ \A t \in Tasks : Loud(t) /\ ~Same(t) => Full(t)
  <2>1. Counts'
    BY <1>1, <1>5, <1>7, ArrivalTyped
  <2>2. \A t \in Tasks : Loud(t) => Same(t)
    BY <1>1, <1>7, ArrivalTyped
  <2>. QED
    BY <2>1, <2>2
<1>8. ASSUME NEW t \in Tasks, SaveResult(t) \/ ReadStreak(t)
      PROVE  Counts' /\ \A u \in Tasks : Loud(u) /\ ~Same(u) => Full(u)
  <2>1. UNCHANGED <<streak, inARow>>
    BY <1>1, <1>8, SaveTyped, ReadTyped
  <2>2. tasks'[t].pc # "publishing" /\ \A u \in Tasks : u # t => tasks'[u] = tasks[u]
    BY <1>1, <1>8, SaveTyped, ReadTyped
  <2>. QED
    BY <1>3, <2>1, <2>2
<1>9. ASSUME NEW t \in Tasks, RecordPassed(t)
      PROVE  Counts' /\ \A u \in Tasks : Loud(u) /\ ~Same(u) => Full(u)
  <2>1. tasks[t].job \in Job /\ ResetStreak(tasks[t].job)
    BY <1>1, <1>9, PassedTyped, JobOfTask
  <2>2. Head(tasks'[t].awaits) = "PASSED" /\ \A u \in Tasks : u # t => tasks'[u] = tasks[u]
    BY <1>1, <1>9, PassedTyped
  <2>. QED
    BY <1>5, <2>1, <2>2
<1>10. ASSUME NEW t \in Tasks, WriteStreak(t)
       PROVE  Counts' /\ \A u \in Tasks : Loud(u) /\ ~Same(u) => Full(u)
  <2>. DEFINE job == tasks[t].job
              now == streak[job.pr]
              own == <<job.session, job.pr>>
  <2>1. /\ tasks[t].pc = "counting" /\ tasks[t].prev = now
        /\ streak' = [streak EXCEPT ![job.pr] = tasks[t].prev + 1]
        /\ inARow' = [inARow EXCEPT ![own] = IF @ < LoopLimit THEN @ + 1 ELSE @]
        /\ tasks'[t].job = job /\ tasks'[t].awaits = FailureEvents(tasks[t].prev + 1)
        /\ \A u \in Tasks : u # t => tasks'[u] = tasks[u]
    BY <1>1, <1>10, WriteTyped DEF Alone, Fresh
  <2>2. /\ job.session \in Sessions /\ job.pr \in Prs /\ now \in Nat
        /\ \A s \in Sessions : s = job.session
    BY <1>1, <2>1, JobOfTask DEF OneSession
  <2>3. streak' = [streak EXCEPT ![job.pr] = now + 1]
    BY <2>1
  <2>4. inARow[own] = Upto(now, LoopLimit)
    BY <1>3, <2>2
  <2>5. inARow'[own] = Upto(now + 1, LoopLimit)
    <3>1. inARow'[own] = IF inARow[own] < LoopLimit THEN inARow[own] + 1 ELSE inARow[own]
      BY <1>2, <2>1, <2>2
    <3>. HIDE DEF now, own
    <3>. QED
      BY <1>1, <2>2, <2>4, <3>1 DEF Upto
  <2>6. Counts'
    <3>1. ASSUME NEW s \in Sessions, NEW p \in Prs
          PROVE  inARow'[<<s, p>>] = Upto(streak'[p], LoopLimit)
      <4>1. CASE p = job.pr
        BY <1>2, <2>2, <2>3, <2>5, <4>1
      <4>2. CASE p # job.pr
        <5>1. <<s, p>> # own
          BY <4>2
        <5>. QED
          BY <1>2, <1>3, <2>1, <2>3, <4>2, <5>1
      <4>. QED
        BY <4>1, <4>2
    <3>. QED
      BY <3>1
  <2>7. Loud(t) => Full(t)
    <3>1. SUFFICES ASSUME Loud(t) PROVE inARow'[own] = LoopLimit
      BY <2>1
    <3>2. now + 1 = LoopLimit
      BY <2>1, <3>1, Events
    <3>. QED
      BY <1>1, <2>5, <3>2 DEF Upto
  <2>. QED
    BY <2>1, <2>6, <2>7
<1>. QED
  <2>. HIDE DEF Counts, Loud, Same, Full
  <2>. QED
    BY <1>1, <1>6, <1>7, <1>8, <1>9, <1>10, StepKinds DEF Records

(* The loop event goes out only when the session's own pull request has    *)
(* failed LoopLimit times in a row, if no other session uses its number.   *)
THEOREM LoopEarned ==
    ASSUME Shared, OneSession
    PROVE  Spec => LoopIsEarned
<1>1. Counted /\ [Next]_vars => Counted' /\ EarnedStep
  BY NextCounted
<1>. QED
  BY <1>1, InitCounted, PTL DEF Spec, LoopIsEarned

----------------------------------------------------------------------------
(* Validation within the deliveries.  From the limit on no delivery starts *)
(* a check, so that the failures still to come are those of the deliveries *)
(* that were checking when the limit was reached: each that is counted is  *)
(* one fewer to come.                                                      *)

ToFail(p) ==
    {h \in Handlers : /\ tasks[h].pc \in Checking /\ ~tasks[h].passed
                      /\ tasks[h].job.pr = p}

Contained ==
    /\ Alone
    /\ \A p \in Prs :
          streak[p] >= LoopLimit =>
              streak[p] + Cardinality(ToFail(p)) < LoopLimit + Cardinality(Handlers)

LEMMA FewToFail ==
    ASSUME NEW p
    PROVE  /\ IsFiniteSet(ToFail(p)) /\ Cardinality(ToFail(p)) \in Nat
           /\ Cardinality(Handlers) \in Nat
           /\ Cardinality(ToFail(p)) <= Cardinality(Handlers)
<1>1. IsFiniteSet(Handlers) /\ ToFail(p) \subseteq Handlers
  BY PrValidationAssumption DEF ToFail
<1>. QED
  BY <1>1, FS_Subset, FS_CardinalityType

(* A pull request whose streak is what it was and that nobody new checks. *)
LEMMA StaysContained ==
    ASSUME Contained, NEW p \in Prs, streak'[p] = streak[p], ToFail(p)' \subseteq ToFail(p)
    PROVE  streak'[p] >= LoopLimit =>
               streak'[p] + Cardinality(ToFail(p)') < LoopLimit + Cardinality(Handlers)
<1>1. IsFiniteSet(ToFail(p)) /\ Cardinality(ToFail(p)) \in Nat /\ Cardinality(Handlers) \in Nat
  BY FewToFail
<1>2. Cardinality(ToFail(p)') \in Nat /\ Cardinality(ToFail(p)') <= Cardinality(ToFail(p))
  BY <1>1, FS_Subset, FS_CardinalityType
<1>3. streak[p] \in Nat /\ LoopLimit \in Nat
  BY PrValidationAssumption DEF Contained, Alone, Typed, CountsTyped
<1>. QED
  BY <1>1, <1>2, <1>3 DEF Contained

LEMMA NextContained ==
    ASSUME ~Async
    PROVE  Contained /\ [Next]_vars => Contained'
<1>. SUFFICES ASSUME Contained, [Next]_vars PROVE Contained'
  OBVIOUS
<1>1. Alone /\ Alone' /\ Typed /\ LoopLimit \in Nat \ {0}
  BY NextAlone, PrValidationAssumption DEF Contained, Alone, Shared
<1>2. streak \in [Prs -> 0..MaxStreak]
  BY <1>1 DEF Typed, CountsTyped
<1>. DEFINE Bounded(p) ==
               streak'[p] >= LoopLimit =>
                   streak'[p] + Cardinality(ToFail(p)') < LoopLimit + Cardinality(Handlers)
<1>3. SUFFICES ASSUME NEW p \in Prs PROVE Bounded(p)
  BY <1>1 DEF Contained
<1>4. CASE Quiet
  <2>1. CASE streak[p] >= LoopLimit
    <3>1. ASSUME NEW h \in ToFail(p)'
          PROVE  h \in ToFail(p)
      <4>1. h \in Tasks /\ h \in Handlers /\ tasks'[h].pc \in Checking /\ ~tasks'[h].passed
            /\ tasks'[h].job.pr = p
        BY HandlersInApi DEF ToFail
      <4>2. CASE \E job \in Job : tasks'[h] \in TakeUp(job)
        <5>1. PICK job \in Job : tasks'[h] \in TakeUp(job)
          BY <4>2
        <5>2. streak[job.pr] \in Nat
          BY <1>1, StreakOfJob
        <5>3. tasks'[h].job = job /\ streak[job.pr] < LoopLimit
          BY <4>1, <5>1, <5>2, TakenUp DEF Checking
        <5>. QED
          BY <1>1, <1>2, <2>1, <4>1, <5>3
      <4>3. CASE tasks'[h] = tasks[h]
        BY <4>1, <4>3 DEF ToFail
      <4>. QED
        BY <1>4, <4>1, <4>2, <4>3 DEF Quiet, Onward, Checking
    <3>. QED
      BY <1>4, <3>1, StaysContained DEF Quiet
  <2>2. CASE ~(streak[p] >= LoopLimit)
    BY <1>4, <2>2 DEF Quiet
  <2>. QED
    BY <2>1, <2>2
<1>5. ASSUME NEW job \in Job, ResetStreak(job), ToFail(p)' \subseteq ToFail(p)
      PROVE  Bounded(p)
  <2>1. streak'[p] = 0 \/ streak'[p] = streak[p]
    BY <1>2, <1>5 DEF ResetStreak
  <2>2. CASE streak'[p] = 0
    BY <1>1, <2>2
  <2>3. CASE streak'[p] = streak[p]
    BY <1>5, <2>3, StaysContained
  <2>. QED
    BY <2>1, <2>2, <2>3
<1>6. ASSUME NEW h \in Handlers, Opened(h) \/ Merged(h)
      PROVE  Bounded(p)
  <2>1. \E job \in Job : ResetStreak(job)
    BY <1>1, <1>6, ArrivalTyped
  <2>2. ToFail(p)' \subseteq ToFail(p)
    BY <1>1, <1>6, ArrivalTyped, HandlersInApi DEF ToFail
  <2>. QED
    BY <1>5, <2>1, <2>2
<1>7. ASSUME NEW t \in Tasks, SaveResult(t) \/ ReadStreak(t)
      PROVE  Bounded(p)
  <2>1. UNCHANGED streak
    BY <1>1, <1>7, SaveTyped, ReadTyped
  <2>2. /\ tasks[t].pc \in Checking /\ tasks'[t].job = tasks[t].job
        /\ \A u \in Tasks : u # t => tasks'[u] = tasks[u]
        /\ ~tasks'[t].passed => ~tasks[t].passed
    BY <1>1, <1>7, SaveTyped, ReadTyped DEF Checking
  <2>3. ToFail(p)' \subseteq ToFail(p)
    BY <2>2, HandlersInApi DEF ToFail
  <2>. QED
    BY <2>1, <2>3, StaysContained
<1>8. ASSUME NEW t \in Tasks, RecordPassed(t)
      PROVE  Bounded(p)
  <2>1. tasks[t].job \in Job /\ ResetStreak(tasks[t].job)
    BY <1>1, <1>8, PassedTyped, JobOfTask
  <2>2. /\ tasks'[t].pc = "publishing"
        /\ \A u \in Tasks : u # t => tasks'[u] = tasks[u]
    BY <1>1, <1>8, PassedTyped
  <2>3. ToFail(p)' \subseteq ToFail(p)
    BY <2>2, HandlersInApi DEF ToFail, Checking
  <2>. QED
    BY <1>5, <2>1, <2>3
<1>9. ASSUME NEW t \in Tasks, WriteStreak(t)
      PROVE  Bounded(p)
  <2>. DEFINE pr == tasks[t].job.pr
  <2>1. /\ tasks[t].pc = "counting" /\ tasks'[t].pc = "publishing"
        /\ streak' = [streak EXCEPT ![pr] = tasks[t].prev + 1]
        /\ \A u \in Tasks : u # t => tasks'[u] = tasks[u]
    BY <1>1, <1>9, WriteTyped
  <2>2. tasks[t].prev = streak[pr] /\ ~tasks[t].passed
    BY <1>1, <2>1 DEF Alone, Fresh, CountsFailures
  <2>3. pr \in Prs
    BY <1>1, <2>1, JobOfTask
  <2>4. t \in Handlers
    BY <1>1, <2>1 DEF Alone, OnlyDeliveries, Idle
  <2>5. \A h \in Handlers : h # t => tasks'[h] = tasks[h]
    BY <2>1, HandlersInApi
  <2>6. CASE p # pr
    <3>1. streak'[p] = streak[p]
      BY <1>2, <2>1, <2>6
    <3>2. ToFail(p)' \subseteq ToFail(p)
      BY <2>1, <2>5 DEF ToFail, Checking
    <3>. QED
      BY <3>1, <3>2, StaysContained
  <2>7. CASE p = pr
    <3>1. streak'[p] = streak[p] + 1
      BY <1>2, <2>1, <2>2, <2>7
    <3>2. t \in ToFail(p)
      BY <2>1, <2>2, <2>4, <2>7 DEF ToFail, Checking
    <3>3. ToFail(p)' = ToFail(p) \ {t}
      BY <2>1, <2>5 DEF ToFail, Checking
    <3>4. /\ IsFiniteSet(ToFail(p)) /\ Cardinality(ToFail(p)) \in Nat
          /\ Cardinality(Handlers) \in Nat
          /\ Cardinality(ToFail(p)) <= Cardinality(Handlers)
      BY FewToFail
    <3>5. Cardinality(ToFail(p)') = Cardinality(ToFail(p)) - 1
      BY <3>2, <3>3, <3>4, FS_RemoveElement
    <3>6. streak[p] >= LoopLimit =>
              streak[p] + Cardinality(ToFail(p)) < LoopLimit + Cardinality(Handlers)
      BY DEF Contained
    <3>7. streak[p] \in Nat
      BY <1>2
    <3>. QED
      BY <1>1, <3>1, <3>4, <3>5, <3>6, <3>7
  <2>. QED
    BY <2>6, <2>7
<1>. QED
  <2>. HIDE DEF Bounded
  <2>. QED
    BY <1>1, <1>4, <1>6, <1>7, <1>8, <1>9, StepKinds DEF Records

LEMMA InitContained == Init => Contained
<1>. SUFFICES ASSUME Init PROVE Contained
  OBVIOUS
<1>1. \A p \in Prs : ~(streak[p] >= LoopLimit)
  BY PrValidationAssumption DEF Init
<1>. QED
  BY <1>1, InitAlone DEF Contained

LEMMA ContainedBound == Contained => BoundedOvershoot
<1>. SUFFICES ASSUME Contained, NEW p \in Prs
     PROVE  streak[p] < LoopLimit + Cardinality(Handlers)
  BY DEF BoundedOvershoot
<1>1. /\ Cardinality(ToFail(p)) \in Nat /\ Cardinality(Handlers) \in Nat
      /\ streak[p] \in Nat /\ LoopLimit \in Nat
  BY FewToFail, PrValidationAssumption DEF Contained, Alone, Typed, CountsTyped
<1>2. CASE streak[p] >= LoopLimit
  BY <1>1, <1>2 DEF Contained
<1>3. CASE ~(streak[p] >= LoopLimit)
  BY <1>1, <1>3
<1>. QED
  BY <1>2, <1>3

(* With validation within the deliveries the streak passes the limit by no *)
(* more than the other deliveries that were under way when it was reached. *)
THEOREM OvershootBounded == Spec => []BoundedOvershoot
<1>1. CASE Async
  <2>1. BoundedOvershoot
    BY <1>1 DEF BoundedOvershoot
  <2>. QED
    BY <2>1, PTL
<1>2. CASE ~Async
  <2>1. Contained /\ [Next]_vars => Contained'
    BY <1>2, NextContained
  <2>. QED
    BY <2>1, InitContained, ContainedBound, PTL DEF Spec
<1>. QED
  BY <1>1, <1>2

----------------------------------------------------------------------------
(* The queue in memory keeps LoopGuard's promise: deliveries only hand     *)
(* over, and the pump checks one job at a time, below the limit.           *)

InMemory == Async /\ Bull = "off"

Guarded ==
    /\ Alone
    /\ \A h \in Handlers : tasks[h].pc \notin Checking
    /\ tasks[Pump].pc \in Checking => streak[tasks[Pump].job.pr] < LoopLimit

(* What a step does to the streaks. *)
GuardedStep ==
    \/ UNCHANGED streak
    \/ \E p \in Prs : \/ streak' = [streak EXCEPT ![p] = 0]
                      \/ streak[p] < LoopLimit /\ streak' = [streak EXCEPT ![p] = streak[p] + 1]

LEMMA HandlersHandOver ==
    ASSUME InMemory, Typed, [Next]_vars, NEW h \in Handlers, tasks[h].pc \notin Checking
    PROVE  tasks'[h].pc \notin Checking
<1>. DEFINE Goal == tasks'[h].pc \notin Checking
<1>1. /\ tasks \in [Tasks -> Task] /\ h \in Tasks /\ h # Pump /\ Workers = {}
      /\ Handlers \subseteq Tasks
  BY PrValidationAssumption DEF InMemory, Typed, TasksTyped, Tasks
<1>2. ASSUME NEW t \in Tasks, Finalize(t)
      PROVE  Goal
  <2>1. CASE NextAwait(t)
    BY <1>1, <2>1 DEF NextAwait, Checking, Task
  <2>2. CASE SaveResult(t) \/ ReadStreak(t) \/ RecordPassed(t) \/ WriteStreak(t)
    <3>1. tasks[t].pc \in Checking /\ \A u \in Tasks : u # t => tasks'[u] = tasks[u]
      BY <2>2, SaveTyped, ReadTyped, PassedTyped, WriteTyped DEF Checking
    <3>. QED
      BY <1>1, <3>1
  <2>. QED
    BY <1>2, <2>1, <2>2 DEF Finalize
<1>3. ASSUME NEW g \in Handlers, Deliver(g) \/ Handle(g) \/ Add(g)
      PROVE  Goal
  <2>1. CASE Opened(g) \/ Merged(g)
    BY <1>1, <2>1, ArrivalTyped
  <2>2. CASE Synchronize(g)
    <3>1. PICK job \in Job : tasks' = [tasks EXCEPT ![g] = Doing("announcing", job)]
      BY <2>2 DEF Synchronize
    <3>2. Doing("announcing", job).pc \notin Checking
      BY DoingSound DEF Checking
    <3>. QED
      BY <1>1, <3>1, <3>2
  <2>3. CASE Answer(g) \/ HandlerDone(g)
    BY <1>1, <2>3 DEF Answer, HandlerDone, Idle, Checking
  <2>4. CASE AddSucceeds(g)
    BY <2>4 DEF AddSucceeds
  <2>5. CASE AddFails(g)
    BY <1>1, <2>5 DEF AddFails, EnqueueInMemory
  <2>6. CASE Schedule(g)
    <3>. DEFINE job == tasks[g].job
                answering == [tasks EXCEPT ![g] = Doing("answering", job)]
    <3>1. tasks[g].pc = "announcing" /\ g \in Tasks
      BY <1>1, <2>6 DEF Schedule
    <3>2. job \in Job /\ streak[job.pr] \in Nat
      BY <3>1, JobOfTask
    <3>3. Doing("answering", job).pc \notin Checking
      BY <3>2, DoingSound DEF Checking
    <3>4. CASE /\ streak[job.pr] >= LoopLimit
               /\ \E task \in TakeUp(job) : tasks' = [tasks EXCEPT ![g] = task]
      <4>1. PICK task \in TakeUp(job) : tasks' = [tasks EXCEPT ![g] = task]
        BY <3>4
      <4>2. task = Publishing(job, <<"LOOP_DETECTED">>)
        BY <3>4, <4>1 DEF TakeUp
      <4>3. task.pc \notin Checking
        BY <3>2, <4>2, Events, PublishingSound DEF Checking
      <4>. QED
        BY <1>1, <4>1, <4>3
    <3>5. CASE EnqueueInMemory(job, answering)
      <4>1. tasks'[h] = answering[h]
        BY <1>1, <3>5 DEF EnqueueInMemory
      <4>. QED
        BY <1>1, <3>3, <4>1
    <3>. QED
      BY <2>6, <3>4, <3>5 DEF Schedule, InMemory
  <2>. QED
    BY <1>1, <1>2, <1>3, <2>1, <2>2, <2>3, <2>4, <2>5, <2>6 DEF Deliver, Handle, Add
<1>4. CASE PumpDone
  BY <1>1, <1>4 DEF PumpDone
<1>5. ASSUME NEW job \in Job, Stall(job) \/ Forget(job)
      PROVE  Goal
  BY <1>5 DEF Stall, Forget
<1>6. ASSUME NEW t \in Tasks, Throw(t) \/ Crash(t)
      PROVE  Goal
  <2>1. tasks'[h] = tasks[h] \/ tasks'[h] = Idle
    BY <1>1, <1>6, FaultQuiet
  <2>. QED
    BY <2>1 DEF Idle, Checking
<1>7. CASE UNCHANGED vars
  BY <1>7 DEF vars
<1>8. Pump \in Tasks
  BY DEF Tasks
<1>. QED
  BY <1>1, <1>2, <1>3, <1>4, <1>5, <1>6, <1>7, <1>8 DEF Next, RunPump

LEMMA NextGuarded ==
    ASSUME InMemory
    PROVE  Guarded /\ [Next]_vars => Guarded' /\ GuardedStep
<1>. SUFFICES ASSUME Guarded, [Next]_vars PROVE Guarded' /\ GuardedStep
  OBVIOUS
<1>1. /\ Alone /\ Alone' /\ Typed /\ LoopLimit \in Nat \ {0}
      /\ \A h \in Handlers : tasks'[h].pc \notin Checking
  BY NextAlone, HandlersHandOver, PrValidationAssumption
     DEF Guarded, Alone, Shared, InMemory
<1>2. streak \in [Prs -> 0..MaxStreak] /\ Pump \in Tasks
  BY <1>1 DEF Typed, CountsTyped, Tasks
<1>3. ASSUME NEW t \in Tasks, tasks[t].pc \in Checking
      PROVE  t = Pump /\ streak[tasks[t].job.pr] < LoopLimit
  BY <1>3, PrValidationAssumption DEF Guarded, Tasks, InMemory
<1>. DEFINE Below == tasks[Pump].pc \in Checking => streak[tasks[Pump].job.pr] < LoopLimit
<1>4. Below
  BY DEF Guarded
<1>5. SUFFICES Below' /\ GuardedStep
  BY <1>1 DEF Guarded
<1>6. CASE Quiet
  <2>1. UNCHANGED streak
    BY <1>6 DEF Quiet
  <2>2. Below'
    <3>1. CASE \E job \in Job : tasks'[Pump] \in TakeUp(job)
      BY <1>1, <2>1, <3>1, TakenUp, StreakOfJob DEF Checking
    <3>. QED
      BY <1>2, <1>4, <1>6, <2>1, <3>1 DEF Quiet, Onward, Checking
  <2>. QED
    BY <2>1, <2>2 DEF GuardedStep
<1>7. ASSUME NEW job \in Job, ResetStreak(job), tasks'[Pump] = tasks[Pump]
                                                \/ tasks'[Pump].pc \notin Checking
      PROVE  Below' /\ GuardedStep
  <2>1. job.pr \in Prs /\ streak' = [streak EXCEPT ![job.pr] = 0]
    BY <1>1, <1>7, StreakOfJob DEF ResetStreak
  <2>2. ASSUME tasks[Pump].pc \in Checking
        PROVE  streak'[tasks[Pump].job.pr] < LoopLimit
    <3>1. tasks[Pump].job.pr \in Prs
      BY <1>1, <1>2, <2>2, JobOfTask DEF Checking
    <3>2. streak'[tasks[Pump].job.pr] \in {0, streak[tasks[Pump].job.pr]}
      BY <1>2, <2>1, <3>1
    <3>. QED
      BY <1>1, <1>4, <2>2, <3>2
  <2>. QED
    BY <1>7, <2>1, <2>2 DEF GuardedStep
<1>8. ASSUME NEW h \in Handlers, Opened(h) \/ Merged(h)
      PROVE  Below' /\ GuardedStep
  <2>1. tasks'[Pump] = tasks[Pump] /\ \E job \in Job : ResetStreak(job)
    BY <1>1, <1>2, <1>8, ArrivalTyped, PrValidationAssumption
  <2>. QED
    BY <1>7, <2>1
<1>9. ASSUME NEW t \in Tasks, SaveResult(t) \/ ReadStreak(t)
      PROVE  Below' /\ GuardedStep
  <2>1. /\ UNCHANGED streak /\ tasks[t].pc \in Checking /\ tasks'[t].job = tasks[t].job
    BY <1>1, <1>9, SaveTyped, ReadTyped DEF Checking
  <2>. QED
    BY <1>3, <2>1 DEF GuardedStep
<1>10. ASSUME NEW t \in Tasks, RecordPassed(t)
       PROVE  Below' /\ GuardedStep
  <2>1. /\ tasks[t].pc \in Checking /\ tasks'[t].pc = "publishing"
        /\ tasks[t].job \in Job /\ ResetStreak(tasks[t].job)
    BY <1>1, <1>10, PassedTyped, JobOfTask DEF Checking
  <2>. QED
    BY <1>3, <1>7, <2>1 DEF Checking
<1>11. ASSUME NEW t \in Tasks, WriteStreak(t)
       PROVE  Below' /\ GuardedStep
  <2>. DEFINE pr == tasks[t].job.pr
  <2>1. /\ tasks[t].pc = "counting" /\ tasks'[t].pc = "publishing"
        /\ streak' = [streak EXCEPT ![pr] = tasks[t].prev + 1]
    BY <1>1, <1>11, WriteTyped
  <2>2. tasks[t].prev = streak[pr] /\ pr \in Prs
    BY <1>1, <2>1, JobOfTask DEF Alone, Fresh
  <2>3. t = Pump /\ streak[pr] < LoopLimit
    BY <1>3, <2>1 DEF Checking
  <2>. QED
    BY <2>1, <2>2, <2>3 DEF GuardedStep, Checking
<1>. QED
  <2>. HIDE DEF Below
  <2>. QED
    BY <1>1, <1>6, <1>8, <1>9, <1>10, <1>11, StepKinds DEF Records

LEMMA InitGuarded == Init => Guarded
<1>. SUFFICES ASSUME Init PROVE Guarded
  OBVIOUS
<1>1. \A t \in Tasks : tasks[t].pc = "idle"
  BY DEF Init, Idle
<1>. QED
  BY <1>1, InitAlone, HandlersInApi DEF Guarded, Checking, Tasks

(* With one task that validates, the stored streak keeps LoopGuard's       *)
(* promise, whatever waits in the queue, throws or crashes.                *)
THEOREM QueueKeepsGuard ==
    ASSUME InMemory
    PROVE  Spec => ImplementsLoopGuard
<1>1. Init => Guard!Init
  BY DEF Init, Guard!Init
<1>2. Guarded /\ [Next]_vars => Guarded' /\ GuardedStep
  BY NextGuarded
<1>3. GuardedStep => [Guard!Next]_streak
  BY DEF GuardedStep, Guard!Next, Guard!ValidationFails, Guard!StartsAfresh
<1>. QED
  BY <1>1, <1>2, <1>3, InitGuarded, PTL DEF Spec, ImplementsLoopGuard, Guard!Spec

----------------------------------------------------------------------------
(* BullMQ's retries.  What a job has cost, what its workers may still      *)
(* record, and the turn it waits for were all granted: a first turn, one   *)
(* for each retry and one for each stall that is forgiven.                 *)

Pending(job) == {w \in Workers : tasks[w].pc \in Checking /\ tasks[w].job = job}

Turn(entry) == IF entry.state = "waiting" THEN 1 ELSE 0

Granted(entry) == 1 + Upto(entry.attempts, Attempts - 1) + Upto(entry.stalls, MaxStalled)

Within(job) ==
    /\ runs[job] + Cardinality(Pending(job)) + Turn(bull[job]) <= Granted(bull[job])
    /\ bull[job].state = "absent" => Pending(job) = {}

Thrifty == Typed /\ \A job \in Job : Within(job)

LEMMA PendingFinite ==
    ASSUME NEW job
    PROVE  IsFiniteSet(Pending(job)) /\ Cardinality(Pending(job)) \in Nat
BY PrValidationAssumption, FS_Subset, FS_CardinalityType DEF Pending

LEMMA EntryGranted ==
    ASSUME NEW entry \in BullEntry
    PROVE  /\ Turn(entry) \in {0, 1} /\ Granted(entry) \in Nat
           /\ Granted(entry) <= Attempts + MaxStalled
<1>1. entry.attempts \in 0..Attempts /\ entry.stalls \in 0..(MaxStalled + 1)
  BY DEF BullEntry
<1>2. /\ Upto(entry.attempts, Attempts - 1) \in 0..(Attempts - 1)
      /\ Upto(entry.stalls, MaxStalled) \in 0..MaxStalled
  BY <1>1 DEF Upto, Attempts, MaxStalled
<1>3. Turn(entry) \in {0, 1}
  BY DEF Turn
<1>. QED
  BY <1>2, <1>3 DEF Granted, Attempts, MaxStalled

LEMMA EntriesGranted ==
    ASSUME Typed, NEW job \in Job
    PROVE  bull[job] \in BullEntry /\ runs[job] \in Nat
BY DEF Typed, BullTyped, CountsTyped

(* A step that gives the job no turn, and takes none from it. *)
LEMMA StaysWithin ==
    ASSUME Thrifty, Typed', NEW job \in Job, runs'[job] = runs[job],
           Pending(job)' \subseteq Pending(job),
           Turn(bull'[job]) - Turn(bull[job]) <= Granted(bull'[job]) - Granted(bull[job]),
           bull'[job].state = "absent" => Pending(job)' = {}
    PROVE  Within(job)'
<1>1. /\ IsFiniteSet(Pending(job)) /\ Cardinality(Pending(job)) \in Nat
      /\ Cardinality(Pending(job)') \in Nat
      /\ Cardinality(Pending(job)') <= Cardinality(Pending(job))
  BY PendingFinite, FS_Subset, FS_CardinalityType
<1>2. /\ Turn(bull[job]) \in {0, 1} /\ Granted(bull[job]) \in Nat /\ runs[job] \in Nat
      /\ Turn(bull'[job]) \in {0, 1} /\ Granted(bull'[job]) \in Nat
  <2>1. bull[job] \in BullEntry /\ runs[job] \in Nat /\ bull'[job] \in BullEntry
    BY DEF Thrifty, Typed, BullTyped, CountsTyped
  <2>. QED
    BY <2>1, EntryGranted
<1>3. runs[job] + Cardinality(Pending(job)) + Turn(bull[job]) <= Granted(bull[job])
  BY DEF Thrifty, Within
<1>4. runs'[job] + Cardinality(Pending(job)') + Turn(bull'[job]) <= Granted(bull'[job])
  <2>. DEFINE turn == Turn(bull[job])
              turn2 == Turn(bull'[job])
              granted == Granted(bull[job])
              granted2 == Granted(bull'[job])
              left == Cardinality(Pending(job))
              left2 == Cardinality(Pending(job)')
  <2>1. /\ turn \in {0, 1} /\ granted \in Nat /\ turn2 \in {0, 1} /\ granted2 \in Nat
        /\ left \in Nat /\ left2 \in Nat /\ left2 <= left /\ runs[job] \in Nat
        /\ turn2 - turn <= granted2 - granted /\ runs[job] + left + turn <= granted
    BY <1>1, <1>2, <1>3
  <2>. HIDE DEF turn, turn2, granted, granted2, left, left2
  <2>2. runs[job] + left2 + turn2 <= granted2
    BY <2>1
  <2>. QED
    BY <2>2 DEF turn2, granted2, left2
<1>. QED
  BY <1>4 DEF Within

(* A step that leaves the queue alone and starts no worker on a check. *)
LEMMA StaysThrifty ==
    ASSUME Thrifty, Typed', UNCHANGED <<bull, runs>>,
           \A w \in Workers :
              tasks'[w].pc \in Checking =>
                  tasks[w].pc \in Checking /\ tasks[w].job = tasks'[w].job
    PROVE  Thrifty'
<1>. SUFFICES ASSUME NEW job \in Job PROVE Within(job)'
  BY DEF Thrifty
<1>1. Pending(job)' \subseteq Pending(job)
  BY DEF Pending
<1>2. bull'[job].state = "absent" => Pending(job)' = {}
  BY <1>1 DEF Thrifty, Within
<1>3. Turn(bull[job]) \in {0, 1} /\ Granted(bull[job]) \in Nat
  BY EntryGranted, EntriesGranted DEF Thrifty
<1>4. Turn(bull'[job]) - Turn(bull[job]) <= Granted(bull'[job]) - Granted(bull[job])
  BY <1>3
<1>. QED
  BY <1>1, <1>2, <1>4, StaysWithin

(* An entry changes its state; nobody starts a check. *)
LEMMA EntryThrifty ==
    ASSUME Thrifty, Typed', NEW job \in Job, NEW entry, bull' = [bull EXCEPT ![job] = entry],
           UNCHANGED runs,
           Turn(entry) - Turn(bull[job]) <= Granted(entry) - Granted(bull[job]),
           entry.state = "absent" => Pending(job) = {},
           \A w \in Workers :
              tasks'[w].pc \in Checking =>
                  tasks[w].pc \in Checking /\ tasks[w].job = tasks'[w].job
    PROVE  Thrifty'
<1>. SUFFICES ASSUME NEW other \in Job PROVE Within(other)'
  BY DEF Thrifty
<1>1. Pending(other)' \subseteq Pending(other)
  BY DEF Pending
<1>2. bull \in [Job -> BullEntry]
  BY DEF Thrifty, Typed, BullTyped
<1>3. CASE other = job
  <2>1. bull'[other] = entry
    BY <1>2, <1>3
  <2>2. bull'[other].state = "absent" => Pending(other)' = {}
    BY <1>1, <1>3, <2>1
  <2>. QED
    BY <1>1, <1>3, <2>1, <2>2, StaysWithin
<1>4. CASE other # job
  <2>1. bull'[other] = bull[other]
    BY <1>2, <1>4
  <2>2. Turn(bull[other]) \in {0, 1} /\ Granted(bull[other]) \in Nat
    BY EntryGranted, EntriesGranted DEF Thrifty
  <2>3. bull'[other].state = "absent" => Pending(other)' = {}
    BY <1>1, <2>1 DEF Thrifty, Within
  <2>4. Turn(bull'[other]) - Turn(bull[other]) <= Granted(bull'[other]) - Granted(bull[other])
    BY <2>1, <2>2
  <2>. QED
    BY <1>1, <2>3, <2>4, StaysWithin
<1>. QED
  BY <1>3, <1>4

(* A worker records an outcome: one that was still to come has come. *)
LEMMA RecordedThrifty ==
    ASSUME Thrifty, Typed', NEW t \in Workers, tasks[t].pc \in Checking,
           tasks'[t].pc = "publishing", UNCHANGED bull, CountRun(t),
           \A u \in Tasks : u # t => tasks'[u] = tasks[u]
    PROVE  Thrifty'
<1>. DEFINE job == tasks[t].job
<1>1. Workers \subseteq Tasks
  BY DEF Tasks
<1>2. job \in Job /\ runs \in [Job -> Nat]
  BY <1>1, JobOfTask DEF Thrifty, Typed, CountsTyped, Checking
<1>3. runs' = [runs EXCEPT ![job] = runs[job] + 1]
  BY DEF CountRun
<1>. SUFFICES ASSUME NEW other \in Job PROVE Within(other)'
  BY DEF Thrifty
<1>4. Pending(other)' = Pending(other) \ {t}
  BY <1>1 DEF Pending, Checking
<1>5. bull'[other].state = "absent" => Pending(other)' = {}
  BY <1>4 DEF Thrifty, Within
<1>6. Turn(bull[other]) \in {0, 1} /\ Granted(bull[other]) \in Nat /\ runs[other] \in Nat
  BY EntryGranted, EntriesGranted DEF Thrifty
<1>7. CASE other # job
  <2>1. runs'[other] = runs[other] /\ Pending(other)' \subseteq Pending(other)
    BY <1>2, <1>3, <1>4, <1>7
  <2>2. Turn(bull'[other]) - Turn(bull[other]) <= Granted(bull'[other]) - Granted(bull[other])
    BY <1>6
  <2>. QED
    BY <1>5, <2>1, <2>2, StaysWithin
<1>8. CASE other = job
  <2>1. t \in Pending(other) /\ IsFiniteSet(Pending(other)) /\ Cardinality(Pending(other)) \in Nat
    BY <1>8, PendingFinite DEF Pending
  <2>2. Cardinality(Pending(other)') = Cardinality(Pending(other)) - 1
    BY <1>4, <2>1, FS_RemoveElement
  <2>3. runs'[other] = runs[other] + 1
    BY <1>2, <1>3, <1>8
  <2>4. runs[other] + Cardinality(Pending(other)) + Turn(bull[other]) <= Granted(bull[other])
    BY DEF Thrifty, Within
  <2>5. runs'[other] + Cardinality(Pending(other)') + Turn(bull'[other]) <= Granted(bull'[other])
    BY <1>6, <2>1, <2>2, <2>3, <2>4
  <2>. QED
    BY <1>5, <2>5 DEF Within
<1>. QED
  BY <1>7, <1>8

(* A job that is taken up: its turn becomes a check, or is given up. *)
LEMMA TakesThrifty ==
    ASSUME Thrifty, Typed', NEW w \in Workers, NEW job \in Job, WorkerTakes(w, job)
    PROVE  Thrifty'
<1>1. PICK task \in TakeUp(job) : tasks' = [tasks EXCEPT ![w] = task]
  BY DEF WorkerTakes
<1>2. /\ tasks[w].pc = "idle" /\ bull[job].state = "waiting" /\ UNCHANGED runs
      /\ bull' = [bull EXCEPT ![job].state = "active", ![job].by = w]
  BY DEF WorkerTakes, ghosts
<1>3. /\ bull \in [Job -> BullEntry] /\ bull[job] \in BullEntry
      /\ tasks \in [Tasks -> Task] /\ w \in Tasks /\ Workers \subseteq Tasks
  BY DEF Thrifty, Typed, BullTyped, TasksTyped, Tasks
<1>4. task.job = job
  BY TakenUp, StreakOfJob DEF Thrifty
<1>5. tasks'[w] = task /\ \A u \in Workers : u # w => tasks'[u] = tasks[u]
  BY <1>1, <1>3
<1>. SUFFICES ASSUME NEW other \in Job PROVE Within(other)'
  BY DEF Thrifty
<1>6. /\ Turn(bull[other]) \in {0, 1} /\ Granted(bull[other]) \in Nat /\ runs[other] \in Nat
  BY EntryGranted, EntriesGranted DEF Thrifty
<1>7. CASE other # job
  <2>1. bull'[other] = bull[other] /\ Pending(other)' = Pending(other)
    BY <1>2, <1>3, <1>4, <1>5, <1>7 DEF Pending, Checking
  <2>. QED
    BY <1>2, <2>1 DEF Thrifty, Within
<1>8. CASE other = job
  <2>. DEFINE entry == [bull[job] EXCEPT !.state = "active", !.by = w]
  <2>1. bull'[other] = entry
    BY <1>2, <1>3, <1>8
  <2>2. /\ entry.state = "active"
        /\ entry.attempts = bull[job].attempts /\ entry.stalls = bull[job].stalls
    BY <1>3 DEF BullEntry
  <2>3. Turn(bull'[other]) = 0 /\ Granted(bull'[other]) = Granted(bull[other])
        /\ Turn(bull[other]) = 1 /\ bull'[other].state # "absent"
    <3>. HIDE DEF entry
    <3>. QED
      BY <1>2, <1>8, <2>1, <2>2 DEF Turn, Granted
  <2>4. Pending(other)' \subseteq Pending(other) \cup {w}
    BY <1>5 DEF Pending
  <2>5. /\ IsFiniteSet(Pending(other)) /\ Cardinality(Pending(other)) \in Nat
        /\ w \notin Pending(other)
    BY <1>2, PendingFinite DEF Pending, Checking
  <2>6. /\ IsFiniteSet(Pending(other) \cup {w})
        /\ Cardinality(Pending(other) \cup {w}) = Cardinality(Pending(other)) + 1
    BY <2>5, FS_AddElement
  <2>7. /\ Cardinality(Pending(other)') \in Nat
        /\ Cardinality(Pending(other)') <= Cardinality(Pending(other)) + 1
    BY <2>4, <2>6, FS_Subset, FS_CardinalityType
  <2>8. runs[other] + Cardinality(Pending(other)) + Turn(bull[other]) <= Granted(bull[other])
    BY DEF Thrifty, Within
  <2>9. runs'[other] + Cardinality(Pending(other)') + Turn(bull'[other]) <= Granted(bull'[other])
    BY <1>2, <1>6, <2>3, <2>5, <2>7, <2>8
  <2>. QED
    BY <2>3, <2>9 DEF Within
<1>. QED
  BY <1>7, <1>8

(* What BullMQ itself does: a job is added, handed out again or forgotten. *)
LEMMA AddedThrifty ==
    ASSUME Thrifty, Typed', NEW h \in Handlers, AddSucceeds(h)
    PROVE  Thrifty'
<1>. DEFINE job == adding[h]
            entry == [state |-> "waiting", attempts |-> 0, stalls |-> 0, by |-> None]
<1>1. job \in Job
  BY DEF AddSucceeds, Thrifty, Typed, QueuesTyped
<1>2. UNCHANGED tasks
  BY DEF AddSucceeds
<1>3. CASE UNCHANGED <<bull, runs>>
  BY <1>2, <1>3, StaysThrifty
<1>4. CASE /\ bull[job].state = "absent"
           /\ bull' = [bull EXCEPT ![job] = entry] /\ runs' = [runs EXCEPT ![job] = 0]
  <2>. SUFFICES ASSUME NEW other \in Job PROVE Within(other)'
    BY DEF Thrifty
  <2>1. bull \in [Job -> BullEntry] /\ runs \in [Job -> Nat]
    BY DEF Thrifty, Typed, BullTyped, CountsTyped
  <2>2. Pending(other)' = Pending(other)
    BY <1>2 DEF Pending
  <2>3. CASE other # job
    <3>1. bull'[other] = bull[other] /\ runs'[other] = runs[other]
      BY <1>4, <2>1, <2>3
    <3>. QED
      BY <2>2, <3>1 DEF Thrifty, Within
  <2>4. CASE other = job
    <3>1. bull'[other] = entry /\ runs'[other] = 0
      BY <1>1, <1>4, <2>1, <2>4
    <3>2. Pending(other) = {}
      BY <1>4, <2>4 DEF Thrifty, Within
    <3>3. Turn(entry) = 1 /\ Granted(entry) = 1 /\ entry.state # "absent"
      BY DEF Turn, Granted, Upto, Attempts, MaxStalled
    <3>4. Cardinality(Pending(other)') = 0
      BY <2>2, <3>2, FS_EmptySet
    <3>. HIDE DEF entry
    <3>. QED
      BY <3>1, <3>3, <3>4 DEF Within
  <2>. QED
    BY <2>3, <2>4
<1>. QED
  BY <1>3, <1>4 DEF AddSucceeds

LEMMA RedisThrifty ==
    ASSUME Thrifty, Typed', NEW job \in Job, Stall(job) \/ Forget(job)
    PROVE  Thrifty'
<1>1. UNCHANGED <<tasks, runs>>
  BY DEF Stall, Forget, ghosts
<1>2. bull \in [Job -> BullEntry] /\ bull[job] \in BullEntry /\ TriesLeft(bull[job])
  BY DEF Thrifty, Typed, BullTyped
<1>3. CASE Stall(job)
  <2>. DEFINE next == bull[job].stalls + 1
              state == IF bull[job].stalls < MaxStalled THEN "waiting" ELSE "failed"
              entry == [bull[job] EXCEPT !.state = state, !.stalls = next]
  <2>1. bull[job].state = "active" /\ bull' = [bull EXCEPT ![job] = entry]
    BY <1>2, <1>3 DEF Stall
  <2>2. entry.state = state /\ entry.stalls = next /\ entry.attempts = bull[job].attempts
    <3>. HIDE DEF state, next
    <3>. QED
      BY <1>2 DEF BullEntry
  <2>3. Turn(bull[job]) = 0 /\ Turn(entry) = IF bull[job].stalls < MaxStalled THEN 1 ELSE 0
    BY <2>1, <2>2 DEF Turn
  <2>4. /\ bull[job].stalls \in 0..(MaxStalled + 1) /\ bull[job].attempts \in 0..Attempts
    BY <1>2 DEF BullEntry
  <2>5. Upto(entry.stalls, MaxStalled) - Upto(bull[job].stalls, MaxStalled)
            = IF bull[job].stalls < MaxStalled THEN 1 ELSE 0
    BY <2>2, <2>4 DEF Upto, MaxStalled
  <2>6. Upto(bull[job].attempts, Attempts - 1) \in Nat /\ Upto(entry.stalls, MaxStalled) \in Nat
        /\ Upto(bull[job].stalls, MaxStalled) \in Nat
    BY <2>2, <2>4 DEF Upto, Attempts, MaxStalled
  <2>7. Turn(entry) - Turn(bull[job]) <= Granted(entry) - Granted(bull[job])
    BY <2>2, <2>3, <2>5, <2>6 DEF Granted
  <2>8. entry.state # "absent"
    BY <2>2
  <2>. HIDE DEF entry
  <2>. QED
    BY <1>1, <2>1, <2>7, <2>8, EntryThrifty
<1>4. CASE Forget(job)
  <2>. DEFINE entry == [bull[job] EXCEPT !.state = "absent"]
  <2>1. /\ bull' = [bull EXCEPT ![job] = entry] /\ bull[job].state # "waiting"
        /\ \A w \in Workers : tasks[w].job # job
    BY <1>2, <1>4 DEF Forget
  <2>2. /\ entry.state = "absent" /\ entry.stalls = bull[job].stalls
        /\ entry.attempts = bull[job].attempts
    BY <1>2 DEF BullEntry
  <2>3. Turn(entry) = 0 /\ Turn(bull[job]) = 0 /\ Granted(entry) = Granted(bull[job])
    BY <2>1, <2>2 DEF Turn, Granted
  <2>4. Pending(job) = {}
    BY <2>1 DEF Pending
  <2>5. Granted(bull[job]) \in Nat
    BY <1>2, EntryGranted
  <2>6. Turn(entry) - Turn(bull[job]) <= Granted(entry) - Granted(bull[job])
    BY <2>3, <2>5
  <2>. HIDE DEF entry
  <2>. QED
    BY <1>1, <2>1, <2>4, <2>6, EntryThrifty
<1>. QED
  BY <1>3, <1>4

(* A worker is done with its job, or its attempt failed. *)
LEMMA LeavesThrifty ==
    ASSUME Thrifty, Typed', NEW w \in Workers, NEW job \in Job, UNCHANGED runs,
           bull' = Completed(w, job) \/ bull' = Retried(w, job),
           \A u \in Workers : tasks'[u] = tasks[u] \/ tasks'[u] = Idle
    PROVE  Thrifty'
<1>1. bull \in [Job -> BullEntry] /\ bull[job] \in BullEntry /\ TriesLeft(bull[job])
  BY DEF Thrifty, Typed, BullTyped
<1>2. \A u \in Workers :
         tasks'[u].pc \in Checking => tasks[u].pc \in Checking /\ tasks[u].job = tasks'[u].job
  BY DEF Idle, Checking
<1>3. CASE UNCHANGED bull
  BY <1>2, <1>3, StaysThrifty
<1>4. CASE bull[job].state = "active" /\ bull' = [bull EXCEPT ![job].state = "completed"]
  <2>. DEFINE entry == [bull[job] EXCEPT !.state = "completed"]
  <2>1. bull' = [bull EXCEPT ![job] = entry]
    BY <1>1, <1>4
  <2>2. /\ entry.state = "completed" /\ entry.stalls = bull[job].stalls
        /\ entry.attempts = bull[job].attempts
    BY <1>1 DEF BullEntry
  <2>3. Turn(entry) = 0 /\ Turn(bull[job]) = 0 /\ Granted(entry) = Granted(bull[job])
    BY <1>4, <2>2 DEF Turn, Granted
  <2>4. Granted(bull[job]) \in Nat
    BY <1>1, EntryGranted
  <2>5. Turn(entry) - Turn(bull[job]) <= Granted(entry) - Granted(bull[job])
    BY <2>3, <2>4
  <2>6. entry.state # "absent"
    BY <2>2
  <2>. HIDE DEF entry
  <2>. QED
    BY <1>2, <2>1, <2>5, <2>6, EntryThrifty
<1>5. CASE /\ bull[job].state = "active"
           /\ bull' = [bull EXCEPT ![job].attempts = @ + 1,
                                   ![job].state = IF bull[job].attempts + 1 < Attempts
                                                  THEN "waiting" ELSE "failed"]
  <2>. DEFINE next == bull[job].attempts + 1
              state == IF next < Attempts THEN "waiting" ELSE "failed"
              entry == [bull[job] EXCEPT !.attempts = next, !.state = state]
  <2>1. bull' = [bull EXCEPT ![job] = entry]
    BY <1>1, <1>5
  <2>2. entry.state = state /\ entry.attempts = next /\ entry.stalls = bull[job].stalls
    <3>. HIDE DEF state, next
    <3>. QED
      BY <1>1 DEF BullEntry
  <2>3. Turn(bull[job]) = 0 /\ Turn(entry) = IF next < Attempts THEN 1 ELSE 0
    BY <1>5, <2>2 DEF Turn
  <2>4. bull[job].stalls \in 0..(MaxStalled + 1) /\ bull[job].attempts \in 0..(Attempts - 1)
    BY <1>1, <1>5 DEF BullEntry, TriesLeft, Attempts
  <2>5. Upto(next, Attempts - 1) - Upto(bull[job].attempts, Attempts - 1)
            = IF next < Attempts THEN 1 ELSE 0
    BY <2>4 DEF Upto, Attempts
  <2>6. /\ Upto(bull[job].attempts, Attempts - 1) \in Nat /\ Upto(next, Attempts - 1) \in Nat
        /\ Upto(bull[job].stalls, MaxStalled) \in Nat
    BY <2>4 DEF Upto, Attempts, MaxStalled
  <2>7. Turn(entry) - Turn(bull[job]) <= Granted(entry) - Granted(bull[job])
    <3>. HIDE DEF next
    <3>. QED
      BY <2>2, <2>3, <2>5, <2>6 DEF Granted
  <2>8. entry.state # "absent"
    BY <2>2
  <2>. HIDE DEF entry
  <2>. QED
    BY <1>2, <2>1, <2>7, <2>8, EntryThrifty
<1>. QED
  BY <1>3, <1>4, <1>5 DEF Completed, Retried, Holds

LEMMA NextThrifty == Thrifty /\ [Next]_vars => Thrifty'
<1>. SUFFICES ASSUME Thrifty, [Next]_vars PROVE Thrifty'
  OBVIOUS
<1>1. /\ Typed /\ Typed' /\ tasks \in [Tasks -> Task] /\ Workers \subseteq Tasks
      /\ Pump \notin Workers /\ Handlers \cap Workers = {}
  BY NextTyped, PrValidationAssumption DEF Thrifty, Typed, TasksTyped, Tasks
<1>2. ASSUME UNCHANGED <<bull, runs>>,
             \A w \in Workers : tasks'[w] = tasks[w] \/ tasks'[w] = Idle
      PROVE  Thrifty'
  BY <1>1, <1>2, StaysThrifty DEF Idle, Checking
<1>3. ASSUME NEW t \in Tasks, Finalize(t)
      PROVE  Thrifty'
  <2>1. CASE NextAwait(t)
    <3>1. UNCHANGED <<bull, runs>>
      BY <2>1 DEF NextAwait, queues, ghosts
    <3>2. tasks'[t].pc = "publishing" /\ \A w \in Workers : w # t => tasks'[w] = tasks[w]
      BY <1>1, <2>1 DEF NextAwait, Task
    <3>. QED
      BY <1>1, <3>1, <3>2, StaysThrifty DEF Checking
  <2>2. CASE SaveResult(t) \/ ReadStreak(t)
    <3>1. UNCHANGED <<bull, runs>> /\ tasks[t].pc \in Checking /\ tasks'[t].job = tasks[t].job
          /\ \A u \in Tasks : u # t => tasks'[u] = tasks[u]
      BY <1>1, <2>2, SaveTyped, ReadTyped DEF Checking
    <3>. QED
      BY <1>1, <3>1, StaysThrifty
  <2>3. CASE RecordPassed(t) \/ WriteStreak(t)
    <3>1. /\ UNCHANGED bull /\ CountRun(t) /\ tasks[t].pc \in Checking
          /\ tasks'[t].pc = "publishing"
          /\ \A u \in Tasks : u # t => tasks'[u] = tasks[u]
      BY <1>1, <2>3, PassedTyped, WriteTyped DEF Checking
    <3>2. CASE t \in Workers
      BY <1>1, <3>1, <3>2, RecordedThrifty
    <3>3. CASE t \notin Workers
      <4>1. UNCHANGED runs
        BY <3>1, <3>3 DEF CountRun
      <4>. QED
        BY <1>1, <1>2, <3>1, <3>3, <4>1
    <3>. QED
      BY <3>2, <3>3
  <2>. QED
    BY <1>3, <2>1, <2>2, <2>3 DEF Finalize
<1>4. ASSUME NEW h \in Handlers, Deliver(h) \/ Handle(h) \/ Add(h)
      PROVE  Thrifty'
  <2>1. h \in Tasks /\ h \notin Workers
    BY <1>1 DEF Tasks
  <2>2. CASE AddSucceeds(h)
    BY <1>1, <2>2, AddedThrifty
  <2>3. CASE Deliver(h) \/ Schedule(h) \/ Answer(h) \/ HandlerDone(h) \/ AddFails(h)
    <3>1. UNCHANGED <<bull, runs>>
      BY <2>3 DEF Deliver, Opened, Synchronize, Merged, Schedule, Answer, HandlerDone,
                  AddFails, queues, ghosts
    <3>2. CASE Deliver(h) \/ Answer(h) \/ HandlerDone(h)
      <4>1. \A w \in Workers : tasks'[w] = tasks[w]
        BY <1>1, <2>1, <3>2 DEF Deliver, Opened, Synchronize, Merged, Answer, HandlerDone
      <4>. QED
        BY <1>2, <3>1, <4>1
    <3>3. CASE Schedule(h) \/ AddFails(h)
      <4>1. \A w \in Workers : tasks'[w] = tasks[w]
        BY <1>1, <2>1, <3>3 DEF Schedule, AddFails, EnqueueInMemory
      <4>. QED
        BY <1>2, <3>1, <4>1
    <3>. QED
      BY <2>3, <3>2, <3>3
  <2>. QED
    BY <1>3, <1>4, <2>1, <2>2, <2>3 DEF Handle, Add
<1>5. CASE PumpDone
  <2>1. UNCHANGED <<bull, runs>> /\ \A w \in Workers : tasks'[w] = tasks[w]
    BY <1>1, <1>5 DEF PumpDone, ghosts
  <2>. QED
    BY <1>2, <2>1
<1>6. ASSUME NEW w \in Workers, Work(w)
      PROVE  Thrifty'
  <2>1. CASE \E job \in Job : WorkerTakes(w, job)
    BY <1>1, <2>1, TakesThrifty
  <2>2. CASE WorkerDone(w)
    <3>1. /\ UNCHANGED runs /\ bull' = Completed(w, tasks[w].job) /\ tasks[w].pc = "publishing"
          /\ \A u \in Workers : tasks'[u] = tasks[u] \/ tasks'[u] = Idle
      BY <1>1, <2>2 DEF WorkerDone, LastAwait, ghosts
    <3>2. tasks[w].job \in Job
      BY <1>1, <3>1, JobOfTask
    <3>. QED
      BY <1>1, <3>1, <3>2, LeavesThrifty
  <2>. QED
    BY <1>1, <1>3, <1>6, <2>1, <2>2 DEF Work
<1>7. ASSUME NEW job \in Job, Stall(job) \/ Forget(job)
      PROVE  Thrifty'
  BY <1>1, <1>7, RedisThrifty
<1>8. ASSUME NEW t \in Tasks, Throw(t)
      PROVE  Thrifty'
  <2>1. /\ UNCHANGED runs /\ tasks[t].pc # "idle"
        /\ \A u \in Workers : tasks'[u] = tasks[u] \/ tasks'[u] = Idle
    BY <1>1, <1>8 DEF Throw
  <2>2. CASE t \in Workers
    <3>1. bull' = Retried(t, tasks[t].job) /\ tasks[t].job \in Job
      BY <1>1, <1>8, <2>1, <2>2, JobOfTask DEF Throw
    <3>. QED
      BY <1>1, <2>1, <2>2, <3>1, LeavesThrifty
  <2>3. CASE t \notin Workers
    BY <1>2, <1>8, <2>1, <2>3 DEF Throw
  <2>. QED
    BY <2>2, <2>3
<1>9. ASSUME NEW t \in Tasks, Crash(t)
      PROVE  Thrifty'
  <2>1. UNCHANGED <<bull, runs>>
    BY <1>9 DEF Crash
  <2>2. \A w \in Workers : tasks'[w] = tasks[w] \/ tasks'[w] = Idle
    BY <1>1, <1>9 DEF Crash
  <2>. QED
    BY <1>2, <2>1, <2>2
<1>10. CASE UNCHANGED vars
  BY <1>2, <1>10 DEF vars
<1>11. Pump \in Tasks
  BY DEF Tasks
<1>. QED
  BY <1>3, <1>4, <1>5, <1>6, <1>7, <1>8, <1>9, <1>10, <1>11 DEF Next, RunPump

LEMMA InitThrifty == Init => Thrifty
<1>. SUFFICES ASSUME Init PROVE Thrifty
  OBVIOUS
<1>. SUFFICES ASSUME NEW job \in Job PROVE Within(job)
  BY InitTyped DEF Thrifty
<1>1. Pending(job) = {}
  BY DEF Init, Idle, Pending, Checking, Tasks
<1>2. bull[job].state = "absent" /\ bull[job].attempts = 0 /\ bull[job].stalls = 0
      /\ runs[job] = 0
  BY DEF Init
<1>3. Turn(bull[job]) = 0 /\ Granted(bull[job]) = 1
  BY <1>2 DEF Turn, Granted, Upto, Attempts, MaxStalled
<1>4. Cardinality(Pending(job)) = 0
  BY <1>1, FS_EmptySet
<1>. QED
  BY <1>1, <1>2, <1>3, <1>4 DEF Within

RetriesBelowLimit == Attempts + MaxStalled < LoopLimit

LEMMA ThriftyBound ==
    ASSUME RetriesBelowLimit
    PROVE  Thrifty => OneCommitNeverLoops
<1>. SUFFICES ASSUME Thrifty, NEW job \in Job PROVE runs[job] < LoopLimit
  BY DEF OneCommitNeverLoops
<1>1. /\ Turn(bull[job]) \in {0, 1} /\ Granted(bull[job]) \in Nat /\ runs[job] \in Nat
      /\ Granted(bull[job]) <= Attempts + MaxStalled
  BY EntryGranted, EntriesGranted DEF Thrifty
<1>2. Cardinality(Pending(job)) \in Nat /\ LoopLimit \in Nat
  BY PendingFinite, PrValidationAssumption
<1>3. runs[job] + Cardinality(Pending(job)) + Turn(bull[job]) <= Granted(bull[job])
  BY DEF Thrifty, Within
<1>. QED
  BY <1>1, <1>2, <1>3 DEF RetriesBelowLimit, Attempts, MaxStalled

(* Retries and stalls of one BullMQ job, which record an outcome each,     *)
(* stay below the limit: one commit alone never stops the validation of    *)
(* its pull request, however many workers there are.                       *)
THEOREM CommitNeverLoops ==
    ASSUME RetriesBelowLimit
    PROVE  Spec => []OneCommitNeverLoops
<1>1. Thrifty => OneCommitNeverLoops
  BY ThriftyBound
<1>. QED
  BY <1>1, InitThrifty, NextThrifty, PTL DEF Spec

==============================================================================
