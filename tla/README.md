# A verification development for US Vibe

US Vibe teaches a backend developer to work in a team whose other members are
played by language models. The API (`apps/api`, NestJS) keeps the state, the web
client (`apps/web`, Next.js) shows it, `src/backend` holds the Postgres
entities. These modules model what the API decides and stores, check the models
with TLC, and prove some of their properties with TLAPS.

To check a run: `tlc -config SessionSerial.cfg MCSimulationSession`. To check
the proofs of a module: `tlapm SimulationSessionProofs.tla`. `PROJECT.json` lists
the runs, what each checks, and the source lines each definition stands for.

## The system

| Component | State it keeps | Operations | Hard because |
|---|---|---|---|
| Simulation session (`sessions-data.service.ts`, `sessions.service.ts`, `scenario-runner.service.ts`) | a row in Postgres: gate, history, acknowledgement, notes, retro summary | create, patch, implementation-ready, verify, run-scenario, finish | handlers await the database and the model between reading the row and saving their copy; a scenario can fail after any of its steps |
| Pull request validation (`webhook-pr-validation.service.ts`, `validation.service.ts`) | failure streak and cached outcome in SQLite, a queue in memory, a BullMQ queue in Redis | validate within the delivery, enqueue, pump, work | several tasks and two processes share the streak; retries, stalls, lost queues |
| GitHub webhook ingest (`webhook.controller.ts`, `integration-webhook-routes.controller.ts`) | routes of repositories to sessions, the audit table | pull request and push deliveries, route changes | GitHub sends again and in any order; no account behind a delivery |
| Workspace session row (`workspace-persistence.service.ts`, `session/*.controller.ts`) | one SQLite row: pull request, contract, retrospectives, profile, project state, owner | the endpoints of `session/` | one JSON column per part, each rewritten whole; clients act on old versions |
| Pull request review (`pr-review.controller.ts`) | the row's `pr_snapshot` | submit, patch comment, re-review, final-approve | optional version checks, events after the save |
| Integration events (`event-publisher.sqlite.ts`, `integration-*.ts`) | the SQLite log, its mirror in Postgres, Redis pub/sub, a replay queue, streams | append, mirror, publish, replay, fan out | each step can fail alone; replays repeat and reorder |
| Virtual file system (`vfs.service.ts`, `vfs.controller.ts`) | a file per snapshot and an index row | create, approve | file, event, index in three steps |
| Artifacts and evaluation (`session.controller.ts`) | artifact rows, evaluations, notifications | upload, evaluate, ping | an evaluation awaits a model for seconds |
| Orchestration (`orchestration-queue.service.ts`, `ai/orchestrator.service.ts`) | a BullMQ queue | enqueue a turn, run it | retries of turns that already spoke |
| Timeline and KPIs (`unified-timeline-merge.util.ts`, `retro-kpi.util.ts`, `retro.controller.ts`) | the list of reports | list, merge, score, generate | two databases read at two moments, ties, bounds |
| Accounts (`auth/`, `revoked-token.store.ts`) | users, issued and revoked tokens, the refresh cookie | sign in, refresh, sign out, use | rotation across awaits, several tabs, Redis away |
| Chat images (`chat-image-*.ts`) | files, rows, signed links | upload, view, fetch for a model | an upload cut off between file, row and answer |
| Web client (`apps/web`) | session storage, what the screen shows | the automatic run, reviews, gates, notices, questions, reports | local imitations of the API that meet the real state again; polls, answers and reloads that overtake each other |

The components interact by calls within the API process: controllers call the
persistence service synchronously (better-sqlite3) and await the event
publisher, which logs an event, mirrors it and publishes it. Deliveries of
GitHub reach the validation service, which publishes events in its turn. Across
processes there is SQLite (the API and a BullMQ worker open one file), Redis and
Postgres.

Two facts about the platform decide what interleaves with what. A Node.js process
runs one task until that task awaits, so everything between two awaits is one
step as far as the process's own tasks can tell. Postgres is always awaited, so a
read and a write of a session row are two steps; SQLite is never awaited, so a
request to the workspace row is one step.

## What makes each component correct

* Simulation session: no gate is passed without what it demands; the history
  explains the gate; the agents' log does not run ahead of the gates.
* Validation: a pull request is stopped after exactly five failures in a row of
  its own, what is shown hangs together, nothing that was queued is forgotten
  without a failure, jobs end.
* Review: versions name contents, every version is announced once, one user
  writes, rounds come in order and only after their comments were answered.
* Project state and pushes: a version names one content; a delta that was
  announced is there in the end.
* Contract gate: approval and the definition of done follow a passed validation
  of a session with an approved specification; each concern is raised once per
  cooldown.
* Events: what is logged is heard unless an outage lasted; the numbers the log
  gives increase; the timeline shows each event once, in order.
* Snapshots, artifacts, images: index and file agree, the stored feedback is the
  announced one, what a message refers to is stored.
* Orchestration: turns do not mix, jobs end with their closing event or a failure.
* Accounts: a spent token serves nobody, the cookie left behind can be refreshed.
* The browser: the screen opens only what the server granted, shows reviews and
  reports the server has, does not fall back, shows a notification once, and stops
  when it is told to.

`PROJECT.json` lists each hazard with its line and the properties that answer it.

## Modules

### Simulation session

`Gates` holds the gates, the table of manual moves and the entries of the
history. `GateLadder` is the abstract promise, one step per accepted request.
`SimulationSession` is the detailed model: `row` is the row in Postgres,
`requests` maps each handler in progress to the awaited calls it has still to
make and to its copy of the row, `events` is the set of event types in the
session's log, `passed` remembers which checks ever let a handler through.

An endpoint is a sequence of calls (`Flows`), because that is what its code is:
`run-scenario` with the wait skipped is the intro, a verification and the finish, one
after the other. A call that changes the row is three steps: it reads the row and makes
its checks (`TransitionGateReads` and so on), TypeORM's `save` reads the row a
second time and compares (`SaveCompares`), and updates the columns that differ
(`SaveUpdates`). `completeVerification` has one more await between its checks
and its change, the database ping (`VerificationPasses`). `Fail` is any
rejected await, and the death of the process: the rest of the handler is not
done, what it saved stays.

| Run | Bounds | Shows |
|---|---|---|
| `SessionSerial` | one handler, every endpoint, two instants, three to four gate moves | the row implements `GateLadder`, and its history leads from A to the gate |
| `SessionConcurrent` | two handlers, every endpoint but the demo's | stale copies never bring a row beyond B unchecked; the log follows the gates |
| `SessionVerifyRace` | two handlers, patch, ready and verify | **violation**: a verification takes effect on a row that has left B |

Four gate moves are the ladder's height, so every rung is taken; two handlers
are enough for a stale copy, which is what breaks histories when handlers
overlap. `HistoryLeadsToGate` and `ImplementsLadder` are claimed for one handler
at a time and are false for two; `SessionVerifyRace` shows the shortest reason.

### Pull request validation

`LoopGuard` is the promise behind `VALIDATION_LOOP_DETECTED`: failures are
counted one by one up to the limit and taken away all at once. `PrValidation`
models deliveries, the pump of the memory queue and BullMQ workers as `tasks`.
A task's `pc` says at which await, or between which SQL statements, it is.
`MayRun` is the platform: between two statements of a synchronous stretch no
other task of the same process moves, while a worker in its own process does.
The static checks block the process (`execSync`), so taking up a job, reading
the streak and running the checks is one step whose outcome is a choice
(`TakeUp`); storing the outcome, reading the streak and writing it back are
three (`SaveResult`, `ReadStreak`, `WriteStreak`), and each event or comment
after them is an await. `EnqueueInMemory` starts an idle pump inside the call,
as the code does, checks included.

BullMQ is external. It is modelled from how the service uses it: `add` ignores
a known job id, a worker takes one job at a time, a job that throws is tried
three times, a stalled job is handed out once more, finished jobs are forgotten
after a while. `add` may also fail, which sends the job to the memory queue
(`AddFails`); releases of BullMQ that refuse custom ids with colons other than
in three parts always fail here, and the model has those behaviours too.

The branch for `WEBHOOK_VALIDATION_TIMEOUT` is not modelled: the timer is armed
after `runAll` has returned, `runAll` blocks until its outcome is known, so the
race is decided before the timer can fire.

| Run | Configuration | Shows |
|---|---|---|
| `PrModes`, mode "inline" | the default; two deliveries, two commits | the streak overshoots by less than the deliveries under way; streak and outcome agree; the loop event is earned |
| `PrModes`, mode "memory" | async, no Redis; three deliveries queued, failures and restarts | one validator keeps `LoopGuard`; jobs are stranded only by a failure; nothing is counted that is not stored; the loop event is earned |
| `PrModes`, mode "worker" | BullMQ in its own process; statements, events and additions fail, processes die | one commit alone never reaches the limit; nothing is counted that is not stored |
| `PrProgress`, Redis "up" | fair specification, BullMQ in its own process, one commit; the worker throws and dies, additions fail | deliveries are answered, BullMQ jobs end |
| `PrProgress`, Redis "down" | fair specification, two commits delivered again and again, every addition fails | deliveries are answered, a job that waits in memory behind others has its turn |
| `PrTwoRepositories` | two sessions | **violation**: a streak mixes two repositories |

`MCPrModes` is the three ways of starting the API in one state graph: three
instances of `PrValidation` over the same variables, and a `mode` that never
changes. What a mode is not claimed to do is left out of its property there. Its
sets and limits are CONSTANTS, which `PrModes.cfg` gives values and the proofs do
not; the run has 1.4 million states.

With a worker in its own process `recordValidationOutcome`, which reads the streak and
writes it back plus one, may lose an increment of the other process or undo its reset.
Nothing in the code prevents it. The model has these steps (the worker mode of
`PrModes` takes them), so `LoopIsEarned` and `LoopGuard` are not claimed there, only
what survives such a loss; where one process counts both hold. Likewise a failure
between the stored outcome and the streak leaves the two apart until the next
validation: `StatusIsCoherent` is claimed where nothing throws, `CountedIsStored`
everywhere.

Two sentences of the documents disagree with the code in ways the runs bound
rather than exhibit. `d-integration-pipeline.md:244` stops a pull request at the
fifth failure: deliveries that overlap count a sixth (`BoundedOvershoot` is the
exact bound). `:247` answers at once and validates later: the pump of an idle
memory queue runs the first job's checks inside the call, before the answer
(`EnqueueInMemory`), so the answer comes, but not at once (`EveryDeliveryAnswered`).

`LoopLimit` is the code's 5 except in `PrProgress`, where 1 keeps the liveness graph
small: a failure, the limit and the reset are all reached. `MaxLoad` bounds the
deliveries not yet dealt with: two or three are enough for an overlap and a queue behind
it, and the one of the worker mode and of `PrProgress` with Redis for a job that waits
behind the pump's. Without Redis the queue of `PrProgress` holds three jobs of two
commits, and each job that leaves makes room for a delivery, so that newer jobs could
overtake an older one for ever: `WaitingJobsRun` says that they do not, and a pump that
takes the newest job first breaks it. The property is asked of the commit that only the
memory queue has; the commits are interchangeable. `MCPrProgress` holds the two state
graphs side by side, as `MCPrModes` does, under one fairness. `MaxStreak` is out of
reach inline and in memory; in the worker mode, where an increment can be lost and the
two processes overtake each other, it stops the streak at the limit of 5, which is all
the properties of that mode look at.

Fairness: `SF` on a handler's and the pump's steps, because the event loop serves
callbacks in the order they become ready, so that a task that is ready again and again
is served; the same for a worker and each waiting job, which BullMQ hands out first in,
first out; `WF` on `add` and on the stalled-job check, which come back. Nothing is
assumed of arrivals, failures or crashes. In `PrProgress` the API process lives on and
the pump's own statements do not fail: when they do, the jobs behind the failed one wait
for the next delivery, as `StrandedOnlyByFailure` says, which is the safety half of
`WaitingJobsRun`. `MayThrow` and `MayCrash` name the tasks that may fail, run by run.
BullMQ within the API process (`Bull` is "inprocess") is modelled and has no run of its
own: the worker mode allows more.

### Pull request review

`ReviewRounds` is the promise: submitted, reviewed, reviewed again, approved,
no round before the comments of the one before were answered. `PrReview` has
the row's snapshot and owner, the snapshot each client shows, and what the
session's log says. A request is one step. It carries the version its client
shows or none, so clients of any age are `seen`, which only changes when a
request succeeds. `SaveAndPublish` saves and then logs; the second may fail,
which leaves `unlogged` versions. The other endpoints that write the row or log
at its version are `SaveElsewhere` and `VfsEvent`; `WebhookEvent` logs GitHub's events,
those of pull requests included, with version 0, which the log turns into its maximum
plus one.

| Run | Bounds | Shows |
|---|---|---|
| `PrReview` | two users, eight versions, GitHub's events up to version 2 of the log | the four invariants and `ReviewRounds` |

Approval takes version 8, and a comment is set back to pending on the ways that stop
short of it. A delivery of GitHub logs `PR_OPENED`, `PR_UPDATED` or `PR_MERGED` in the same
session's log, at the log's maximum plus one, which is not the snapshot's version
`docs/collaboration-interface.md:38` speaks of: two events of one type and one version
do occur, and with version 2 of the log they do in the run. So `EveryVersionAnnounced`
tells the review's own events from GitHub's by who triggered them, as a reader of the log
must, and claims one event per version of each.

### The workspace row and its neighbours

`ProjectState` has the row's project state, the screens that show it, and the
pushes of GitHub that log a delta, await the event and then patch the row. A push
that fails, finds no row, or is overtaken is `disturbed`; for all others the row
shows the last delta once nothing is under way (`SettledStateShowsLastDelta`).

`ContractGate` has the approvals and validations of one session, the
definition-of-done check, which awaits a script between what it read and its
answer, and the pings with the age of each kind's last notification. A failing
validation after the approval leaves the approval, so the property speaks of one
moment at which everything was in order, not of the present (`everReady`).

`VfsSnapshots` keeps file, index and events of a snapshot apart, written in steps
by handlers that may overlap, fail or die; `ArtifactReview` the row of an artifact,
its file and its notification, with evaluations that end in any order. Feedback and
notification are two statements (`EvaluationStored`, `NoticeAppended`): no other request
comes between them, since neither is awaited, but the second may fail, the failure may
not be storable either, and the process may die. The feedback of a request that got no
further is `untold`; all other feedback is the one its owner was told of last
(`FeedbackIsTheOneAnnounced`), and the mutant that awaits the two statements breaks it.
`ChatImages` is the same question for images in the chat: file, row, answer, and
the message that refers to them, or keeps a copy of its own.

`WebhookIngest` has routes and owners that change while deliveries are handled, and
GitHub's repetition of a delivery. The route is resolved once, before the awaits;
audit rows can be lost, which the property allows and nothing else.

`RetroKpis` is the four scores as operators over any list of events of up to five,
its run is every such list; `RetroReports` the list of reports in the row and in the
tabs. A report answered after an overlapping fetch is shown twice, or is gone until
the page is loaded again; the model has both, and no document promises otherwise.

### Events

`EventPipeline` follows an event through the log, the publisher with its tries,
the replay queue with its tries and attempts, and a subscriber that connects late,
loses its connection or never had one. The tries are two where the code has more, so
that exhausting them is reached. `LostOnlyAfterOutage` counts them: an event the
subscriber neither heard nor was away for was tried as often as the code promises.
`UnifiedTimeline` is one request for the merged timeline while events are appended
and mirrored; time stands still or moves, so that equal times occur. The rows of
Postgres come from a service of the same process, whose `createdAt` is a `Date`
(`collaboration-event.entity.ts:23`); `coercePostgresTimelineRows`
(`integration-events.controller.ts:29`) keeps rows whose `createdAt` is a string, so the
merged array has none of them although `docs/agents/external-orchestrator-and-ssot.md:20`
promises both sources. `TimelineTellsTheStory` states what the code does show: the
merged array is the events that were asked for, each once and in order, and each row of
the separate Postgres array mirrors an event of the answer, one beyond its limit, or
one logged since. Its filter and
its stable sort are those of `Arrangements`, which `ChatQuestions` uses, too.

### Orchestration

`Orchestration` has jobs of two kinds, a worker that takes one at a time
(`concurrency: 1`), attempts that throw at any await, stall with the process, and a
model that is overloaded and has, or has not, a fallback. `TurnsDoNotMix` holds
because one job is active at a time; several worker processes would break it and are
not modelled, because the API, or the one worker that `start:bullmq-worker` starts in
its place, is the queue's only consumer. Without BullMQ a job is promised
and dropped (`Enqueue` with no queue), as the code does.

Fairness: a free worker takes some waiting job (`TakesSome`), Redis hands out delayed
jobs again, and what an attempt awaits ends, in an answer or an error. Every try of
a model is bounded, so a job that is always refused fails after its attempts. Nothing
is assumed of which: `Throws` and `Overloaded` may always be what happens.

### Accounts and the browser

`Accounts` is the life of one learner's tokens: requests, rotations and logouts that
check, issue and revoke in separate steps, a cookie two tabs share, a Redis that is
silent for a time. `BrowserAuth` is the page: the stored access token, calls that
are renewed and sent again, the check at load. `AutoRun` is the loop that takes a
session from A to DONE and the learner who stops and starts it.

`PrScreen`, `LearnerGates`, `ChatNotices`, `ChatQuestions` and `RetroReports` are what
the workspace page shows: requests that are served, refused, lost or made up by the
page itself, fetches that arrive late, reloads from session storage. Four versions do
not reach final approval in `PrScreen`; `PrReview` checks that rule. One text
attachment that is too long makes the chat's route refuse the questions after it, too,
while it is among the last messages (`Invalid` in `ChatQuestions`).

| Run | Bounds | Shows |
|---|---|---|
| `Workspace` | two of each thing that overlaps; `Workspace.cfg` lists the values; 1.6 million states | the properties of seventeen components, one after the other |
| `Orchestration` | two jobs, two attempts, two tries | `TurnsDoNotMix`, `JobsEndOpenly` |
| `TokenRenewal` | two calls, three tokens | **violation**: the retry carries the old token |
| `AutoRunTwice` | two loops | **violation**: a stopped loop's call and a new one hit a session at once |
| `PrConflict` | two tabs | **violation**: a refusal is shown and stored as a pull request |

`MCWorkspace` is one TLC run over components that share no step: a behaviour belongs
to one `part` and its state is kept in `v1` to `v9` in the order of the module's
variables. It checks what as many separate runs would, no composition; the
components meet in the modules' own environment actions (`SaveElsewhere`,
`ChangesElsewhere`, `ValidatedElsewhere`), which stand for the other writers of a
row. A property of `MCWorkspace` that names two parts asks the same question of
both: does what points to a thing agree with the thing.

Two requests, tabs, loops or polls are enough for one to overtake the other and for a
third party's step to fall between; the versions, tokens and reports are bounded
just above the number that one overtaking needs.

## Proofs

Each proof holds for every value of the constants that the module's assumption
allows, and was attempted only after TLC had found no error in the formula or in the
inductive invariant. Every safety invariant and every action property of a passing
run is a theorem, and so are the three refinements; `PROJECT.json` lists them. The
assumptions on the constants say what the code does (a limit is a natural number,
`LoopLimit` is above 4, a name for "nothing" is none of the things named) and are
evaluated by TLC in each run. The types of the bounds are all that is assumed of them,
so the theorems do not depend on where the runs cut.

### Simulation session

`SimulationSessionProofs`, for any set of handlers, instants, notes and summaries:

* `TypeCorrect`, `GatesAreChecked`: `Spec => []TypeOK`, `Spec => []NoUncheckedGate`.
  The second needs `IInv`: a handler may write its copy back at any time, so every
  copy must be as innocent as the row; and a handler that waits for the ping must hold
  a copy at gate B that is acknowledged or allowed to skip. `Overlay` then takes each
  column from one of two checked rows.
* `LogFollowsGates`: `Spec => []TimelineFollowsGates`. The events a handler logs depend
  on calls it has yet to make, so `LogInv` speaks of those: among the calls left, each
  that appends `review_passed` comes after one that requires gate C, each that appends
  `retro_complete` after a review, each acknowledgement in the log after one of the
  row (`Follows`), unless the first of each pair is done already (`Backed`). A call
  is taken from the front, which keeps this; and gate C was reached by a verification,
  which is `IInv`.
* `HistoryLeads` and `SerialSessionImplementsLadder`: `HistoryLeadsToGate` and the
  refinement of `GateLadder`, under `OneHandler`, that no two handlers exist. Both are
  false without it (`SessionVerifyRace`), and the run that checks them has one handler.
  `SerialInv` says that a copy being saved is one rung, or none, from the row
  (`OneRung`), and that the columns about to be written are all that differ, so
  the update makes the row the copy.

### Pull request validation

`PrValidationProofs`, about `PrValidation` with any finite sets of deliveries and
workers, any sessions, pull requests and commits, and however the API is started.
`StepKinds` sorts every action into three: it records part of an outcome, some task
throws or dies, or all tasks go on and nothing stored changes. Each invariant is
then shown for these kinds.

* `ValidationTyped`, by `Typed`: a task stands at a step with what the step needs.
* `CountedAreStored`, by `Stored`: a task between its SQL statements has an outcome in
  the cache of its pull request, and nothing takes one away.
* `OnlyFailureStrands` is inductive with the types.
* `StatusCoherent`, `LoopEarned`, `OvershootBounded`, `QueueKeepsGuard` rest on `Alone`:
  where one process validates, at most one task is between its statements
  (`Exclusive`), and what it has read of the streak is still so (`Fresh`). The first
  two assume that (`Shared`), the first also that nothing throws or dies (`Reliable`),
  the second that there is one session (`OneSession`); `PrTwoRepositories`
  shows why. `Contained` counts the tasks that may still add a failure once the limit is
  reached. `Guarded` says that the pump alone validates and took its job up below the
  limit; it holds with the memory queue (`InMemory`), and `LoopGuard` is refuted
  elsewhere by the overshoot.
* `CommitNeverLoops`, by `Within`: the runs of a job, those under way, and the one
  it waits for are within the attempts and stalls BullMQ has granted it
  (`RetriesBelowLimit`).

`PrModesProofs` carries these over to the modes of `MCPrModes`, the module that
`PrModes` runs: each mode satisfies the assumption of its instance, a step of the
composition is a step of the instance of the mode, which never changes. The instances
are of `PrValidationProofs`, which adds only lemmas to `PrValidation`, so that they can
be cited.

### Pull request review

`PrReviewProofs`, for any users and bounds:

* `ReviewTyped`: the four requests that write go through one lemma about `Advanced`,
  the snapshot each of them stores.
* `VersionsNameContents`, inductive together with: no client shows a version beyond the
  row's. Every writing request stores the next version and at most the client that
  asked shows it, so no two contents share a version.
* `OneWriter`, inductive together with: nobody has written a row without an owner.
* `VersionsAnnounced`, by `Announced`: no event of a user and no failure of one is of a
  version beyond the row's, so the event a request logs is the only one; and no event
  of GitHub is of a version beyond the log's.
* `RoundsImplemented`, the refinement of `ReviewRounds`. `Reviewed` ties the levels: the
  comments of the row are those of its round, and a comment that is not pending has been
  answered, so that `AllResolved`, which the code asks of the row, gives the answers
  the abstract round asks of history.

### Orchestration

`OrchestrationProofs` proves `Spec => []TurnsDoNotMix` for any finite set of jobs and
any limits. It is inductive because of `Alone`: at most one job is active, and of a job
that is not active no work is kept. `FreeWorker` derives the first from the
cardinality the worker compares with its concurrency; the rest follows from three
shapes of step, a job changes its state in the queue, an attempt ends, an attempt
goes on.

### Workspace, events, accounts, browser

Three modules prove what `Workspace` checks, for any users, files, requests, tokens,
tabs, questions, limits and bounds. A behaviour is of one part and stays there
(`PartInit`, `PartNext`); each part has an inductive invariant, which its own module
states beside the property, and one lemma per action.

| Theorem | Proves | What makes it inductive |
|---|---|---|
| `VersionsName`, `DeltaSettles` | `VersionNamesContent`, `SettledStateShowsLastDelta` | undisturbed, the delta announced last is in the row or its push is under way (`LastDeltaIsComing`) |
| `GatesAreEarned`, `ConcernsAreHeard` | `GateWasEarned`, `ConcernsAreRaised` | what a check has read in order was in order when it read (`Earned`) |
| `FeedbackIsAnnounced` | `FeedbackIsTheOneAnnounced` | what is about to be announced is what is stored, and one request at most is that far (`OneAnnounces`) |
| `SpentTokensAreDead`, `CookiesRefresh` | `SpentTokensServeNobody`, `CookieCanBeRefreshed` | a token once spent stays so, one not issued is nowhere, and of undisturbed requests one at most rotates (`SpentStaySpent`, `TokensAreIssued`, `OneRotates`) |
| `LossesAreOutages`, `VersionsIncrease` | `LostOnlyAfterOutage`, `NumberedVersionsIncrease` | the failures seen make up the tries spent, in both loops (`TriesAreCounted`, `ReplaysAreCounted`); a number that was read is still the next of its process (`NumberIsNext`) |
| `AuditTellsTheLog` | `AuditMatchesLog` | rows and requests under way together account for the events logged (`RowsWillMatch`, `AnswersAreCounted`) |
| `TimelineTells` | `TimelineTellsTheStory` | the log is numbered in time, a mirror is no earlier than what it mirrors, and a request has read the last events of the log without a gap, and rows of the mirror (`LogIsNumbered`, `MirrorFollowsLog`, `RequestReadsBoth`) |
| `IndexAndImages` | `IndexFollowsFile` | an approval that wrote the file has the index still to write (`IndexWillFollow`); rows come before references (`RowsComeFirst`) |
| `StopsAreHeeded` | `StopIsHeeded` | the types: what a loop may still do is a function of its step |
| `ScreensFollowServer` | `ScreenOpensWithServer` | an answer that says "approved" comes from a server that has approved (`RequestIsCoherent`); a report under way is stored (`AnswersAreStored`) |
| `NotesOnce` | `NotesAreShownOnce` | what a pull brings was sent, and nothing is shown before the first pull |
| `ScreensMoveOn` | `ScreenNeverFallsBack`, an action property | no tab, fetch or answer of an undisturbed tab is ahead of the server (`ServerIsAhead`) |
| `TypesHold` | `TypeOK` of all seventeen parts | with the invariants above; the scores, the browser's calls and the chat on their own |

`ApiPartsProofs` holds the parts of the API, `BrowserPartsProofs` those of the
browser, `WorkspaceProofs` the timeline, the types, and the rest. The one with most to
it is the timeline. `Arrangements` defines filter and stable sort without recursion:
the element at a place is the one that so many others come before. `Places` shows, for
any strict total order of a finite set, that each place from 1 to the number of
elements is taken once; so `Kept` and `StableSort` return what they are given, each
element once (`KeptLists`, `SortIs`), in order, and rows that tie keep the order in
which they were pushed. The log is pushed newest first, so of two events of one time the
younger comes first in either order (`StoryIs`); that no row of Postgres is among them
is `NoneIsCoerced`. That each row of Postgres is accounted for (`MirrorIsAccountedFor`)
rests on the window's having no gap: a mirrored event is in it, or before all of it, or
after. `NotesOnce` uses
the library's theorems on bijections for the order `SetToSeq` happens to choose.

### Model-checked only

The liveness properties: `EveryDeliveryAnswered`, `WaitingJobsRun` and `JobsSettle` of
`PrProgress`, `JobsEndOpenly` of `Orchestration`. They need fairness and `ENABLED`,
which the prover does not reason about. The violations are counterexamples, for which
TLC is the tool.

## What is not modelled

* The panels for integration tools and events, the onboarding form, markdown and
  prompt text of the chat: a form that sends one request and prints its answer, or
  a pure conversion. The requests they send are the actions of other modules.
* Scenario packs, start-up checks, migrations, deployment: static content and
  scripts, without state whose evolution could go wrong.
* Wording: the text of reports, scores, notices and comments. Where a step depends
  on it (a notice that is recognised, an answer that cannot be parsed) the model
  chooses.
* Signatures of GitHub and of tokens, address lists, roles: one outcome, accepted or
  refused. Lint, type check and contract files: one outcome, pass or fail.
* Several API processes on one SQLite file, and several orchestration workers: the
  repository starts one of each. The API with a separate worker process is modelled
  where both write (`PrValidation`, `EventPipeline`).
* Clocks are small counters that never go back.

## Plan

Done: the modules above, in the order session, validation, review, the workspace row
and its neighbours, events, orchestration, accounts, browser; and theorems for all
their safety and action properties and refinements.

Left, in order:

1. `PrScreen` composed with `PrReview`, and `ContractGate` with `PrValidation`, in the
   place of the actions that stand for the other side today; their invariants carry over
   with the same inductive parts.
2. What of the serial theorems survives when handlers overlap: a weaker promise than
   `GateLadder` that two handlers keep, stated and proved.
3. A second consumer of the orchestration queue, should the deployment start one.
