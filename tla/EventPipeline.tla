----------------------------- MODULE EventPipeline -----------------------------
(***************************************************************************)
(* What becomes of an integration event (event-publisher.sqlite.ts): it is *)
(* logged in SQLite, mirrored to Postgres                                  *)
(* (integration-timeline-bridge.service.ts) and published to a channel of  *)
(* Redis (integration-redis-pubsub.service.ts), again and again if need    *)
(* be, at last by a queue of its own                                       *)
(* (integration-redis-replay-queue.service.ts).  The API process listens   *)
(* to the channel (integration-event-fanout.service.ts) and streams what   *)
(* belongs to a session to its clients (integration-stream.controller.ts). *)
(*                                                                         *)
(* The API and a worker process publish into one database.  Each is        *)
(* synchronous between two awaits; the other one is not bound by that.     *)
(***************************************************************************)
EXTENDS Naturals, Sequences, FiniteSets, FiniteSetsExt

CONSTANTS
    Events,         \* the events published
    Given,          \* the versions some of them come with; 0: to be numbered by the log
    PublishTries,   \* INTEGRATION_REDIS_PUBLISH_MAX_ATTEMPTS, 3 by default
    ReplayTries,    \* how often a replay tries, and
    ReplayAttempts, \* how often BullMQ hands out a replay: 5 and 5 in the code; the runs
                    \* have fewer (model bounds)
    MaxDeaths       \* bound on the processes that die (model bound)

VARIABLES
    settings,   \* which features are on
    event,      \* what its publisher is doing with each event
    log,        \* integration_events, in the order of insertion
    replay,     \* the job that replays each event
    listening,  \* the API's subscription
    heard,      \* history variable: the events the API was sent
    missed,     \* history variable: events published when nobody listened, or whose
                \* publisher or replay was cut off
    deaths

vars == <<settings, event, log, replay, listening, heard, missed, deaths>>

Processes == {"api", "worker"}

NoJob == [state |-> "none", tries |-> 0, attempts |-> 0, stalled |-> FALSE]

Init ==
    /\ settings \in [publisher: BOOLEAN, replay: BOOLEAN]
    /\ event = [e \in Events |-> [pc |-> "new", by |-> "api", given |-> 0, version |-> 0, tries |-> 0]]
    /\ log = <<>>
    /\ replay = [e \in Events |-> NoJob]
    /\ listening = "starting"
    /\ heard = {}
    /\ missed = {}
    /\ deaths = 0

----------------------------------------------------------------------------
(* The log *)

At(e, pc) == event[e].pc = pc

Versions == {log[i].version : i \in DOMAIN log}

(* Mutant: the number of rows instead of the greatest version. *)
NextVersionByCount == Len(log) + 1

NextVersion == Max(Versions \cup {0}) + 1

(* appendIntegrationEvent: MAX is read in one statement... *)
AppendReads(e, p, given) ==
    /\ At(e, "new")
    /\ \A f \in Events : ~(At(f, "numbered") /\ event[f].by = p)
    /\ event' = [event EXCEPT ![e] =
          [pc |-> "numbered", by |-> p, given |-> given,
           version |-> IF given > 0 THEN given ELSE NextVersion, tries |-> 0]]
    /\ UNCHANGED <<settings, log, replay, listening, heard, missed, deaths>>

(* ... and the row inserted in another. *)
AppendInserts(e) ==
    /\ At(e, "numbered")
    /\ log' = Append(log, [version |-> event[e].version, by |-> event[e].by,
                           numbered |-> event[e].given = 0])
    /\ event' = [event EXCEPT ![e].pc = "logged"]
    /\ UNCHANGED <<settings, replay, listening, heard, missed, deaths>>

(* mirrorIfApplicable is awaited; what becomes of it makes no difference. *)
MirrorReturns(e) ==
    /\ At(e, "logged")
    /\ event' = [event EXCEPT ![e].pc = IF settings.publisher THEN "publishing" ELSE "done"]
    /\ UNCHANGED <<settings, log, replay, listening, heard, missed, deaths>>

----------------------------------------------------------------------------
(* The channel *)

(* Whoever has subscribed is sent the event; nobody gets it later.  The    *)
(* API hands it to the streams that are open for its session. *)
Sent(e) ==
    /\ heard' = IF listening = "on" THEN heard \cup {e} ELSE heard
    /\ missed' = IF listening = "on" THEN missed ELSE missed \cup {e}

Published(e) ==
    /\ At(e, "publishing")
    /\ Sent(e)
    /\ event' = [event EXCEPT ![e].pc = "done"]
    /\ UNCHANGED <<settings, log, replay, listening, deaths>>

(* Redis may have sent it and only the answer be lost. *)
Unconfirmed(e) == Sent(e) \/ UNCHANGED <<heard, missed>>

(* Mutant: the first failure counts as the last. *)
AfterPublishOnce(e) == [event[e] EXCEPT !.tries = @ + 1, !.pc = "done"]

(* publishResolved gives up after so many tries, and publish asks for a    *)
(* replay if that is enabled. *)
AfterPublish(e) ==
    [event[e] EXCEPT !.tries = @ + 1,
        !.pc = IF event[e].tries + 1 < PublishTries THEN "publishing"
               ELSE IF settings.replay THEN "replaying" ELSE "done"]

PublishFails(e) ==
    /\ At(e, "publishing")
    /\ Unconfirmed(e)
    /\ event' = [event EXCEPT ![e] = AfterPublish(e)]
    /\ UNCHANGED <<settings, log, replay, listening, deaths>>

----------------------------------------------------------------------------
(* The replay queue *)

(* A process whose role is worker has no queue: the event is dropped. *)
EnqueueReplay(e) ==
    /\ At(e, "replaying")
    /\ event' = [event EXCEPT ![e].pc = "done"]
    /\ replay' = IF event[e].by = "api" THEN [replay EXCEPT ![e].state = "waiting"] ELSE replay
    /\ UNCHANGED <<settings, log, listening, heard, missed, deaths>>

EnqueueReplayFails(e) ==
    /\ At(e, "replaying") /\ event[e].by = "api"
    /\ event' = [event EXCEPT ![e].pc = "done"]
    /\ missed' = missed \cup {e}
    /\ UNCHANGED <<settings, log, replay, listening, heard, deaths>>

ReplayStarts(e) ==
    /\ replay[e].state = "waiting"
    /\ replay' = [replay EXCEPT ![e].state = "active", ![e].tries = 0]
    /\ UNCHANGED <<settings, event, log, listening, heard, missed, deaths>>

ReplayPublishes(e) ==
    /\ replay[e].state = "active"
    /\ Sent(e)
    /\ replay' = [replay EXCEPT ![e].state = "completed"]
    /\ UNCHANGED <<settings, event, log, listening, deaths>>

(* The processor tries again, throws, and BullMQ hands the job out again. *)
ReplayFails(e) ==
    /\ replay[e].state = "active"
    /\ Unconfirmed(e)
    /\ LET j == replay[e]
       IN  replay' = [replay EXCEPT ![e] =
              IF j.tries + 1 < ReplayTries THEN [j EXCEPT !.tries = @ + 1]
              ELSE [j EXCEPT !.tries = 0, !.attempts = @ + 1,
                    !.state = IF j.attempts + 1 < ReplayAttempts THEN "waiting" ELSE "failed"]]
    /\ UNCHANGED <<settings, event, log, listening, deaths>>

----------------------------------------------------------------------------
(* The API's subscription *)

(* onModuleInit: subscribe is called only when the first connection comes about. *)
FirstConnection(ok) ==
    /\ listening = "starting"
    /\ listening' = IF ok THEN "on" ELSE "never"
    /\ UNCHANGED <<settings, event, log, replay, heard, missed, deaths>>

(* A connection that was there is taken up again, subscription included. *)
ConnectionLost ==
    /\ listening = "on"
    /\ listening' = "off"
    /\ UNCHANGED <<settings, event, log, replay, heard, missed, deaths>>

Reconnected ==
    /\ listening = "off"
    /\ listening' = "on"
    /\ UNCHANGED <<settings, event, log, replay, heard, missed, deaths>>

----------------------------------------------------------------------------
(* Processes die *)

InProgress(e) == event[e].pc \notin {"new", "done", "lost"}

(* A replay that was at work is handed out once more. *)
Stalled(j) ==
    IF j.stalled THEN [j EXCEPT !.state = "failed"]
    ELSE [j EXCEPT !.state = "waiting", !.stalled = TRUE]

(* Either process may be at work on any replay. *)
Dies(p, halted) ==
    LET cut == {e \in Events : InProgress(e) /\ event[e].by = p}
    IN  /\ deaths < MaxDeaths
        /\ deaths' = deaths + 1
        /\ event' = [e \in Events |->
              IF e \in cut THEN [event[e] EXCEPT !.pc = "lost"] ELSE event[e]]
        /\ replay' = [e \in Events |-> IF e \in halted THEN Stalled(replay[e]) ELSE replay[e]]
        /\ missed' = missed \cup cut \cup {e \in halted : replay[e].stalled}
        /\ listening' = IF p = "api" THEN "starting" ELSE listening
        /\ UNCHANGED <<settings, log, heard>>

Next ==
    \/ \E e \in Events :
          \/ \E p \in Processes, g \in Given : AppendReads(e, p, g)
          \/ AppendInserts(e) \/ MirrorReturns(e)
          \/ Published(e) \/ PublishFails(e)
          \/ EnqueueReplay(e) \/ EnqueueReplayFails(e)
          \/ ReplayStarts(e) \/ ReplayPublishes(e) \/ ReplayFails(e)
    \/ FirstConnection(TRUE) \/ FirstConnection(FALSE) \/ ConnectionLost \/ Reconnected
    \/ \E p \in Processes, halted \in SUBSET {e \in Events : replay[e].state = "active"} :
          Dies(p, halted)

Spec == Init /\ [][Next]_vars

----------------------------------------------------------------------------
(* Properties *)

(* Events, log, replays and subscriptions keep their types. *)
TypeOK ==
    /\ settings \in [publisher: BOOLEAN, replay: BOOLEAN]
    /\ event \in [Events ->
          [pc: {"new", "numbered", "logged", "publishing", "replaying", "done", "lost"},
           by: Processes, given: Given \cup {0}, version: Nat,
           tries: 0..PublishTries]]
    /\ log \in Seq([version: Nat \ {0}, by: Processes, numbered: BOOLEAN])
    /\ replay \in [Events ->
          [state: {"none", "waiting", "active", "completed", "failed"},
           tries: 0..(ReplayTries - 1), attempts: 0..ReplayAttempts, stalled: BOOLEAN]]
    /\ listening \in {"starting", "on", "off", "never"}
    /\ heard \cup missed \subseteq Events

Settled(e) == At(e, "done") /\ replay[e].state \in {"none", "completed", "failed"}

(* The attempts that Redis did not confirm... *)
Failures(e) == event[e].tries + ReplayTries * replay[e].attempts

(* ... and how many of them an event survives. *)
Endurance(e) ==
    PublishTries + IF settings.replay /\ event[e].by = "api" THEN ReplayTries * ReplayAttempts ELSE 0

(* An event comes to the API's ear unless Redis failed all the attempts    *)
(* its process has, nobody listened when it was sent, or a process died    *)
(* with it; and what is heard is in the log.                               *)
LostOnlyAfterOutage ==
    \A e \in Events :
        /\ settings.publisher /\ Settled(e) =>
              e \in heard \cup missed \/ Failures(e) >= Endurance(e)
        /\ e \in heard => ~At(e, "new") /\ ~At(e, "numbered")

(* An event that the log numbers comes after all that its process logged   *)
(* before, whatever versions those brought along; two processes may give   *)
(* one number twice.                                                       *)
NumberedVersionsIncrease ==
    \A i, j \in DOMAIN log :
        i < j /\ log[i].by = log[j].by /\ log[j].numbered => log[i].version < log[j].version

----------------------------------------------------------------------------
(* The inductive invariant of the proofs. *)

(* A process inserts the event it has numbered before it numbers the next, *)
(* so the number is greater than what it logged before. *)
NumberIsNext ==
    /\ \A e, f \in Events :
          At(e, "numbered") /\ At(f, "numbered") /\ event[e].by = event[f].by => e = f
    /\ \A e \in Events :
          At(e, "numbered") /\ event[e].given = 0 =>
              \A i \in DOMAIN log : log[i].by = event[e].by => log[i].version < event[e].version
    /\ \A e \in Events : At(e, "numbered") => event[e].version > 0

(* How often an event was tried, by where it is. *)
TriesAreCounted ==
    \A e \in Events :
        /\ event[e].pc \in {"new", "numbered", "logged"} => event[e].tries = 0
        /\ At(e, "publishing") => event[e].tries < PublishTries
        /\ At(e, "replaying") => event[e].tries = PublishTries /\ settings.replay
        /\ At(e, "done") /\ settings.publisher /\ e \notin heard \cup missed =>
              /\ event[e].tries = PublishTries
              /\ settings.replay /\ event[e].by = "api" => replay[e].state # "none"

(* A replay is of an event that is done with, and says how it ended. *)
ReplaysAreCounted ==
    \A e \in Events :
        /\ replay[e].state # "none" => At(e, "done")
        /\ replay[e].state \in {"none", "waiting", "active"} => replay[e].attempts < ReplayAttempts
        /\ replay[e].state = "completed" => e \in heard \cup missed
        /\ replay[e].state = "failed" => replay[e].attempts = ReplayAttempts \/ e \in missed

(* What was heard was logged. *)
HeardIsLogged == \A e \in heard : ~At(e, "new") /\ ~At(e, "numbered")

(* There is a greatest version. *)
VersionsEnd == \E n \in Versions \cup {0} : \A v \in Versions \cup {0} : v <= n

IInv ==
    /\ TypeOK /\ VersionsEnd
    /\ NumberedVersionsIncrease /\ NumberIsNext
    /\ TriesAreCounted /\ ReplaysAreCounted /\ HeardIsLogged

===============================================================================
