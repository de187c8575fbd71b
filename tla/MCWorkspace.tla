----------------------------- MODULE MCWorkspace -----------------------------
(***************************************************************************)
(* The components that share no step with one another, for TLC in one run: *)
(* first those of the API, then those of the browser and of the browser    *)
(* with the API.  A behaviour is of one of them, "part", whose state is    *)
(* kept in v1, v2, ... in the order in which its module declares its       *)
(* variables.                                                              *)
(***************************************************************************)
EXTENDS Naturals, Sequences, FiniteSets

CONSTANTS
    Users,
    Items,          \* what a component has several of: commits, snapshots, sessions,
                    \* events, loops, tabs, calls, notifications, artifacts, images
    Requests,       \* requests that overlap, and what they carry
    None,
    Checks, SpecVersions, Cooldown,                             \* ContractGate
    Repos, EnvSession, Deliveries,                              \* WebhookIngest
    LoggedTypes, TypeFilters, Limits,                           \* UnifiedTimeline
    Given, PublishTries, ReplayTries, ReplayAttempts,           \* EventPipeline
    Discussions,                                                \* ChatNotices
    RetroWindow, ChatWindow,                                    \* RetroKpis, ChatQuestions
    MaxVersion, MaxApprovals, MaxRepeats, MaxIssued, MaxTokens, \* model bounds
    MaxEvents, MaxTime, MaxDeaths, MaxConversions, MaxReports, MaxQuestions

ASSUME WorkspaceAssumption ==
    /\ None \notin Users \cup Items \cup Requests \cup Repos
    /\ SpecVersions \subseteq Nat /\ Cooldown \in Nat \ {0}
    /\ EnvSession \in Items
    /\ Discussions \subseteq Items /\ Given \cup Limits \subseteq Nat
    /\ {PublishTries, ReplayTries, ReplayAttempts, MaxVersion} \subseteq Nat \ {0}
    /\ {MaxVersion, MaxApprovals, MaxRepeats, MaxIssued, MaxTokens, MaxEvents, MaxTime,
        MaxDeaths, MaxConversions, MaxReports, MaxQuestions, ChatWindow} \subseteq Nat

VARIABLES part, v1, v2, v3, v4, v5, v6, v7, v8, v9

vars == <<part, v1, v2, v3, v4, v5, v6, v7, v8, v9>>

State == INSTANCE ProjectState WITH
    Questions <- Requests, Commits <- Items,
    row <- v1, screens <- v2, pushes <- v3, announced <- v4, disturbed <- v5

Vfs == INSTANCE VfsSnapshots WITH
    Snapshots <- Items, Approvers <- Requests,
    file <- v1, index <- v2, created <- v3, approvals <- v4, creators <- v5,
    approvers <- v6, broken <- v7

Contract == INSTANCE ContractGate WITH
    row <- v1, checks <- v2, done <- v3, age <- v4, everReady <- v5, pinged <- v6

Ingest == INSTANCE WebhookIngest WITH
    Sessions <- Items,
    routes <- v1, owners <- v2, payload <- v3, handlers <- v4, log <- v5,
    audit <- v6, answers <- v7, unaudited <- v8

Artifact == INSTANCE ArtifactReview WITH
    Artifacts <- Items, Texts <- Users,
    row <- v1, onDisk <- v2, notice <- v3, requests <- v4, untold <- v5

Account == INSTANCE Accounts WITH
    Requests <- Items,
    registered <- v1, redis <- v2, issued <- v3, denied <- v4, cookie <- v5,
    requests <- v6, broken <- v7

Timeline == INSTANCE UnifiedTimeline WITH
    clock <- v1, log <- v2, mirror <- v3, publishing <- v4, request <- v5

Retro == INSTANCE RetroKpis WITH
    Window <- RetroWindow,
    listed <- v1

Pipeline == INSTANCE EventPipeline WITH
    Events <- Items,
    settings <- v1, event <- v2, log <- v3, replay <- v4, listening <- v5,
    heard <- v6, missed <- v7, deaths <- v8

Run == INSTANCE AutoRun WITH
    Loops <- Items,
    loops <- v1, gates <- v2, page <- v3, running <- v4, latch <- v5,
    cancel <- v6, busy <- v7, manual <- v8, late <- v9

Browser == INSTANCE BrowserAuth WITH
    Calls <- Items, MaxIssued <- MaxTokens,
    issued <- v1, valid <- v2, cookie <- v3, stored <- v4, signedIn <- v5,
    checked <- v6, calls <- v7

Screen == INSTANCE PrScreen WITH
    Tabs <- Items,
    server <- v1, shown <- v2, stored <- v3, asked <- v4, fetched <- v5,
    upset <- v6

Learner == INSTANCE LearnerGates WITH
    spec <- v1, contract <- v2, kept <- v3, converted <- v4, server <- v5,
    madeUp <- v6

Notice == INSTANCE ChatNotices WITH
    Notes <- Items, Pulls <- Requests,
    sent <- v1, primed <- v2, seen <- v3, ready <- v4, pulls <- v5,
    room <- v6, silent <- v7

Image == INSTANCE ChatImages WITH
    Images <- Items,
    file <- v1, rows <- v2, image <- v3, link <- v4, token <- v5, question <- v6

Report == INSTANCE RetroReports WITH
    Tabs <- Items,
    reports <- v1, generates <- v2, fetches <- v3, shown <- v4, kept <- v5

Chat == INSTANCE ChatQuestions WITH
    Window <- ChatWindow,
    env <- v1, room <- v2, question <- v3, asked <- v4

Init ==
    \/ part = "state" /\ State!Init /\ v6 = None /\ v7 = None /\ v8 = None /\ v9 = None
    \/ part = "vfs" /\ Vfs!Init /\ v8 = None /\ v9 = None
    \/ part = "contract" /\ Contract!Init /\ v7 = None /\ v8 = None /\ v9 = None
    \/ part = "ingest" /\ Ingest!Init /\ v9 = None
    \/ part = "artifact" /\ Artifact!Init /\ v6 = None /\ v7 = None /\ v8 = None /\ v9 = None
    \/ part = "account" /\ Account!Init /\ v8 = None /\ v9 = None
    \/ part = "timeline" /\ Timeline!Init /\ v6 = None /\ v7 = None /\ v8 = None /\ v9 = None
    \/ part = "retro" /\ Retro!Init /\ v2 = None /\ v3 = None /\ v4 = None /\ v5 = None /\ v6 = None /\ v7 = None /\ v8 = None /\ v9 = None
    \/ part = "pipeline" /\ Pipeline!Init /\ v9 = None
    \/ part = "run" /\ Run!Init
    \/ part = "browser" /\ Browser!Init /\ v8 = None /\ v9 = None
    \/ part = "screen" /\ Screen!Init /\ v7 = None /\ v8 = None /\ v9 = None
    \/ part = "learner" /\ Learner!Init /\ v7 = None /\ v8 = None /\ v9 = None
    \/ part = "notice" /\ Notice!Init /\ v8 = None /\ v9 = None
    \/ part = "image" /\ Image!Init /\ v7 = None /\ v8 = None /\ v9 = None
    \/ part = "report" /\ Report!Init /\ v6 = None /\ v7 = None /\ v8 = None /\ v9 = None
    \/ part = "chat" /\ Chat!Init /\ v5 = None /\ v6 = None /\ v7 = None /\ v8 = None /\ v9 = None

Next ==
    /\ UNCHANGED part
    /\ \/ part = "state" /\ State!Next /\ UNCHANGED <<v6, v7, v8, v9>>
       \/ part = "vfs" /\ Vfs!Next /\ UNCHANGED <<v8, v9>>
       \/ part = "contract" /\ Contract!Next /\ UNCHANGED <<v7, v8, v9>>
       \/ part = "ingest" /\ Ingest!Next /\ UNCHANGED <<v9>>
       \/ part = "artifact" /\ Artifact!Next /\ UNCHANGED <<v6, v7, v8, v9>>
       \/ part = "account" /\ Account!Next /\ UNCHANGED <<v8, v9>>
       \/ part = "timeline" /\ Timeline!Next /\ UNCHANGED <<v6, v7, v8, v9>>
       \/ part = "retro" /\ Retro!Next /\ UNCHANGED <<v2, v3, v4, v5, v6, v7, v8, v9>>
       \/ part = "pipeline" /\ Pipeline!Next /\ UNCHANGED <<v9>>
       \/ part = "run" /\ Run!Next
       \/ part = "browser" /\ Browser!Next /\ UNCHANGED <<v8, v9>>
       \/ part = "screen" /\ Screen!Next /\ UNCHANGED <<v7, v8, v9>>
       \/ part = "learner" /\ Learner!Next /\ UNCHANGED <<v7, v8, v9>>
       \/ part = "notice" /\ Notice!Next /\ UNCHANGED <<v8, v9>>
       \/ part = "image" /\ Image!Next /\ UNCHANGED <<v7, v8, v9>>
       \/ part = "report" /\ Report!Next /\ UNCHANGED <<v6, v7, v8, v9>>
       \/ part = "chat" /\ Chat!Next /\ UNCHANGED <<v5, v6, v7, v8, v9>>

Spec == Init /\ [][Next]_vars

----------------------------------------------------------------------------
(* Properties: what each part promises. *)

(* Every part's state has its type. *)
TypeOK ==
    /\ part = "state" => State!TypeOK
    /\ part = "vfs" => Vfs!TypeOK
    /\ part = "contract" => Contract!TypeOK
    /\ part = "ingest" => Ingest!TypeOK
    /\ part = "artifact" => Artifact!TypeOK
    /\ part = "account" => Account!TypeOK
    /\ part = "timeline" => Timeline!TypeOK
    /\ part = "retro" => Retro!TypeOK
    /\ part = "pipeline" => Pipeline!TypeOK
    /\ part = "run" => Run!TypeOK
    /\ part = "browser" => Browser!TypeOK
    /\ part = "screen" => Screen!TypeOK
    /\ part = "learner" => Learner!TypeOK
    /\ part = "notice" => Notice!TypeOK
    /\ part = "image" => Image!TypeOK
    /\ part = "report" => Report!TypeOK
    /\ part = "chat" => Chat!TypeOK

(* A screen whose version is the row's shows what the row holds. *)
VersionNamesContent == part = "state" => State!VersionNamesContent

(* Undisturbed pushes leave their delta in the project state. *)
SettledStateShowsLastDelta == part = "state" => State!SettledStateShowsLastDelta

(* The index of an unbroken snapshot says what its file says, and an image *)
(* the chat refers to is one the API has stored. *)
IndexFollowsFile ==
    /\ part = "vfs" => Vfs!IndexFollowsFile
    /\ part = "image" => Image!ReferencesAreStored

(* The definition of done is granted only if spec and contract were in order. *)
GateWasEarned == part = "contract" => Contract!GateWasEarned

(* A concern is announced unless one of its kind is recent. *)
ConcernsAreRaised == part = "contract" => Contract!ConcernsAreRaised

(* The audit trail says of a delivery what the log shows. *)
AuditMatchesLog == part = "ingest" => Ingest!AuditMatchesLog

(* The feedback stored is the one the learner was told of, unless the      *)
(* request that stored it was cut off. *)
FeedbackIsTheOneAnnounced == part = "artifact" => Artifact!FeedbackIsTheOneAnnounced

(* A token that was given up opens nothing. *)
SpentTokensServeNobody == part = "account" => Account!SpentTokensServeNobody

(* The browser's cookie is good for one more refresh. *)
CookieCanBeRefreshed == part = "account" => Account!CookieCanBeRefreshed

(* The merged timeline shows each event once, in order. *)
TimelineTellsTheStory == part = "timeline" => Timeline!TimelineTellsTheStory

(* An event that nobody heard was published during an outage. *)
LostOnlyAfterOutage == part = "pipeline" => Pipeline!LostOnlyAfterOutage

(* The versions the log gives increase. *)
NumberedVersionsIncrease == part = "pipeline" => Pipeline!NumberedVersionsIncrease

(* After a stop a loop makes at most the call it was about to make. *)
StopIsHeeded == part = "run" => Run!StopIsHeeded

(* A review on the screen is never replaced by an older one. *)
ScreenNeverFallsBack == [][part = "screen" => Screen!ScreenMovesOn]_vars

(* What the screen opens the server has granted, and the reports it shows  *)
(* the server has stored. *)
ScreenOpensWithServer ==
    /\ part = "learner" => Learner!ScreenOpensWithServer
    /\ part = "report" => Report!ReportsAreStored

(* A notification is shown once. *)
NotesAreShownOnce == part = "notice" => Notice!NotesAreShownOnce

==============================================================================
