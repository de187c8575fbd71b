---------------------------- MODULE ProjectState ----------------------------
(***************************************************************************)
(* The project state of a workspace session (project-state.controller.ts): *)
(* what learners edit, and the code delta that pushes to GitHub add to it  *)
(* (webhook.controller.ts, code-delta-runner.service.ts).  Both are in one *)
(* row of SQLite (workspace-persistence.service.ts), which is written      *)
(* whole, in one synchronous step.                                         *)
(*                                                                         *)
(* A push is analysed and logged in one step; the handler then awaits the  *)
(* mirror and the broadcast of the event, and only after that patches the  *)
(* row.  A learner's edit carries the version on the learner's screen, or  *)
(* none.                                                                   *)
(***************************************************************************)
EXTENDS Naturals, Sequences, FiniteSets

CONSTANTS
    Users,          \* the users who know the session's id
    Questions,      \* what a learner may write: lists of open questions
    Commits,        \* the commits pushed, each once
    None,           \* no owner, no delta, no version
    MaxVersion      \* bound on the project state's version (model bound)

VARIABLES
    row,        \* the row: whether it exists, owner_user_id, project_state
    screens,    \* the project state on each user's screen
    pushes,     \* deliveries that have logged their delta and not yet patched the row
    announced,  \* the deltas logged, in order
    disturbed   \* history variable: the last push found no row, failed, or was overtaken

vars == <<row, screens, pushes, announced, disturbed>>

Content == [version: Nat, questions: Questions \cup {None}, delta: Commits \cup {None}]

DefaultProjectState == [version |-> 1, questions |-> None, delta |-> None]

NoRow == [exists |-> FALSE, owner |-> None, state |-> DefaultProjectState]

Init ==
    /\ row = NoRow
    /\ screens = [u \in Users |-> DefaultProjectState]
    /\ pushes = {}
    /\ announced = <<>>
    /\ disturbed = FALSE

----------------------------------------------------------------------------
(* The row *)

MayAccess(u) == row.owner \in {None, u}

(* setFull: an upsert; the first user who writes the row owns it. *)
SetFull(state, claim) ==
    row' = [exists |-> TRUE,
            owner |-> IF row.owner = None THEN claim ELSE row.owner,
            state |-> state]

GetState(u) ==
    /\ MayAccess(u)
    /\ screens' = [screens EXCEPT ![u] = row.state]
    /\ UNCHANGED <<row, pushes, announced, disturbed>>

(* The fields the learner sends replace those of the row; the delta stays. *)
PatchState(u, expected, questions) ==
    LET next == [row.state EXCEPT !.version = @ + 1, !.questions = questions]
    IN  /\ MayAccess(u)
        /\ expected \in {None, row.state.version}
        /\ row.state.version < MaxVersion
        /\ SetFull(next, u)
        /\ screens' = [screens EXCEPT ![u] = next]
        /\ UNCHANGED <<pushes, announced, disturbed>>

(* Any other endpoint that saves a part of the session writes the row whole. *)
SaveElsewhere(u) ==
    /\ MayAccess(u)
    /\ SetFull(row.state, u)
    /\ UNCHANGED <<screens, pushes, announced, disturbed>>

----------------------------------------------------------------------------
(* Pushes *)

LastAnnounced == IF announced = <<>> THEN None ELSE announced[Len(announced)]

(* handlePush: the commit is analysed, which blocks the process, and its   *)
(* delta logged; the handler now awaits the publisher.                     *)
PushAnnounced(c) ==
    /\ \A i \in DOMAIN announced : announced[i] # c
    /\ announced' = Append(announced, c)
    /\ pushes' = pushes \cup {c}
    /\ UNCHANGED <<row, screens, disturbed>>

(* What the row shows is old news if a later delta has come and gone. *)
Overtaken(c) == disturbed' = (c # LastAnnounced /\ (disturbed \/ LastAnnounced \notin pushes))

(* Mutant: a summary the row already has is not replaced. *)
PatchCodeDeltaOnce(c) ==
    IF row.exists /\ row.state.delta = None
    THEN /\ SetFull([row.state EXCEPT !.delta = c, !.version = @ + 1], None)
         /\ Overtaken(c)
    ELSE /\ UNCHANGED row
         /\ disturbed' = (disturbed \/ ~row.exists)

(* Mutant: a delta is no new version. *)
PatchCodeDeltaSameVersion(c) ==
    IF row.exists
    THEN SetFull([row.state EXCEPT !.delta = c], None) /\ Overtaken(c)
    ELSE UNCHANGED row /\ disturbed' = TRUE

(* patchProjectStateCodeDelta: nothing is created for a session without a row. *)
PatchCodeDelta(c) ==
    IF row.exists
    THEN /\ row.state.version < MaxVersion
         /\ SetFull([row.state EXCEPT !.delta = c, !.version = @ + 1], None)
         /\ Overtaken(c)
    ELSE /\ UNCHANGED row
         /\ disturbed' = TRUE

PushPatches(c) ==
    /\ c \in pushes
    /\ PatchCodeDelta(c)
    /\ pushes' = pushes \ {c}
    /\ UNCHANGED <<screens, announced>>

(* The publisher rejects, or the process dies while it is awaited. *)
PushLost(c) ==
    /\ c \in pushes
    /\ pushes' = pushes \ {c}
    /\ disturbed' = TRUE
    /\ UNCHANGED <<row, screens, announced>>

Next ==
    \/ \E u \in Users : GetState(u) \/ SaveElsewhere(u)
    \/ \E u \in Users, q \in Questions :
          \E expected \in {None, screens[u].version} : PatchState(u, expected, q)
    \/ \E c \in Commits : PushAnnounced(c) \/ PushPatches(c) \/ PushLost(c)

Spec == Init /\ [][Next]_vars

----------------------------------------------------------------------------
(* Properties *)

(* The row, the screens and the deliveries keep their types. *)
TypeOK ==
    /\ row \in [exists: BOOLEAN, owner: Users \cup {None}, state: Content]
    /\ screens \in [Users -> Content]
    /\ pushes \subseteq Commits
    /\ announced \in Seq(Commits)
    /\ disturbed \in BOOLEAN

(* A version names one content: a learner whose screen shows the row's     *)
(* version sees what the row holds, the delta of a push that came in the   *)
(* meantime included, and nobody's screen is ahead of the row.  The        *)
(* comparison with expectedVersion rests on this.                          *)
VersionNamesContent ==
    \A u \in Users :
        /\ screens[u].version <= row.state.version
        /\ screens[u].version = row.state.version => screens[u] = row.state

(* Once no push is under way, the project state shows the last delta that  *)
(* was logged, unless the push that logged it failed, found no row, or was  *)
(* overtaken by an earlier one.                                            *)
SettledStateShowsLastDelta ==
    pushes = {} /\ ~disturbed => row.state.delta = LastAnnounced

(* What makes SettledStateShowsLastDelta inductive: undisturbed, the last  *)
(* delta is shown, or the push that brings it is under way. *)
LastDeltaIsComing ==
    ~disturbed => LastAnnounced \in pushes \/ row.state.delta = LastAnnounced

IInv == TypeOK /\ VersionNamesContent /\ LastDeltaIsComing

==============================================================================
