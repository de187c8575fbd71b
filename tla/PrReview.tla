------------------------------ MODULE PrReview ------------------------------
(***************************************************************************)
(* The pull request of a workspace session (pr-review.controller.ts), kept *)
(* in the session's row of SQLite, with the row's owner and the versions   *)
(* of the session's integration events (workspace-persistence.service.ts). *)
(*                                                                         *)
(* better-sqlite3 is synchronous and one process writes the row, so each   *)
(* request reads, checks, writes and logs its event in one step.  What can *)
(* be old is what the client has on its screen: a request carries the      *)
(* version the client saw, or none, which is taken as agreement.           *)
(***************************************************************************)
EXTENDS Naturals, FiniteSets

CONSTANTS
    Users,          \* the users who know the session's id
    None,           \* no owner, no version, no event
    MaxVersion,     \* bound on the snapshot's version (model bound)
    MaxWebhook      \* bound on the versions webhooks give their events (model bound)

ASSUME PrReviewAssumption ==
    /\ None \notin Users
    /\ None \notin Nat
    /\ MaxVersion \in Nat \ {0}
    /\ MaxWebhook \in 0..MaxVersion

VARIABLES
    pr,         \* pr_snapshot of the row
    owner,      \* owner_user_id of the row
    seen,       \* the snapshot each user's client shows
    log,        \* integration_events: pull request events by version and by who triggered
                \* them, the greatest version
    answered,   \* history variable: the comments that have been answered at some time
    authors,    \* history variable: the users who have written the row
    unlogged    \* history variable: the versions whose event failed to be logged

vars == <<pr, owner, seen, log, answered, authors, unlogged>>

CommentId == {"c1", "c2", "c3", "c4"}
Status    == {"pending", "addressed"}   \* deferred and needs_clarification count as addressed

IdlePr == [version |-> 1, round |-> 0, phase |-> "idle", comments |-> <<>>]

AllPending(ids) == [c \in ids |-> "pending"]

(* Mutant: one resolved comment is enough. *)
AnyResolved(comments) == \E c \in DOMAIN comments : comments[c] # "pending"

AllResolved(comments) ==
    DOMAIN comments # {} /\ \A c \in DOMAIN comments : comments[c] # "pending"

Init ==
    /\ pr = IdlePr
    /\ owner = None
    /\ seen = [u \in Users |-> IdlePr]
    /\ log = [prs |-> {}, top |-> 0]
    /\ answered = {}
    /\ authors = {}
    /\ unlogged = {}

----------------------------------------------------------------------------
(* The parts every request is made of *)

(* Mutant: the owner is not looked at. *)
AnyoneMayAccess(u) == TRUE

(* assertWorkspaceSessionAccess *)
MayAccess(u) == owner \in {None, u}

(* A request with the version its client saw, or with none. *)
VersionMatches(u) ==
    \E v \in {None, seen[u].version} : v = None \/ v = pr.version

(* What a request makes of the snapshot: the next version of it. *)
Advanced(round, phase, comments) ==
    [version |-> pr.version + 1, round |-> round, phase |-> phase, comments |-> comments]

Patched(c, st) == [d \in DOMAIN pr.comments |-> IF d = c THEN st ELSE pr.comments[d]]

PrEventTypes == {"PR_OPENED", "PR_UPDATED", "PR_MERGED"}

(* appendIntegrationEvent with a version given *)
Logged(type, version, by) ==
    [prs |-> IF type \in PrEventTypes
             THEN log.prs \cup {[type |-> type, version |-> version, by |-> by]} ELSE log.prs,
     top |-> IF version > log.top THEN version ELSE log.top]

(* savePrSnapshot, which claims a row that nobody owns, then publish.  The *)
(* event may fail when the snapshot is already saved; the client then gets *)
(* an error and goes on showing what it had.                               *)
SaveAndPublish(u, next, type) ==
    /\ pr' = next
    /\ owner' = IF owner = None THEN u ELSE owner
    /\ authors' = authors \cup {u}
    /\ \/ /\ log' = Logged(type, next.version, "user")
          /\ seen' = [seen EXCEPT ![u] = next]
          /\ UNCHANGED unlogged
       \/ /\ unlogged' = unlogged \cup {next.version}
          /\ UNCHANGED <<log, seen>>

Request(u) ==
    /\ MayAccess(u)
    /\ VersionMatches(u)
    /\ pr.version < MaxVersion

----------------------------------------------------------------------------
(* Requests *)

(* GET pr-review, and submit when the pull request is already there *)
Get(u) ==
    /\ MayAccess(u)
    /\ seen' = [seen EXCEPT ![u] = pr]
    /\ UNCHANGED <<pr, owner, log, answered, authors, unlogged>>

Submit(u) ==
    /\ Request(u)
    /\ pr.phase = "idle"
    /\ SaveAndPublish(u, Advanced(1, "open", AllPending({"c1", "c2"})), "PR_OPENED")
    /\ UNCHANGED answered

(* Mutant: a patched comment keeps the version. *)
PatchCommentSameVersion(u) ==
    /\ Request(u)
    /\ \E c \in CommentId, st \in Status :
          /\ SaveAndPublish(u, [pr EXCEPT !.comments = Patched(c, st)], "PR_UPDATED")
          /\ answered' = IF c \in DOMAIN pr.comments /\ st # "pending"
                         THEN answered \cup {c} ELSE answered

(* Mutant: an id that is not there becomes a comment. *)
PatchCommentCreates(u) ==
    /\ Request(u)
    /\ \E c \in CommentId, st \in Status :
          /\ SaveAndPublish(u, Advanced(pr.round, pr.phase,
                                        [d \in DOMAIN pr.comments \cup {c} |->
                                            IF d = c THEN st ELSE pr.comments[d]]),
                            "PR_UPDATED")
          /\ answered' = answered \cup {c}

(* An id that is not there changes no comment, but it is a new version. *)
PatchComment(u) ==
    /\ Request(u)
    /\ \E c \in CommentId, st \in Status :
          /\ SaveAndPublish(u, Advanced(pr.round, pr.phase, Patched(c, st)), "PR_UPDATED")
          /\ answered' = IF c \in DOMAIN pr.comments /\ st # "pending"
                         THEN answered \cup {c} ELSE answered

(* Mutant: a second round that nobody hears of. *)
ReReviewSilent(u) ==
    /\ Request(u)
    /\ pr.round = 1 /\ pr.phase = "open"
    /\ AllResolved(pr.comments)
    /\ pr' = Advanced(2, "open", AllPending({"c3", "c4"}))
    /\ seen' = [seen EXCEPT ![u] = pr']
    /\ owner' = IF owner = None THEN u ELSE owner
    /\ authors' = authors \cup {u}
    /\ UNCHANGED <<log, answered, unlogged>>

ReReview(u) ==
    /\ Request(u)
    /\ pr.round = 1 /\ pr.phase = "open"
    /\ AllResolved(pr.comments)
    /\ SaveAndPublish(u, Advanced(2, "open", AllPending({"c3", "c4"})), "PR_UPDATED")
    /\ UNCHANGED answered

FinalApprove(u) ==
    /\ Request(u)
    /\ pr.round >= 2 /\ pr.phase = "open"
    /\ AllResolved(pr.comments)
    /\ SaveAndPublish(u, Advanced(pr.round, "approved", pr.comments), "PR_MERGED")
    /\ UNCHANGED answered

LoggedAtVersion ==
    [log EXCEPT !.top = IF pr.version > @ THEN pr.version ELSE @]

(* Contract validation, contract approval and retrospectives write other   *)
(* columns of the row and log an event at the snapshot's version.          *)
SaveElsewhere(u) ==
    /\ MayAccess(u)
    /\ owner' = IF owner = None THEN u ELSE owner
    /\ authors' = authors \cup {u}
    /\ log' \in {log, LoggedAtVersion}
    /\ UNCHANGED <<pr, seen, answered, unlogged>>

(* The VFS endpoints log an event and write nothing to the row. *)
VfsEvent(u) ==
    /\ MayAccess(u)
    /\ log' = LoggedAtVersion
    /\ UNCHANGED <<pr, owner, seen, answered, authors, unlogged>>

(* A delivery of GitHub logs its event, of a pull request or of a commit   *)
(* and its validation, in the same log.  It comes with version 0: the row  *)
(* gets MAX + 1, whatever the version of the snapshot is.                  *)
WebhookEvent ==
    /\ log.top < MaxWebhook
    /\ \E type \in PrEventTypes \cup {"other"} : log' = Logged(type, log.top + 1, "github")
    /\ UNCHANGED <<pr, owner, seen, answered, authors, unlogged>>

Next ==
    \/ \E u \in Users : Get(u) \/ Submit(u) \/ PatchComment(u) \/ ReReview(u)
                        \/ FinalApprove(u) \/ SaveElsewhere(u) \/ VfsEvent(u)
    \/ WebhookEvent

Spec == Init /\ [][Next]_vars

----------------------------------------------------------------------------
(* Properties *)

Snapshot ==
    [version: 1..MaxVersion, round: 0..2, phase: {"idle", "open", "approved"},
     comments: UNION {[ids -> Status] : ids \in {{}, {"c1", "c2"}, {"c3", "c4"}}}]

(* The row and what clients show are snapshots. *)
TypeOK ==
    /\ pr \in Snapshot
    /\ owner \in Users \cup {None}
    /\ seen \in [Users -> Snapshot]
    /\ log.prs \subseteq [type: PrEventTypes, version: 1..MaxVersion, by: {"user", "github"}]
    /\ log.top \in 0..MaxVersion
    /\ answered \subseteq CommentId
    /\ authors \subseteq Users
    /\ unlogged \subseteq 1..MaxVersion

(* A version names one snapshot: a client whose version still matches is   *)
(* looking at what is stored, so a request that carries its version never  *)
(* undoes a change the client has not seen.                                *)
VersionNamesContent ==
    \A u \in Users : seen[u].version = pr.version => seen[u] = pr

(* Every version of the snapshot after the first is announced by exactly   *)
(* one event of the review, unless logging that event failed.  Events of   *)
(* GitHub are of the same types and may have the same versions, so what    *)
(* tells them apart is who triggered them; no two of those have one        *)
(* version.                                                                *)
EveryVersionAnnounced ==
    /\ \A v \in 2..pr.version :
          Cardinality({e \in log.prs : e.by = "user" /\ e.version = v}) =
              IF v \in unlogged THEN 0 ELSE 1
    /\ \A e, f \in {g \in log.prs : g.by = "github"} : e.version = f.version => e = f

(* Whoever is first to write claims the session: nobody else ever writes   *)
(* to it, however the first requests of several users interleave.          *)
OneAuthor == authors \subseteq {owner}

(* The requests, with whatever versions, keep the order of ReviewRounds,   *)
(* even though a comment can be set back to pending at any time.           *)
Rounds == INSTANCE ReviewRounds WITH
    stage <- IF pr.phase = "approved" THEN 3 ELSE pr.round

ImplementsReviewRounds == Rounds!Spec

==============================================================================
