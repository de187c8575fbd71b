--------------------------- MODULE WebhookIngest ---------------------------
(***************************************************************************)
(* How a delivery of GitHub finds its session (webhook.controller.ts,      *)
(* integration-webhook-routes.controller.ts) and what the audit table says *)
(* of it (workspace-persistence.service.ts).                               *)
(*                                                                         *)
(* The checks and the route are read in one step; the handler then awaits  *)
(* its event and, for a pull request, the validation, while users register *)
(* and remove routes.  The audit row is written last.  GitHub repeats a    *)
(* delivery, under its old id, when it is asked to.                        *)
(***************************************************************************)
EXTENDS Naturals, FiniteSets, Sequences

CONSTANTS
    Users, Sessions, Repos,     \* repositories by normalised name
    EnvSession,     \* INTEGRATION_WEBHOOK_SESSION_ID
    Deliveries,     \* delivery ids
    None,           \* no route, no owner, no repository
    MaxRepeats      \* bound on how often a delivery arrives (model bound)

VARIABLES
    routes,     \* github_repo_webhook_route
    owners,     \* owner_user_id of each workspace session
    payload,    \* each delivery's event and repository, the same whenever it arrives
    handlers,   \* for each delivery: what its handler is doing
    log,        \* the events logged for each delivery: the sessions, in order
    audit,      \* webhook_ingest_audit: the rows of each delivery, in order
    answers,    \* for each delivery, how often it was answered with success
    unaudited   \* history variable: the deliveries that were cut off, or an audit row of
                \* which could not be inserted

vars == <<routes, owners, payload, handlers, log, audit, answers, unaudited>>

Outcomes == {"rejected_signature", "rejected_ip", "ignored_event", "processed"}

Payload == [kind: {"event", "silent", "other"}, repo: Repos \cup {None}]

Idle == [pc |-> "idle", session |-> EnvSession, arrived |-> 0]

Init ==
    /\ routes = [r \in Repos |-> None]
    /\ owners = [s \in Sessions |-> None]
    /\ payload \in [Deliveries -> Payload]
    /\ handlers = [d \in Deliveries |-> Idle]
    /\ log = [d \in Deliveries |-> <<>>]
    /\ audit = [d \in Deliveries |-> <<>>]
    /\ answers = [d \in Deliveries |-> 0]
    /\ unaudited = {}

----------------------------------------------------------------------------
(* Routes *)

MayAccess(s, u) == owners[s] \in {None, u}

MayChange(r, u) == routes[r] \in {None} \cup [session: Sessions, owner: {u}]

(* upsertGithubRepoWebhookRoute *)
Register(u, r, s) ==
    /\ MayAccess(s, u)
    /\ MayChange(r, u)
    /\ routes' = [routes EXCEPT ![r] = [session |-> s, owner |-> u]]
    /\ UNCHANGED <<owners, payload, handlers, log, audit, answers, unaudited>>

(* deleteGithubRepoWebhookRoute *)
Remove(u, r) ==
    /\ routes[r] # None /\ MayChange(r, u)
    /\ routes' = [routes EXCEPT ![r] = None]
    /\ UNCHANGED <<owners, payload, handlers, log, audit, answers, unaudited>>

(* A first write to a session claims it. *)
Claim(u, s) ==
    /\ owners[s] = None
    /\ owners' = [owners EXCEPT ![s] = u]
    /\ UNCHANGED <<routes, payload, handlers, log, audit, answers, unaudited>>

----------------------------------------------------------------------------
(* Deliveries *)

ResolveIngestSession(d) ==
    LET repo == payload[d].repo
    IN  IF repo # None /\ routes[repo] # None THEN routes[repo].session ELSE EnvSession

(* tryWebhookAudit: an insert that fails is only logged. *)
TryAudit(d, outcome, session) ==
    \/ /\ audit' = [audit EXCEPT ![d] = Append(@, [outcome |-> outcome, session |-> session])]
       /\ UNCHANGED unaudited
    \/ /\ unaudited' = unaudited \cup {d}
       /\ UNCHANGED audit

Arrives(d) == handlers[d].pc = "idle" /\ handlers[d].arrived < MaxRepeats

Finished(d) == [Idle EXCEPT !.arrived = handlers[d].arrived]

(* The address is not allowed, or the signature does not match. *)
Reject(d, outcome) ==
    /\ Arrives(d)
    /\ TryAudit(d, outcome, EnvSession)
    /\ handlers' = [handlers EXCEPT ![d].arrived = @ + 1]
    /\ UNCHANGED <<routes, owners, payload, log, answers>>

(* An event of another type. *)
Ignore(d) ==
    /\ Arrives(d) /\ payload[d].kind = "other"
    /\ TryAudit(d, "ignored_event", ResolveIngestSession(d))
    /\ handlers' = [handlers EXCEPT ![d].arrived = @ + 1]
    /\ answers' = [answers EXCEPT ![d] = @ + 1]
    /\ UNCHANGED <<routes, owners, payload, log>>

(* handlePullRequest, handlePush: the event is logged in the session the   *)
(* route names now; the rest of the handler awaits.  A pull request action *)
(* of no interest logs nothing.                                            *)
Accept(d) ==
    /\ Arrives(d) /\ payload[d].kind # "other"
    /\ LET s == ResolveIngestSession(d)
       IN  /\ handlers' = [handlers EXCEPT ![d] =
                 [pc |-> "working", session |-> s, arrived |-> @.arrived + 1]]
           /\ log' = IF payload[d].kind = "event" THEN [log EXCEPT ![d] = Append(@, s)] ELSE log
    /\ UNCHANGED <<routes, owners, payload, audit, answers, unaudited>>

(* Mutant: the route is resolved again for the audit row. *)
AnswerReroutes(d) ==
    /\ handlers[d].pc = "working"
    /\ TryAudit(d, "processed", ResolveIngestSession(d))
    /\ answers' = [answers EXCEPT ![d] = @ + 1]
    /\ handlers' = [handlers EXCEPT ![d] = Finished(d)]
    /\ UNCHANGED <<routes, owners, payload, log>>

Answer(d) ==
    /\ handlers[d].pc = "working"
    /\ TryAudit(d, "processed", handlers[d].session)
    /\ answers' = [answers EXCEPT ![d] = @ + 1]
    /\ handlers' = [handlers EXCEPT ![d] = Finished(d)]
    /\ UNCHANGED <<routes, owners, payload, log>>

(* What is awaited rejects, or the process dies: no answer, no audit row. *)
HandlerFails(d) ==
    /\ handlers[d].pc = "working"
    /\ handlers' = [handlers EXCEPT ![d] = Finished(d)]
    /\ unaudited' = unaudited \cup {d}
    /\ UNCHANGED <<routes, owners, payload, log, audit, answers>>

Next ==
    \/ \E u \in Users, r \in Repos : Remove(u, r) \/ \E s \in Sessions : Register(u, r, s)
    \/ \E u \in Users, s \in Sessions : Claim(u, s)
    \/ \E d \in Deliveries :
          \/ Reject(d, "rejected_ip") \/ Reject(d, "rejected_signature")
          \/ Ignore(d) \/ Accept(d) \/ Answer(d) \/ HandlerFails(d)

Spec == Init /\ [][Next]_vars

----------------------------------------------------------------------------
(* Properties *)

(* Routes, owners, handlers, events and audit rows keep their types. *)
TypeOK ==
    /\ routes \in [Repos -> [session: Sessions, owner: Users] \cup {None}]
    /\ owners \in [Sessions -> Users \cup {None}]
    /\ handlers \in [Deliveries -> [pc: {"idle", "working"}, session: Sessions,
                                    arrived: 0..MaxRepeats]]
    /\ payload \in [Deliveries -> Payload]
    /\ log \in [Deliveries -> Seq(Sessions)]
    /\ audit \in [Deliveries -> Seq([outcome: Outcomes, session: Sessions])]
    /\ answers \in [Deliveries -> 0..MaxRepeats]
    /\ unaudited \subseteq Deliveries

Processed(d, s) ==
    Cardinality({i \in DOMAIN audit[d] : audit[d][i] = [outcome |-> "processed", session |-> s]})

Logged(d, s) == Cardinality({i \in DOMAIN log[d] : log[d][i] = s})

(* The audit can be read against the event log: whatever became of the     *)
(* routes while a delivery was handled, each "processed" row names a       *)
(* session that got an event from that delivery, and each answered         *)
(* delivery has its row; the two agree exactly for deliveries none of      *)
(* whose handlers is at work, was cut off or lost its row.                 *)
AuditMatchesLog ==
    \A d \in Deliveries :
        /\ payload[d].kind = "event" =>
              \A s \in Sessions :
                 /\ Processed(d, s) <= Logged(d, s)
                 /\ handlers[d].pc = "idle" /\ d \notin unaudited => Processed(d, s) = Logged(d, s)
        /\ Len(audit[d]) <= handlers[d].arrived
        /\ answers[d] <= Len(audit[d]) \/ d \in unaudited

----------------------------------------------------------------------------
(* The inductive invariant of the proofs. *)

(* The handlers at work: the row of each is still to come. *)
Working(d, s) == IF handlers[d].pc = "working" /\ handlers[d].session = s THEN 1 ELSE 0

RowsWillMatch ==
    \A d \in Deliveries :
        payload[d].kind = "event" =>
            \A s \in Sessions :
                /\ Processed(d, s) + Working(d, s) <= Logged(d, s)
                /\ d \notin unaudited => Processed(d, s) + Working(d, s) = Logged(d, s)

AnswersAreCounted ==
    \A d \in Deliveries :
        LET busy == IF handlers[d].pc = "working" THEN 1 ELSE 0
        IN  /\ Len(audit[d]) + busy <= handlers[d].arrived
            /\ answers[d] + busy <= handlers[d].arrived
            /\ answers[d] <= Len(audit[d]) \/ d \in unaudited

IInv == TypeOK /\ RowsWillMatch /\ AnswersAreCounted

==============================================================================
