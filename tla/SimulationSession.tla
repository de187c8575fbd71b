------------------------- MODULE SimulationSession -------------------------
(***************************************************************************)
(* One row of the simulation_session table and the HTTP handlers that work *)
(* on it (sessions-data.service.ts, sessions.service.ts and                *)
(* scenario-runner.service.ts).                                            *)
(*                                                                         *)
(* A handler awaits the database and the model between its steps, so other *)
(* handlers run in the gaps.  Each endpoint is the sequence of awaited     *)
(* calls it makes; each call that changes the row reads the row, changes   *)
(* its copy, and hands the copy to TypeORM's save.  save reads the row     *)
(* again, compares it with the copy, and updates the columns that differ:  *)
(* nothing detects that the copy is old.                                   *)
(***************************************************************************)
EXTENDS Gates

CONSTANTS
    Requests,       \* the handlers that may be running at one time
    Endpoints,      \* the endpoints the clients call, among EndpointNames
    Notes,          \* the implementation notes they send
    Summaries,      \* the retro summaries they send, or the model writes
    Undefined,      \* a field the request body leaves out
    MaxHistory      \* bound on the gate moves one row records (model bound)

EndpointNames ==
    {"patch", "implementation_ready", "verify",
     "run_scenario", "run_scenario_skip_wait", "run_scenario_finish"}

ASSUME SessionAssumption ==
    /\ Endpoints \subseteq EndpointNames
    /\ MaxHistory \in Nat
    /\ NULL \notin Notes \cup Summaries
    /\ Undefined \notin Notes \cup Summaries \cup {NULL}

VARIABLES
    row,        \* the row in Postgres
    requests,   \* each handler: the calls it has still to make, and its copy of the row
    events,     \* the types in the session's agent_event log
    passed      \* history variable: the checks that have let a handler through

vars == <<row, requests, events, passed>>

----------------------------------------------------------------------------
(* Rows *)

Row == [currentGate: Gate, gateHistory: Seq(HistoryEntry),
        implementationAcknowledgedAt: Instants \cup {NULL},
        implementationNotes: Notes \cup {NULL},
        retroSummary: Summaries \cup {NULL}]

Columns == {"currentGate", "gateHistory", "implementationAcknowledgedAt",
            "implementationNotes", "retroSummary"}

(* SessionsDataService.create *)
FreshRow ==
    [currentGate |-> "A", gateHistory |-> <<>>,
     implementationAcknowledgedAt |-> NULL,
     implementationNotes |-> NULL, retroSummary |-> NULL]

(* TypeORM's save: the columns in which the copy differs from the row it reads... *)
Diff(copy, inDb) == {c \in Columns : copy[c] # inDb[c]}

(* ...and the UPDATE of those columns alone. *)
Overlay(inDb, copy, columns) ==
    [currentGate |->
        IF "currentGate" \in columns THEN copy.currentGate ELSE inDb.currentGate,
     gateHistory |->
        IF "gateHistory" \in columns THEN copy.gateHistory ELSE inDb.gateHistory,
     implementationAcknowledgedAt |->
        IF "implementationAcknowledgedAt" \in columns
        THEN copy.implementationAcknowledgedAt ELSE inDb.implementationAcknowledgedAt,
     implementationNotes |->
        IF "implementationNotes" \in columns
        THEN copy.implementationNotes ELSE inDb.implementationNotes,
     retroSummary |->
        IF "retroSummary" \in columns THEN copy.retroSummary ELSE inDb.retroSummary]

(* Mutant: the gate is recorded and never changed. *)
PushHistoryOnly(r, to, reason, at) ==
    [r EXCEPT !.gateHistory = Append(@, [at |-> at, from |-> r.currentGate,
                                         to |-> to, reason |-> reason])]

PushHistory(r, to, reason, at) ==
    [r EXCEPT !.gateHistory = Append(@, [at |-> at, from |-> r.currentGate,
                                         to |-> to, reason |-> reason]),
              !.currentGate = to]

(* What transitionGate makes of a row it lets move: a summary that comes   *)
(* with DONE is stored, and entering B forgets an earlier acknowledgement. *)
WithSummary(r, target, retro) ==
    [r EXCEPT !.retroSummary = IF target = "DONE" /\ retro # Undefined THEN retro ELSE @]

(* Mutant: entering B leaves the column undefined. *)
WithAcknowledgementUndefined(r, target) ==
    [r EXCEPT !.implementationAcknowledgedAt = IF target = "B" THEN Undefined ELSE @]

WithAcknowledgement(r, target) ==
    [r EXCEPT !.implementationAcknowledgedAt = IF target = "B" THEN NULL ELSE @]

Transitioned(r, target, retro, at) ==
    PushHistory(WithAcknowledgement(WithSummary(r, target, retro), target),
                target, "manual_patch", at)

(* What acknowledgeImplementation makes of a row at gate B. *)
Acknowledged(r, notes, at) ==
    [r EXCEPT !.implementationAcknowledgedAt = at,
              !.implementationNotes = IF notes = Undefined THEN @ ELSE notes]

----------------------------------------------------------------------------
(* Endpoints, as the sequences of awaited calls they make *)

EventType == {"kickoff_complete", "implementation_acknowledged",
              "review_passed", "retro_complete"}

Call ==
    [name: {"transitionGate"}, arg: Gate, text: Summaries \cup {NULL, Undefined}]
    \cup [name: {"updateNotes"}, arg: {"none"}, text: Notes \cup {NULL}]
    \cup [name: {"setRetroSummary"}, arg: {"none"}, text: Summaries \cup {NULL}]
    \cup [name: {"acknowledgeImplementation"}, arg: {"none"},
          text: Notes \cup {NULL, Undefined}]
    \cup [name: {"completeVerification"}, arg: {"ack", "skip-ack"}, text: {Undefined}]
    \cup [name: {"requireGate"}, arg: Gate, text: {Undefined}]
    \cup [name: {"append"}, arg: EventType, text: {Undefined}]
    \cup [name: {"reply"}, arg: {"none"}, text: {Undefined}]

TransitionGate(g, retro) == [name |-> "transitionGate", arg |-> g, text |-> retro]
UpdateNotes(t)           == [name |-> "updateNotes", arg |-> "none", text |-> t]
SetRetroSummary(t)       == [name |-> "setRetroSummary", arg |-> "none", text |-> t]
Acknowledge(t)           == [name |-> "acknowledgeImplementation", arg |-> "none", text |-> t]
CompleteVerification(w)  == [name |-> "completeVerification", arg |-> w, text |-> Undefined]
RequireGate(g)           == [name |-> "requireGate", arg |-> g, text |-> Undefined]
AppendEvent(e)           == [name |-> "append", arg |-> e, text |-> Undefined]

(* A model call with the AGENT_REPLY it logs: content no property is about, *)
(* but it takes time and it can fail.  Replies in a row are one.            *)
Reply == [name |-> "reply", arg |-> "none", text |-> Undefined]

(* PATCH: a target gate with or without notes, else notes, else a summary. *)
(* transitionGate looks at the summary only when the target is DONE.       *)
PatchFlows ==
    LET moves == {TransitionGate(g, Undefined) : g \in Gate}
                 \cup {TransitionGate("DONE", t) : t \in Summaries \cup {NULL}}
        notes == {UpdateNotes(n) : n \in Notes \cup {NULL}}
    IN  {<<c>> : c \in moves \cup notes}
        \cup {<<c, d>> : c \in moves, d \in notes}
        \cup {<<SetRetroSummary(t)>> : t \in Summaries \cup {NULL}}

IntroFlow ==
    <<RequireGate("A"), Reply, AppendEvent("kickoff_complete"),
      TransitionGate("B", Undefined), Reply>>

(* Mutant: the finish does not look at the gate. *)
FinishFlowAnywhere(retro) ==
    <<Reply, AppendEvent("review_passed"),
      TransitionGate("D", Undefined), Reply, TransitionGate("DONE", retro),
      AppendEvent("retro_complete")>>

FinishFlow(retro) ==
    <<RequireGate("C"), Reply, AppendEvent("review_passed"),
      TransitionGate("D", Undefined), Reply, TransitionGate("DONE", retro),
      AppendEvent("retro_complete")>>

Flows ==
    [patch |-> PatchFlows,
     verify |-> {<<CompleteVerification("ack")>>},
     implementation_ready |->
        {<<Acknowledge(n), AppendEvent("implementation_acknowledged")>> : 
              n \in Notes \cup {NULL, Undefined}},
     run_scenario |-> {IntroFlow},
     run_scenario_skip_wait |->
        {IntroFlow \o <<CompleteVerification("skip-ack"), Reply>> \o FinishFlow(t) : t \in Summaries},
     run_scenario_finish |-> {FinishFlow(t) : t \in Summaries}]

----------------------------------------------------------------------------
(* Handlers *)

Stage == {"idle", "next", "pinging", "saving", "updating"}

Check == {"acknowledged", "skipped", "verified"}

Idle == [stage |-> "idle", todo |-> <<>>, copy |-> FreshRow, columns |-> {}]

Awaiting(todo) ==
    IF todo = <<>> THEN Idle
    ELSE [stage |-> "next", todo |-> todo, copy |-> FreshRow, columns |-> {}]

Init ==
    /\ row = FreshRow
    /\ requests = [r \in Requests |-> Idle]
    /\ events = {}
    /\ passed = {}

At(r, stage, name) ==
    /\ requests[r].stage = stage
    /\ Head(requests[r].todo).name = name

Return(r)  == requests' = [requests EXCEPT ![r] = Awaiting(Tail(@.todo))]
Abandon(r) == requests' = [requests EXCEPT ![r] = Idle]
Save(r, copy) ==
    requests' = [requests EXCEPT ![r].stage = "saving", ![r].copy = copy]

(* A request arrives. *)
Begin(r) ==
    /\ requests[r].stage = "idle"
    /\ \E e \in Endpoints : \E flow \in Flows[e] :
          requests' = [requests EXCEPT ![r] = Awaiting(flow)]
    /\ UNCHANGED <<row, events, passed>>

(* transitionGate reads the row: already there, refused, or a move to save. *)
TransitionGateReads(r) ==
    LET call == Head(requests[r].todo) IN
    /\ At(r, "next", "transitionGate")
    /\ \/ row.currentGate = call.arg /\ Return(r)
       \/ /\ row.currentGate # call.arg
          /\ call.arg \notin Allowed[row.currentGate]
          /\ Abandon(r)
       \/ /\ call.arg \in Allowed[row.currentGate]
          /\ Len(row.gateHistory) < MaxHistory
          /\ \E at \in Instants : Save(r, Transitioned(row, call.arg, call.text, at))
    /\ UNCHANGED <<row, events, passed>>

UpdateNotesReads(r) ==
    /\ At(r, "next", "updateNotes")
    /\ Save(r, [row EXCEPT !.implementationNotes = Head(requests[r].todo).text])
    /\ UNCHANGED <<row, events, passed>>

SetRetroSummaryReads(r) ==
    /\ At(r, "next", "setRetroSummary")
    /\ Save(r, [row EXCEPT !.retroSummary = Head(requests[r].todo).text])
    /\ UNCHANGED <<row, events, passed>>

(* Mutant: acknowledgeImplementation at any gate. *)
AcknowledgeAnywhere(r) ==
    LET notes == Head(requests[r].todo).text IN
    /\ At(r, "next", "acknowledgeImplementation")
    /\ \E at \in Instants : Save(r, Acknowledged(row, notes, at))
    /\ passed' = passed \cup {"acknowledged"}
    /\ UNCHANGED <<row, events>>

AcknowledgeImplementationReads(r) ==
    LET notes == Head(requests[r].todo).text IN
    /\ At(r, "next", "acknowledgeImplementation")
    /\ \/ row.currentGate # "B" /\ Abandon(r) /\ UNCHANGED passed
       \/ /\ row.currentGate = "B"
          /\ \E at \in Instants : Save(r, Acknowledged(row, notes, at))
          /\ passed' = passed \cup {"acknowledged"}
    /\ UNCHANGED <<row, events>>

(* Mutant: completeVerification forgets the acknowledgement. *)
CompleteVerificationUnacknowledged(r) ==
    LET skipAck == Head(requests[r].todo).arg = "skip-ack" IN
    /\ At(r, "next", "completeVerification")
    /\ \/ row.currentGate # "B" /\ Abandon(r) /\ UNCHANGED passed
       \/ /\ row.currentGate = "B"
          /\ requests' = [requests EXCEPT ![r].stage = "pinging", ![r].copy = row]
          /\ passed' = IF skipAck THEN passed \cup {"skipped"} ELSE passed
    /\ UNCHANGED <<row, events>>

(* completeVerification reads the row and, before it awaits the database,  *)
(* checks the gate and the acknowledgement in what it read.                *)
CompleteVerificationReads(r) ==
    LET skipAck == Head(requests[r].todo).arg = "skip-ack" IN
    /\ At(r, "next", "completeVerification")
    /\ \/ /\ \/ row.currentGate # "B"
             \/ ~skipAck /\ row.implementationAcknowledgedAt = NULL
          /\ Abandon(r)
          /\ UNCHANGED passed
       \/ /\ row.currentGate = "B"
          /\ skipAck \/ row.implementationAcknowledgedAt # NULL
          /\ requests' = [requests EXCEPT ![r].stage = "pinging", ![r].copy = row]
          /\ passed' = IF skipAck THEN passed \cup {"skipped"} ELSE passed
    /\ UNCHANGED <<row, events>>

(* pingDb answers and the contract files are there. *)
VerificationPasses(r) ==
    LET copy == requests[r].copy IN
    /\ At(r, "pinging", "completeVerification")
    /\ Len(copy.gateHistory) < MaxHistory
    /\ \E at \in Instants : Save(r, PushHistory(copy, "C", "verify_passed", at))
    /\ passed' = passed \cup {"verified"}
    /\ UNCHANGED <<row, events>>

(* save reads the row again to see which columns the copy would change. *)
SaveCompares(r) ==
    LET columns == Diff(requests[r].copy, row) IN
    /\ requests[r].stage = "saving"
    /\ IF columns = {} THEN Return(r)
       ELSE requests' = [requests EXCEPT ![r].stage = "updating", ![r].columns = columns]
    /\ UNCHANGED <<row, events, passed>>

SaveUpdates(r) ==
    /\ requests[r].stage = "updating"
    /\ row' = Overlay(row, requests[r].copy, requests[r].columns)
    /\ Return(r)
    /\ UNCHANGED <<events, passed>>

(* runIntro and runFinish look at the gate before they start. *)
RequireGateReads(r) ==
    LET gate == Head(requests[r].todo).arg IN
    /\ At(r, "next", "requireGate")
    /\ IF row.currentGate = gate THEN Return(r) ELSE Abandon(r)
    /\ UNCHANGED <<row, events, passed>>

ReplyArrives(r) ==
    /\ At(r, "next", "reply")
    /\ Return(r)
    /\ UNCHANGED <<row, events, passed>>

EventAppended(r) ==
    /\ At(r, "next", "append")
    /\ events' = events \cup {Head(requests[r].todo).arg}
    /\ Return(r)
    /\ UNCHANGED <<row, passed>>

(* An awaited call rejects, or the process dies: the rest is never done. *)
Fail(r) ==
    /\ requests[r].stage # "idle"
    /\ Abandon(r)
    /\ UNCHANGED <<row, events, passed>>

Step(r) ==
    \/ TransitionGateReads(r)
    \/ UpdateNotesReads(r)
    \/ SetRetroSummaryReads(r)
    \/ AcknowledgeImplementationReads(r)
    \/ CompleteVerificationReads(r)
    \/ VerificationPasses(r)
    \/ SaveCompares(r)
    \/ SaveUpdates(r)
    \/ RequireGateReads(r)
    \/ ReplyArrives(r)
    \/ EventAppended(r)

Next == \E r \in Requests : Begin(r) \/ Step(r) \/ Fail(r)

Spec == Init /\ [][Next]_vars

----------------------------------------------------------------------------
(* Properties *)

Handler == [stage: Stage, todo: Seq(Call), copy: Row, columns: SUBSET Columns]

(* The row and every handler's copy of it are rows, and a handler that is  *)
(* doing something has a call to finish.                                   *)
TypeOK ==
    /\ row \in Row
    /\ requests \in [Requests -> Handler]
    /\ events \subseteq EventType
    /\ passed \subseteq Check
    /\ \A r \in Requests : requests[r].stage # "idle" => requests[r].todo # <<>>

Checked(r, checks) ==
    r.currentGate \in Beyond =>
        /\ "verified" \in checks
        /\ "acknowledged" \in checks \/ "skipped" \in checks

(* However old the copies that handlers write back, and in whatever order, *)
(* the row never shows a gate beyond B unless a verification has succeeded *)
(* (B to C "is only via verify") that found the learner's acknowledgement  *)
(* or came from the demo endpoint, which skips it.                         *)
NoUncheckedGate == Checked(row, passed)

(* The agents' log never tells of a phase the session has not reached:     *)
(* no review or retrospective before a verification succeeded, no          *)
(* retrospective before a review, no acknowledgement nobody gave.          *)
TimelineFollowsGates ==
    /\ "review_passed" \in events => "verified" \in passed
    /\ "retro_complete" \in events => "review_passed" \in events
    /\ "implementation_acknowledged" \in events => "acknowledged" \in passed

(* The history leads from A to the current gate, rung by rung.  The        *)
(* handlers keep this when they run one after the other; the columns of    *)
(* two overlapping saves can come from different copies.                   *)
HistoryLeadsToGate ==
    LET h == row.gateHistory IN
    /\ \A i \in 1..Len(h) : Rung(h[i]) /\ h[i].from = (IF i = 1 THEN "A" ELSE h[i - 1].to)
    /\ row.currentGate = IF h = <<>> THEN "A" ELSE h[Len(h)].to

(* Run one after the other, with failures at any await, the handlers keep  *)
(* the promise of GateLadder: the gate never falls back, and an            *)
(* acknowledgement, once stored, stays.                                    *)
Ladder == INSTANCE GateLadder WITH
    gate <- row.currentGate,
    history <- row.gateHistory,
    acknowledgedAt <- row.implementationAcknowledgedAt,
    DemoOffered <- "run_scenario_skip_wait" \in Endpoints

ImplementsLadder == Ladder!Spec

(* "verify is only allowed when currentGate is B": the step in which a     *)
(* verification takes effect finds the row at B.  The code checks the gate *)
(* before it awaits the database ping and saves after it.                  *)
VerifyOnlyFromB ==
    [][\A r \in Requests :
          SaveUpdates(r) /\ At(r, "updating", "completeVerification")
              => row.currentGate = "B"]_vars

==============================================================================
