---------------------------- MODULE UnifiedTimeline ----------------------------
(***************************************************************************)
(* The timeline of a session (integration-events.controller.ts): the       *)
(* newest integration events, from SQLite, and the rows of Postgres, most  *)
(* of which mirror those events (integration-timeline-bridge.service.ts),  *)
(* each in an array of its own and both merged in a third                  *)
(* (unified-timeline-merge.util.ts).                                       *)
(*                                                                         *)
(* An event is logged with the time it has; its mirror is written after an *)
(* await and may fail.  A request reads the log, awaits Postgres, and      *)
(* merges what it has then.  Both clocks are taken to agree.               *)
(***************************************************************************)
EXTENDS Naturals, Sequences, FiniteSets, Arrangements

CONSTANTS
    LoggedTypes,    \* the types of the events logged
    TypeFilters,    \* what "types" may ask for: sets of event types; {} asks for all
    Limits,         \* what "limit" may ask for
    MaxEvents, MaxTime  \* bounds on the log and on the time (model bounds)

VARIABLES
    clock,
    log,        \* integration_events, in the order of insertion
    mirror,     \* collaboration_events of the session, in the order of createdAt
    publishing, \* the events whose mirror is being written, as positions in the log
    request     \* the request in progress, or the last one: the events it read, the
                \* rows Postgres gave, and the merged array of its answer

vars == <<clock, log, mirror, publishing, request>>

MirrorTypes == {"contract_violation", "review_passed", "supervisor_route",
                "code_delta_analyzed", "agent_reply"}

EventTypes == {"VALIDATION_FAILED", "VALIDATION_LOOP_DETECTED", "VALIDATION_PASSED", "PR_OPENED",
               "PR_UPDATED", "PR_MERGED", "CODE_DELTA_ANALYZED", "ORCHESTRATION_STARTED",
               "ORCHESTRATION_COMPLETED", "VFS_SNAPSHOT_CREATED", "VFS_APPROVED",
               "CONTRACT_CHANGED", "AGENT_REPLY"}

NoRequest == [pc |-> "none", types |-> {}, order |-> "desc", sources |-> "both",
              window |-> <<>>, seen |-> <<>>, answer |-> <<>>]

Init ==
    /\ clock = 0
    /\ log = <<>>
    /\ mirror = <<>>
    /\ publishing = {}
    /\ request = NoRequest

----------------------------------------------------------------------------
(* Events and their mirrors *)

(* IntegrationTimelineBridgeService.map *)
MirrorType(type) ==
    CASE type \in {"VALIDATION_FAILED", "VALIDATION_LOOP_DETECTED"} -> "contract_violation"
      [] type = "VALIDATION_PASSED" -> "review_passed"
      [] type \in {"PR_OPENED", "PR_UPDATED", "PR_MERGED", "ORCHESTRATION_STARTED",
                   "ORCHESTRATION_COMPLETED"} -> "supervisor_route"
      [] type = "CODE_DELTA_ANALYZED" -> "code_delta_analyzed"
      [] OTHER -> "agent_reply"

Tick ==
    /\ clock < MaxTime
    /\ clock' = clock + 1
    /\ UNCHANGED <<log, mirror, publishing, request>>

LogEvent(type) ==
    /\ Len(log) < MaxEvents
    /\ log' = Append(log, [type |-> type, time |-> clock, event |-> Len(log) + 1])
    /\ publishing' = publishing \cup {Len(log) + 1}
    /\ UNCHANGED <<clock, mirror, request>>

MirrorIfApplicable(i) ==
    /\ i \in publishing
    /\ publishing' = publishing \ {i}
    /\ \/ mirror' = Append(mirror, [type |-> MirrorType(log[i].type), time |-> clock, event |-> i])
       \/ UNCHANGED mirror
    /\ UNCHANGED <<clock, log, request>>

----------------------------------------------------------------------------
(* Requests *)

(* listIntegrationEvents: newest first; the limit counts before the filter. *)
Newest(limit) ==
    LET n == IF limit < Len(log) THEN limit ELSE Len(log)
    IN  [i \in 1..n |-> log[Len(log) + 1 - i]]

(* matchesEventTypeTokens *)
OfTypes(rows, types) ==
    Kept(rows, {i \in DOMAIN rows : types = {} \/ rows[i].type \in types})

(* A row of the answer: one of the log or of Postgres, and where it is from. *)
Row(r, source) == [type |-> r.type, time |-> r.time, event |-> r.event, source |-> source]

From(source, rows) == [i \in DOMAIN rows |-> Row(rows[i], source)]

Rows(events, pg) == From("sqlite", events) \o From("postgres", pg)

(* Mutant: the newest first, whatever order is asked for. *)
PrecedesAlwaysNewest(order, a, b) == a.time > b.time

Precedes(order, a, b) ==
    \/ order = "asc" /\ a.time < b.time
    \/ order = "desc" /\ a.time > b.time

(* Array.prototype.sort is stable: rows of one time stay in their order. *)
StableSort(rows, order) ==
    LET Before(i, j) == \/ Precedes(order, rows[i], rows[j])
                        \/ rows[i].time = rows[j].time /\ i < j
    IN  Arranged(rows, [i \in DOMAIN rows |-> {j \in DOMAIN rows : Before(j, i)}])

(* integrationEvents and postgresTimeline of the answer *)
EventsAsked(window, r) == IF r.sources = "postgres" THEN <<>> ELSE OfTypes(window, r.types)

RowsAsked(pg, r) == IF r.sources = "sqlite" THEN <<>> ELSE OfTypes(pg, r.types)

(* The column createdAt of the entity: the rows come from a service of the *)
(* same process, and nothing makes strings of their dates.                 *)
CreatedAtOf(r) == "Date"

(* coercePostgresTimelineRows: a row whose date is not a string is left out. *)
Coerced(rows) == Kept(rows, {i \in DOMAIN rows : CreatedAtOf(rows[i]) = "string"})

(* mergedTimeline of the answer *)
Merged(window, pg, r) ==
    StableSort(Rows(EventsAsked(window, r), Coerced(RowsAsked(pg, r))), r.order)

TimelineReadsLog(limit, types, order, sources) ==
    /\ request.pc # "waiting"
    /\ request' = [NoRequest EXCEPT !.pc = "waiting", !.types = types, !.order = order,
                                    !.sources = sources, !.window = Newest(limit)]
    /\ UNCHANGED <<clock, log, mirror, publishing>>

(* Postgres may not answer, or not know the session: the answer says so and *)
(* shows the events alone.                                                 *)
TimelineAnswers(pg) ==
    /\ request.pc = "waiting"
    /\ request' = [request EXCEPT !.pc = "answered", !.seen = pg,
                                  !.answer = Merged(request.window, pg, request)]
    /\ UNCHANGED <<clock, log, mirror, publishing>>

Next ==
    \/ Tick
    \/ \E type \in LoggedTypes : LogEvent(type)
    \/ \E i \in 1..MaxEvents : MirrorIfApplicable(i)
    \/ \E limit \in Limits, types \in TypeFilters, order \in {"asc", "desc"},
          sources \in {"both", "sqlite", "postgres"} :
          TimelineReadsLog(limit, types, order, sources)
    \/ TimelineAnswers(mirror) \/ TimelineAnswers(<<>>)

Spec == Init /\ [][Next]_vars

----------------------------------------------------------------------------
(* Properties *)

(* The log, the mirror and the request keep their types. *)
TypeOK ==
    /\ clock \in 0..MaxTime
    /\ log \in Seq([type: LoggedTypes, time: 0..MaxTime, event: 1..MaxEvents])
    /\ mirror \in Seq([type: MirrorTypes, time: 0..MaxTime, event: 1..MaxEvents])
    /\ publishing \subseteq DOMAIN log
    /\ request.pc \in {"none", "waiting", "answered"}

Elements(rows) == {rows[i] : i \in DOMAIN rows}

(* The rows of one source that a request asks for, as an answer shows them. *)
Asked(rows, source) ==
    {Row(r, source) : r \in
        {q \in Elements(rows) : request.sources \in {"both", source}
                                /\ (request.types = {} \/ q.type \in request.types)}}

(* A merged answer shows each event of the window that was asked for, and  *)
(* nothing twice that was not asked for, by time, and the younger of two   *)
(* events of one time first.  Log and Postgres are read at two moments;    *)
(* yet, when all is asked for, each row of postgresTimeline mirrors an     *)
(* event that is shown and no younger, or one beyond the limit, or one     *)
(* that was logged since.                                                  *)
TimelineTellsTheStory ==
    LET answer == request.answer
        events == Asked(request.window, "sqlite")
        mirrors == Asked(request.seen, "postgres")
    IN  request.pc = "answered" =>
            /\ events \subseteq Elements(answer) /\ Elements(answer) \subseteq events \cup mirrors
            /\ \A i, j \in DOMAIN answer : i < j =>
                  /\ answer[i] # answer[j]
                  /\ request.order = "asc" => answer[i].time <= answer[j].time
                  /\ request.order = "desc" => answer[i].time >= answer[j].time
                  /\ answer[i].time = answer[j].time /\ {answer[i], answer[j]} \subseteq events =>
                        answer[i].event > answer[j].event
            /\ request.sources = "both" /\ request.types = {} =>
                  \A m \in mirrors :
                      \/ \E e \in events : e.event = m.event /\ e.time <= m.time
                      \/ \A e \in events : e.event < m.event
                      \/ \A e \in events : e.event > m.event

----------------------------------------------------------------------------
(* The inductive invariant of the proofs. *)

EventRow == [type: LoggedTypes, time: 0..MaxTime, event: 1..MaxEvents]
MirrorRow == [type: MirrorTypes, time: 0..MaxTime, event: 1..MaxEvents]
AnswerRow == [type: LoggedTypes \cup MirrorTypes, time: 0..MaxTime, event: 1..MaxEvents,
              source: {"sqlite", "postgres"}]

(* An event is its place in the log, and no younger than the clock. *)
LogIsNumbered == \A i \in DOMAIN log : log[i].event = i /\ log[i].time <= clock

(* A mirror is of an event that was logged before it. *)
MirrorFollowsLog ==
    \A k \in DOMAIN mirror :
        /\ mirror[k].event \in DOMAIN log
        /\ log[mirror[k].event].time <= mirror[k].time

(* What a request has read was in the log and in Postgres: of the log the  *)
(* last events up to one, without a gap.                                   *)
RequestReadsBoth ==
    /\ request \in [pc: {"none", "waiting", "answered"}, types: TypeFilters \cup {{}},
                    order: {"asc", "desc"}, sources: {"both", "sqlite", "postgres"},
                    window: Seq(EventRow), seen: Seq(MirrorRow), answer: Seq(AnswerRow)]
    /\ \A i \in DOMAIN request.window : \E j \in DOMAIN log : request.window[i] = log[j]
    /\ \A i \in DOMAIN request.window :
          request.window[i].event = request.window[1].event + 1 - i
    /\ \A k \in DOMAIN request.seen : \E l \in DOMAIN mirror : request.seen[k] = mirror[l]
    /\ request.pc = "answered" =>
          request.answer = Merged(request.window, request.seen, request)

IInv == TypeOK /\ LogIsNumbered /\ MirrorFollowsLog /\ RequestReadsBoth

===============================================================================
