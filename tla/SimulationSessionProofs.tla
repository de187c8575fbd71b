----------------------- MODULE SimulationSessionProofs -----------------------
(***************************************************************************)
(* For any number of overlapping handlers, any timestamps and any texts:   *)
(* SimulationSession's variables keep their types, and no row is beyond    *)
(* gate B without the checks that lead there.                              *)
(***************************************************************************)
EXTENDS SimulationSession, TLAPS

----------------------------------------------------------------------------
(* The inductive invariant.  NoUncheckedGate speaks of the row alone; a    *)
(* handler can write its copy back at any time, so the copies must be as   *)
(* innocent as the row, and a copy that waits for the ping must already    *)
(* have what a verification needs.                                         *)

Innocent(r, checks) ==
    /\ Checked(r, checks)
    /\ r.implementationAcknowledgedAt # NULL => "acknowledged" \in checks

ReadyToPass(h, checks) ==
    h.stage = "pinging" =>
        /\ h.copy.currentGate = "B"
        /\ h.copy.implementationAcknowledgedAt # NULL \/ "skipped" \in checks

IInv ==
    /\ Innocent(row, passed)
    /\ \A r \in Requests :
          Innocent(requests[r].copy, passed) /\ ReadyToPass(requests[r], passed)

----------------------------------------------------------------------------
(* Every endpoint's flow is a nonempty sequence of calls. *)
LEMMA CallsAreCalls ==
    /\ \A g \in Gate, t \in Summaries \cup {NULL, Undefined} : TransitionGate(g, t) \in Call
    /\ \A n \in Notes \cup {NULL} : UpdateNotes(n) \in Call
    /\ \A t \in Summaries \cup {NULL} : SetRetroSummary(t) \in Call
    /\ \A n \in Notes \cup {NULL, Undefined} : Acknowledge(n) \in Call
    /\ \A w \in {"ack", "skip-ack"} : CompleteVerification(w) \in Call
    /\ \A g \in Gate : RequireGate(g) \in Call
    /\ \A e \in EventType : AppendEvent(e) \in Call
    /\ Reply \in Call
BY DEF TransitionGate, UpdateNotes, SetRetroSummary, Acknowledge, CompleteVerification,
       RequireGate, AppendEvent, Reply, Call

LEMMA FlowsAreCalls ==
    ASSUME NEW e \in Endpoints, NEW flow \in Flows[e]
    PROVE  flow \in Seq(Call) /\ flow # <<>>
<1>1. e \in EndpointNames
  BY SessionAssumption
<1>2. "A" \in Gate /\ "B" \in Gate /\ "C" \in Gate /\ "D" \in Gate /\ "DONE" \in Gate
  BY DEF Gate
<1>3. /\ "kickoff_complete" \in EventType /\ "review_passed" \in EventType
      /\ "retro_complete" \in EventType /\ "implementation_acknowledged" \in EventType
  BY DEF EventType
<1>4. IntroFlow \in Seq(Call) /\ IntroFlow # <<>>
  BY <1>2, <1>3, CallsAreCalls DEF IntroFlow
<1>5. ASSUME NEW t \in Summaries
      PROVE  FinishFlow(t) \in Seq(Call) /\ FinishFlow(t) # <<>>
  BY <1>2, <1>3, CallsAreCalls DEF FinishFlow
<1>6. CASE e = "patch"
  <2>1. flow \in PatchFlows
    BY <1>6 DEF Flows
  <2>2. \/ \E c \in Call : flow = <<c>>
        \/ \E c, d \in Call : flow = <<c, d>>
    BY <2>1, <1>2, CallsAreCalls DEF PatchFlows
  <2>3. ASSUME NEW c \in Call
        PROVE  <<c>> \in Seq(Call) /\ <<c>> # <<>>
    OBVIOUS
  <2>4. ASSUME NEW c \in Call, NEW d \in Call
        PROVE  <<c, d>> \in Seq(Call) /\ <<c, d>> # <<>>
    OBVIOUS
  <2>. QED
    BY <2>2, <2>3, <2>4
<1>7. CASE e = "verify"
  <2>1. flow = <<CompleteVerification("ack")>>
    BY <1>7 DEF Flows
  <2>. QED
    BY <2>1, CallsAreCalls
<1>8. CASE e = "implementation_ready"
  <2>1. PICK n \in Notes \cup {NULL, Undefined} :
           flow = <<Acknowledge(n), AppendEvent("implementation_acknowledged")>>
    BY <1>8 DEF Flows
  <2>. QED
    BY <2>1, <1>3, CallsAreCalls
<1>9. CASE e = "run_scenario"
  BY <1>9, <1>4 DEF Flows
<1>10. CASE e = "run_scenario_skip_wait"
  <2>1. PICK t \in Summaries :
           flow = IntroFlow \o <<CompleteVerification("skip-ack"), Reply>> \o FinishFlow(t)
    BY <1>10 DEF Flows
  <2>2. <<CompleteVerification("skip-ack"), Reply>> \in Seq(Call)
    BY CallsAreCalls
  <2>3. ASSUME NEW s1 \in Seq(Call), NEW s2 \in Seq(Call), NEW s3 \in Seq(Call), s1 # <<>>
        PROVE  (s1 \o s2 \o s3) \in Seq(Call) /\ (s1 \o s2 \o s3) # <<>>
    <3>1. Len(s1) > 0 /\ Len(s2) >= 0 /\ Len(s3) >= 0
      BY <2>3
    <3>2. (s1 \o s2) \in Seq(Call) /\ Len(s1 \o s2) = Len(s1) + Len(s2)
      OBVIOUS
    <3>3. (s1 \o s2 \o s3) \in Seq(Call) /\ Len(s1 \o s2 \o s3) = Len(s1) + Len(s2) + Len(s3)
      BY <3>2
    <3>. QED
      BY <3>1, <3>3
  <2>. QED
    BY <2>1, <2>2, <2>3, <1>4, <1>5
<1>11. CASE e = "run_scenario_finish"
  BY <1>11, <1>5 DEF Flows
<1>. QED
  BY <1>1, <1>6, <1>7, <1>8, <1>9, <1>10, <1>11 DEF EndpointNames

----------------------------------------------------------------------------
(* Rows made of rows are rows. *)
LEMMA OverlayIsRow ==
    ASSUME NEW r1 \in Row, NEW r2 \in Row, NEW columns
    PROVE  Overlay(r1, r2, columns) \in Row
BY DEF Overlay, Row

LEMMA PushedIsRow ==
    ASSUME NEW r \in Row, NEW to \in Gate, NEW reason \in Reason, NEW at \in Instants
    PROVE  PushHistory(r, to, reason, at) \in Row
<1> DEFINE entry == [at |-> at, from |-> r.currentGate, to |-> to, reason |-> reason]
           history == Append(r.gateHistory, entry)
<1>1. entry \in HistoryEntry
  BY DEF HistoryEntry, Row
<1>2. history \in Seq(HistoryEntry)
  BY <1>1 DEF Row
<1>3. PushHistory(r, to, reason, at) = [r EXCEPT !.gateHistory = history, !.currentGate = to]
  BY DEF PushHistory
<1> HIDE DEF history
<1>. QED
  BY <1>2, <1>3 DEF Row

LEMMA TransitionedIsRow ==
    ASSUME NEW r \in Row, NEW target \in Gate, NEW at \in Instants,
           NEW retro \in Summaries \cup {NULL, Undefined}
    PROVE  /\ Transitioned(r, target, retro, at) \in Row
           /\ Transitioned(r, target, retro, at).currentGate = target
           /\ Transitioned(r, target, retro, at).implementationAcknowledgedAt
                 \in {NULL, r.implementationAcknowledgedAt}
<1> DEFINE base == WithSummary(r, target, retro)
           acked == WithAcknowledgement(base, target)
<1>1. base \in Row /\ base.implementationAcknowledgedAt = r.implementationAcknowledgedAt
  BY DEF WithSummary, Row
<1>2. ASSUME NEW b \in Row
      PROVE  /\ WithAcknowledgement(b, target) \in Row
             /\ WithAcknowledgement(b, target).implementationAcknowledgedAt
                   \in {NULL, b.implementationAcknowledgedAt}
  BY DEF WithAcknowledgement, Row
<1>3. ASSUME NEW b \in Row
      PROVE  /\ PushHistory(b, target, "manual_patch", at) \in Row
             /\ PushHistory(b, target, "manual_patch", at).currentGate = target
             /\ PushHistory(b, target, "manual_patch", at).implementationAcknowledgedAt
                   = b.implementationAcknowledgedAt
  <2>1. PushHistory(b, target, "manual_patch", at) \in Row
    BY PushedIsRow DEF Reason
  <2>. QED
    BY <2>1 DEF PushHistory, Row
<1> HIDE DEF base
<1>4. acked \in Row /\ acked.implementationAcknowledgedAt
                           \in {NULL, r.implementationAcknowledgedAt}
  BY <1>1, <1>2
<1> HIDE DEF acked
<1>. QED
  BY <1>3, <1>4 DEF Transitioned, acked, base

LEMMA AcknowledgedIsRow ==
    ASSUME NEW r \in Row, NEW notes \in Notes \cup {NULL, Undefined}, NEW at \in Instants
    PROVE  /\ Acknowledged(r, notes, at) \in Row
           /\ Acknowledged(r, notes, at).currentGate = r.currentGate
<1>1. (IF notes = Undefined THEN r.implementationNotes ELSE notes) \in Notes \cup {NULL}
  BY DEF Row
<1>. QED
  BY <1>1 DEF Acknowledged, Row

----------------------------------------------------------------------------
(* Type correctness *)

LEMMA FreshRowIsRow == FreshRow \in Row
<1>1. <<>> \in Seq(HistoryEntry)
  OBVIOUS
<1>. QED
  BY <1>1 DEF FreshRow, Row, Gate

LEMMA AwaitingIsHandler ==
    ASSUME NEW todo \in Seq(Call)
    PROVE  /\ Awaiting(todo) \in Handler
           /\ Awaiting(todo).stage # "idle" => Awaiting(todo).todo # <<>>
           /\ Awaiting(todo).stage # "pinging"
           /\ Awaiting(todo).copy = FreshRow
BY FreshRowIsRow DEF Awaiting, Idle, Handler, Stage

LEMMA IdleIsHandler ==
    Idle \in Handler /\ Idle.stage = "idle" /\ Idle.copy = FreshRow
<1>1. <<>> \in Seq(Call)
  OBVIOUS
<1>. QED
  BY <1>1, FreshRowIsRow DEF Idle, Handler, Stage

(* The two ways a step can end a handler's call. *)
LEMMA ReturnIsHandler ==
    ASSUME TypeOK, NEW r \in Requests, requests[r].stage # "idle", Return(r)
    PROVE  /\ requests' \in [Requests -> Handler]
           /\ \A q \in Requests : requests'[q].stage # "idle" => requests'[q].todo # <<>>
           /\ requests'[r].stage # "pinging" /\ requests'[r].copy = FreshRow
           /\ \A q \in Requests \ {r} : requests'[q] = requests[q]
<1>1. requests[r] \in Handler /\ requests[r].todo # <<>>
  BY DEF TypeOK
<1>2. Tail(requests[r].todo) \in Seq(Call)
  BY <1>1 DEF Handler
<1>3. requests' = [requests EXCEPT ![r] = Awaiting(Tail(requests[r].todo))]
  BY DEF Return
<1>. QED
  BY <1>2, <1>3, AwaitingIsHandler DEF TypeOK

LEMMA AbandonIsHandler ==
    ASSUME TypeOK, NEW r \in Requests, Abandon(r)
    PROVE  /\ requests' \in [Requests -> Handler]
           /\ \A q \in Requests : requests'[q].stage # "idle" => requests'[q].todo # <<>>
           /\ requests'[r].stage # "pinging" /\ requests'[r].copy = FreshRow
           /\ \A q \in Requests \ {r} : requests'[q] = requests[q]
BY IdleIsHandler DEF Abandon, TypeOK

LEMMA SaveIsHandler ==
    ASSUME TypeOK, NEW r \in Requests, NEW copy \in Row,
           requests[r].stage # "idle", Save(r, copy)
    PROVE  /\ requests' \in [Requests -> Handler]
           /\ \A q \in Requests : requests'[q].stage # "idle" => requests'[q].todo # <<>>
           /\ requests'[r].stage # "pinging" /\ requests'[r].copy = copy
           /\ \A q \in Requests \ {r} : requests'[q] = requests[q]
<1>1. requests' = [requests EXCEPT ![r] = [requests[r] EXCEPT !.stage = "saving", !.copy = copy]]
  BY DEF Save, TypeOK
<1>. QED
  BY <1>1 DEF TypeOK, Handler, Stage

(* What a handler about to make the call `name` has in its hand. *)
LEMMA HeadIsCall ==
    ASSUME TypeOK, NEW r \in Requests, NEW stage \in Stage \ {"idle"}, NEW name, At(r, stage, name)
    PROVE  /\ requests[r] \in Handler /\ requests[r].stage # "idle"
           /\ Head(requests[r].todo) \in Call /\ Head(requests[r].todo).name = name
<1>1. requests[r] \in Handler /\ requests[r].stage = stage /\ requests[r].todo # <<>>
  BY DEF At, TypeOK
<1>2. Head(requests[r].todo) \in Call
  BY <1>1 DEF Handler
<1>. QED
  BY <1>1, <1>2 DEF At

LEMMA StepKeepsTypes ==
    ASSUME TypeOK, NEW r \in Requests, Begin(r) \/ Step(r) \/ Fail(r)
    PROVE  TypeOK'
<1> DEFINE call == Head(requests[r].todo)
<1>1. CASE Begin(r)
  <2>1. PICK e \in Endpoints : \E flow \in Flows[e] :
           requests' = [requests EXCEPT ![r] = Awaiting(flow)]
    BY <1>1 DEF Begin
  <2>2. PICK flow \in Flows[e] : requests' = [requests EXCEPT ![r] = Awaiting(flow)]
    BY <2>1
  <2>3. flow \in Seq(Call)
    BY FlowsAreCalls
  <2>. QED
    BY <1>1, <2>2, <2>3, AwaitingIsHandler DEF Begin, TypeOK
<1>2. CASE TransitionGateReads(r)
  <2>1. /\ requests[r].stage # "idle" /\ call \in Call /\ call.name = "transitionGate"
        /\ UNCHANGED <<row, events, passed>>
    BY <1>2, HeadIsCall DEF TransitionGateReads, Stage
  <2>2. CASE Return(r)
    BY <2>1, <2>2, ReturnIsHandler DEF TypeOK
  <2>3. CASE Abandon(r)
    BY <2>1, <2>3, AbandonIsHandler DEF TypeOK
  <2>4. CASE \E at \in Instants : Save(r, Transitioned(row, call.arg, call.text, at))
    <3>1. PICK at \in Instants : Save(r, Transitioned(row, call.arg, call.text, at))
      BY <2>4
    <3>2. Transitioned(row, call.arg, call.text, at) \in Row
      BY <2>1, TransitionedIsRow DEF Call, TypeOK
    <3>. QED
      BY <2>1, <3>1, <3>2, SaveIsHandler DEF TypeOK
  <2>. QED
    BY <1>2, <2>2, <2>3, <2>4 DEF TransitionGateReads
<1>3. CASE UpdateNotesReads(r)
  <2>1. /\ requests[r].stage # "idle" /\ call \in Call /\ call.name = "updateNotes"
        /\ Save(r, [row EXCEPT !.implementationNotes = call.text])
        /\ UNCHANGED <<row, events, passed>>
    BY <1>3, HeadIsCall DEF UpdateNotesReads, Stage
  <2>2. [row EXCEPT !.implementationNotes = call.text] \in Row
    BY <2>1 DEF Call, TypeOK, Row
  <2>. QED
    BY <2>1, <2>2, SaveIsHandler DEF TypeOK
<1>4. CASE SetRetroSummaryReads(r)
  <2>1. /\ requests[r].stage # "idle" /\ call \in Call /\ call.name = "setRetroSummary"
        /\ Save(r, [row EXCEPT !.retroSummary = call.text])
        /\ UNCHANGED <<row, events, passed>>
    BY <1>4, HeadIsCall DEF SetRetroSummaryReads, Stage
  <2>2. [row EXCEPT !.retroSummary = call.text] \in Row
    BY <2>1 DEF Call, TypeOK, Row
  <2>. QED
    BY <2>1, <2>2, SaveIsHandler DEF TypeOK
<1>5. CASE AcknowledgeImplementationReads(r)
  <2>1. /\ requests[r].stage # "idle" /\ call \in Call
        /\ call.name = "acknowledgeImplementation"
        /\ UNCHANGED <<row, events>>
        /\ passed' \in {passed, passed \cup {"acknowledged"}}
    BY <1>5, HeadIsCall DEF AcknowledgeImplementationReads, Stage
  <2>2. CASE Abandon(r)
    BY <2>1, <2>2, AbandonIsHandler DEF TypeOK, Check
  <2>3. CASE \E at \in Instants : Save(r, Acknowledged(row, call.text, at))
    <3>1. PICK at \in Instants : Save(r, Acknowledged(row, call.text, at))
      BY <2>3
    <3>2. Acknowledged(row, call.text, at) \in Row
      BY <2>1, AcknowledgedIsRow DEF Call, TypeOK
    <3>. QED
      BY <2>1, <3>1, <3>2, SaveIsHandler DEF TypeOK, Check
  <2>. QED
    BY <1>5, <2>2, <2>3 DEF AcknowledgeImplementationReads
<1>6. CASE CompleteVerificationReads(r)
  <2>1. /\ requests[r].stage # "idle" /\ requests[r] \in Handler /\ requests[r].todo # <<>>
        /\ UNCHANGED <<row, events>>
        /\ passed' \in {passed, passed \cup {"skipped"}}
    BY <1>6, HeadIsCall DEF CompleteVerificationReads, Stage, TypeOK
  <2>2. CASE Abandon(r)
    BY <2>1, <2>2, AbandonIsHandler DEF TypeOK, Check
  <2>3. CASE requests' = [requests EXCEPT ![r].stage = "pinging", ![r].copy = row]
    <3>1. requests' = [requests EXCEPT
                          ![r] = [requests[r] EXCEPT !.stage = "pinging", !.copy = row]]
      BY <2>3 DEF TypeOK
    <3>. QED
      BY <2>1, <3>1 DEF TypeOK, Handler, Stage, Check
  <2>. QED
    BY <1>6, <2>2, <2>3 DEF CompleteVerificationReads
<1>7. CASE VerificationPasses(r)
  <2>1. /\ requests[r].stage # "idle" /\ requests[r] \in Handler
        /\ UNCHANGED <<row, events>>
        /\ passed' = passed \cup {"verified"}
    BY <1>7, HeadIsCall DEF VerificationPasses, Stage
  <2>2. PICK at \in Instants : Save(r, PushHistory(requests[r].copy, "C", "verify_passed", at))
    BY <1>7 DEF VerificationPasses
  <2>3. PushHistory(requests[r].copy, "C", "verify_passed", at) \in Row
    BY <2>1, PushedIsRow DEF Handler, Gate, Reason
  <2>. QED
    BY <2>1, <2>2, <2>3, SaveIsHandler DEF TypeOK, Check
<1>8. CASE SaveCompares(r)
  <2>1. requests[r].stage = "saving" /\ UNCHANGED <<row, events, passed>>
    BY <1>8 DEF SaveCompares
  <2>2. CASE Return(r)
    BY <2>1, <2>2, ReturnIsHandler DEF TypeOK
  <2>3. CASE requests' = [requests EXCEPT ![r].stage = "updating",
                                          ![r].columns = Diff(requests[r].copy, row)]
    <3>1. requests' = [requests EXCEPT
                          ![r] = [requests[r] EXCEPT !.stage = "updating",
                                                     !.columns = Diff(requests[r].copy, row)]]
      BY <2>3 DEF TypeOK
    <3>2. Diff(requests[r].copy, row) \subseteq Columns
      BY DEF Diff
    <3> HIDE DEF Diff
    <3>. QED
      BY <2>1, <3>1, <3>2 DEF TypeOK, Handler, Stage
  <2>. QED
    BY <1>8, <2>2, <2>3 DEF SaveCompares
<1>9. CASE SaveUpdates(r)
  <2>1. /\ requests[r].stage = "updating" /\ Return(r)
        /\ row' = Overlay(row, requests[r].copy, requests[r].columns)
        /\ UNCHANGED <<events, passed>>
    BY <1>9 DEF SaveUpdates
  <2>2. row' \in Row
    BY <2>1, OverlayIsRow DEF TypeOK, Handler
  <2>. QED
    BY <2>1, <2>2, ReturnIsHandler DEF TypeOK
<1>10. CASE RequireGateReads(r)
  <2>1. requests[r].stage # "idle" /\ UNCHANGED <<row, events, passed>>
    BY <1>10 DEF RequireGateReads, At
  <2>2. CASE Return(r)
    BY <2>1, <2>2, ReturnIsHandler DEF TypeOK
  <2>3. CASE Abandon(r)
    BY <2>1, <2>3, AbandonIsHandler DEF TypeOK
  <2>. QED
    BY <1>10, <2>2, <2>3 DEF RequireGateReads
<1>11. CASE ReplyArrives(r)
  <2>1. requests[r].stage # "idle" /\ Return(r) /\ UNCHANGED <<row, events, passed>>
    BY <1>11 DEF ReplyArrives, At
  <2>. QED
    BY <2>1, ReturnIsHandler DEF TypeOK
<1>12. CASE EventAppended(r)
  <2>1. /\ requests[r].stage # "idle" /\ call \in Call /\ call.name = "append"
        /\ Return(r) /\ events' = events \cup {call.arg} /\ UNCHANGED <<row, passed>>
    BY <1>12, HeadIsCall DEF EventAppended, Stage
  <2>2. call.arg \in EventType
    BY <2>1 DEF Call
  <2>. QED
    BY <2>1, <2>2, ReturnIsHandler DEF TypeOK
<1>13. CASE Fail(r)
  <2>1. Abandon(r) /\ UNCHANGED <<row, events, passed>>
    BY <1>13 DEF Fail
  <2>. QED
    BY <2>1, AbandonIsHandler DEF TypeOK
<1>. QED
  BY <1>1, <1>2, <1>3, <1>4, <1>5, <1>6, <1>7, <1>8, <1>9, <1>10, <1>11, <1>12, <1>13
  DEF Step

(* Every variable keeps its type: rows and their copies are rows whatever  *)
(* mixture of columns the overlapping saves leave behind, and a handler    *)
(* that is not idle has a call to finish.                                  *)
THEOREM TypeCorrect == Spec => []TypeOK
<1>1. Init => TypeOK
  BY FreshRowIsRow, IdleIsHandler DEF Init, TypeOK
<1>2. TypeOK /\ [Next]_vars => TypeOK'
  <2> SUFFICES ASSUME TypeOK, [Next]_vars PROVE TypeOK'
    OBVIOUS
  <2>1. ASSUME NEW r \in Requests, Begin(r) \/ Step(r) \/ Fail(r) PROVE TypeOK'
    BY <2>1, StepKeepsTypes
  <2>2. CASE UNCHANGED vars
    BY <2>2 DEF vars, TypeOK
  <2>. QED
    BY <2>1, <2>2 DEF Next
<1>. QED
  BY <1>1, <1>2, PTL DEF Spec

----------------------------------------------------------------------------
(* The checks behind every gate beyond B *)

(* More checks passed cannot make an innocent row guilty. *)
LEMMA InnocenceIsStable ==
    ASSUME NEW r, NEW old, NEW new, Innocent(r, old), old \subseteq new
    PROVE  Innocent(r, new)
BY DEF Innocent, Checked

LEMMA FreshRowIsInnocent ==
    ASSUME NEW checks
    PROVE  Innocent(FreshRow, checks)
BY DEF Innocent, Checked, FreshRow, Beyond

(* A step in which the row is untouched and one handler gets an innocent   *)
(* copy keeps the invariant.                                               *)
LEMMA HandlerStepKeepsIInv ==
    ASSUME TypeOK, IInv, NEW r \in Requests,
           row' = row, passed \subseteq passed',
           Innocent(requests'[r].copy, passed'), ReadyToPass(requests'[r], passed'),
           \A q \in Requests \ {r} : requests'[q] = requests[q]
    PROVE  IInv'
<1>1. Innocent(row', passed')
  BY InnocenceIsStable DEF IInv
<1>2. ASSUME NEW q \in Requests \ {r}
      PROVE  Innocent(requests'[q].copy, passed') /\ ReadyToPass(requests'[q], passed')
  <2>1. Innocent(requests[q].copy, passed')
    BY InnocenceIsStable DEF IInv
  <2>2. ReadyToPass(requests[q], passed')
    BY DEF IInv, ReadyToPass
  <2>. QED
    BY <2>1, <2>2
<1>. QED
  BY <1>1, <1>2 DEF IInv

(* The handler answers or gives up: it forgets its copy. *)
LEMMA ForgettingKeepsIInv ==
    ASSUME TypeOK, IInv, NEW r \in Requests, row' = row, passed \subseteq passed',
           requests'[r].stage # "pinging", requests'[r].copy = FreshRow,
           \A q \in Requests \ {r} : requests'[q] = requests[q]
    PROVE  IInv'
<1>1. Innocent(requests'[r].copy, passed')
  BY FreshRowIsInnocent
<1>2. ReadyToPass(requests'[r], passed')
  BY DEF ReadyToPass
<1>. QED
  BY <1>1, <1>2, HandlerStepKeepsIInv

(* The handler makes an innocent copy and turns to save. *)
LEMMA SavingKeepsIInv ==
    ASSUME TypeOK, IInv, NEW r \in Requests, NEW copy \in Row, Innocent(copy, passed'),
           row' = row, passed \subseteq passed', requests[r].stage # "idle", Save(r, copy)
    PROVE  IInv'
<1>1. /\ requests'[r].stage # "pinging" /\ requests'[r].copy = copy
      /\ \A q \in Requests \ {r} : requests'[q] = requests[q]
  BY SaveIsHandler
<1>2. ReadyToPass(requests'[r], passed')
  BY <1>1 DEF ReadyToPass
<1>. QED
  BY <1>1, <1>2, HandlerStepKeepsIInv

(* The row takes some columns of an innocent copy. *)
LEMMA OverlayIsInnocent ==
    ASSUME NEW r1 \in Row, NEW r2 \in Row, NEW columns, NEW checks,
           Innocent(r1, checks), Innocent(r2, checks)
    PROVE  Innocent(Overlay(r1, r2, columns), checks)
<1> DEFINE r == Overlay(r1, r2, columns)
<1>1. /\ r.currentGate \in {r1.currentGate, r2.currentGate}
      /\ r.implementationAcknowledgedAt
            \in {r1.implementationAcknowledgedAt, r2.implementationAcknowledgedAt}
  BY DEF Overlay
<1> HIDE DEF r
<1>. QED
  BY <1>1 DEF Innocent, Checked, r

(* A move of the table leads beyond B only from beyond B. *)
LEMMA TransitionIsInnocent ==
    ASSUME NEW r \in Row, NEW target \in Allowed[r.currentGate], NEW at \in Instants,
           NEW retro \in Summaries \cup {NULL, Undefined}, NEW checks, Innocent(r, checks)
    PROVE  Innocent(Transitioned(r, target, retro, at), checks)
<1>1. target \in Gate /\ (target \in Beyond => r.currentGate \in Beyond)
  BY DEF Allowed, Gate, Beyond, Row
<1>2. /\ Transitioned(r, target, retro, at).currentGate = target
      /\ Transitioned(r, target, retro, at).implementationAcknowledgedAt
            \in {NULL, r.implementationAcknowledgedAt}
  BY <1>1, TransitionedIsRow
<1>. QED
  BY <1>1, <1>2 DEF Innocent, Checked

LEMMA StepKeepsIInv ==
    ASSUME TypeOK, IInv, NEW r \in Requests, Begin(r) \/ Step(r) \/ Fail(r)
    PROVE  IInv'
<1> DEFINE call == Head(requests[r].todo)
<1>1. CASE Begin(r)
  <2>1. PICK e \in Endpoints : \E flow \in Flows[e] :
           requests' = [requests EXCEPT ![r] = Awaiting(flow)]
    BY <1>1 DEF Begin
  <2>2. PICK flow \in Flows[e] : requests' = [requests EXCEPT ![r] = Awaiting(flow)]
    BY <2>1
  <2>3. flow \in Seq(Call)
    BY FlowsAreCalls
  <2>4. /\ requests'[r].stage # "pinging" /\ requests'[r].copy = FreshRow
        /\ \A q \in Requests \ {r} : requests'[q] = requests[q]
    BY <2>2, <2>3, AwaitingIsHandler DEF TypeOK
  <2>. QED
    BY <1>1, <2>4, ForgettingKeepsIInv DEF Begin
<1>2. CASE TransitionGateReads(r)
  <2>1. /\ requests[r].stage # "idle" /\ call \in Call /\ call.name = "transitionGate"
        /\ UNCHANGED <<row, events, passed>>
    BY <1>2, HeadIsCall DEF TransitionGateReads, Stage
  <2>2. CASE Return(r)
    BY <2>1, <2>2, ReturnIsHandler, ForgettingKeepsIInv
  <2>3. CASE Abandon(r)
    BY <2>1, <2>3, AbandonIsHandler, ForgettingKeepsIInv
  <2>4. CASE /\ call.arg \in Allowed[row.currentGate]
             /\ \E at \in Instants : Save(r, Transitioned(row, call.arg, call.text, at))
    <3>1. PICK at \in Instants : Save(r, Transitioned(row, call.arg, call.text, at))
      BY <2>4
    <3>2. call.arg \in Gate /\ call.text \in Summaries \cup {NULL, Undefined}
      BY <2>1 DEF Call
    <3>3. PICK copy \in Row : copy = Transitioned(row, call.arg, call.text, at)
      BY <3>2, TransitionedIsRow DEF TypeOK
    <3>4. Innocent(copy, passed')
      BY <2>1, <2>4, <3>2, <3>3, TransitionIsInnocent DEF TypeOK, IInv
    <3>. QED
      BY <2>1, <3>1, <3>3, <3>4, SavingKeepsIInv
  <2>. QED
    BY <1>2, <2>2, <2>3, <2>4 DEF TransitionGateReads
<1>3. CASE UpdateNotesReads(r)
  <2>1. /\ requests[r].stage # "idle" /\ call \in Call /\ call.name = "updateNotes"
        /\ Save(r, [row EXCEPT !.implementationNotes = call.text])
        /\ UNCHANGED <<row, events, passed>>
    BY <1>3, HeadIsCall DEF UpdateNotesReads, Stage
  <2>2. PICK copy \in Row : copy = [row EXCEPT !.implementationNotes = call.text]
    BY <2>1 DEF Call, TypeOK, Row
  <2>3. Innocent(copy, passed')
    BY <2>1, <2>2 DEF IInv, Innocent, Checked, TypeOK, Row
  <2>. QED
    BY <2>1, <2>2, <2>3, SavingKeepsIInv
<1>4. CASE SetRetroSummaryReads(r)
  <2>1. /\ requests[r].stage # "idle" /\ call \in Call /\ call.name = "setRetroSummary"
        /\ Save(r, [row EXCEPT !.retroSummary = call.text])
        /\ UNCHANGED <<row, events, passed>>
    BY <1>4, HeadIsCall DEF SetRetroSummaryReads, Stage
  <2>2. PICK copy \in Row : copy = [row EXCEPT !.retroSummary = call.text]
    BY <2>1 DEF Call, TypeOK, Row
  <2>3. Innocent(copy, passed')
    BY <2>1, <2>2 DEF IInv, Innocent, Checked, TypeOK, Row
  <2>. QED
    BY <2>1, <2>2, <2>3, SavingKeepsIInv
<1>5. CASE AcknowledgeImplementationReads(r)
  <2>1. /\ requests[r].stage # "idle" /\ call \in Call
        /\ call.name = "acknowledgeImplementation"
        /\ row' = row /\ passed \subseteq passed'
    BY <1>5, HeadIsCall DEF AcknowledgeImplementationReads, Stage
  <2>2. CASE Abandon(r)
    BY <2>1, <2>2, AbandonIsHandler, ForgettingKeepsIInv
  <2>3. CASE /\ row.currentGate = "B"
             /\ \E at \in Instants : Save(r, Acknowledged(row, call.text, at))
             /\ passed' = passed \cup {"acknowledged"}
    <3>1. PICK at \in Instants : Save(r, Acknowledged(row, call.text, at))
      BY <2>3
    <3>2. PICK copy \in Row : copy = Acknowledged(row, call.text, at)
      BY <2>1, AcknowledgedIsRow DEF Call, TypeOK
    <3>3. copy.currentGate = "B"
      BY <2>1, <2>3, <3>2, AcknowledgedIsRow DEF Call, TypeOK
    <3>4. Innocent(copy, passed')
      BY <2>3, <3>3 DEF Innocent, Checked, Beyond
    <3>. QED
      BY <2>1, <3>1, <3>2, <3>4, SavingKeepsIInv
  <2>. QED
    BY <1>5, <2>2, <2>3 DEF AcknowledgeImplementationReads
<1>6. CASE CompleteVerificationReads(r)
  <2>1. row' = row /\ passed \subseteq passed'
    BY <1>6 DEF CompleteVerificationReads
  <2>2. CASE Abandon(r)
    BY <2>1, <2>2, AbandonIsHandler, ForgettingKeepsIInv
  <2>3. CASE /\ row.currentGate = "B"
             /\ call.arg = "skip-ack" \/ row.implementationAcknowledgedAt # NULL
             /\ requests' = [requests EXCEPT ![r].stage = "pinging", ![r].copy = row]
             /\ passed' = IF call.arg = "skip-ack" THEN passed \cup {"skipped"} ELSE passed
    <3>1. /\ requests'[r].stage = "pinging" /\ requests'[r].copy = row
          /\ \A q \in Requests \ {r} : requests'[q] = requests[q]
      BY <2>3 DEF TypeOK, Handler
    <3>2. Innocent(requests'[r].copy, passed')
      BY <2>1, <3>1, InnocenceIsStable DEF IInv
    <3>3. ReadyToPass(requests'[r], passed')
      BY <2>3, <3>1 DEF ReadyToPass
    <3>. QED
      BY <2>1, <3>1, <3>2, <3>3, HandlerStepKeepsIInv
  <2>. QED
    BY <1>6, <2>2, <2>3 DEF CompleteVerificationReads
<1>7. CASE VerificationPasses(r)
  <2>1. /\ requests[r].stage = "pinging" /\ requests[r] \in Handler
        /\ row' = row /\ passed' = passed \cup {"verified"}
    BY <1>7, HeadIsCall DEF VerificationPasses, At, Stage
  <2>2. PICK at \in Instants : Save(r, PushHistory(requests[r].copy, "C", "verify_passed", at))
    BY <1>7 DEF VerificationPasses
  <2>3. PICK copy \in Row : copy = PushHistory(requests[r].copy, "C", "verify_passed", at)
    BY <2>1, PushedIsRow DEF Handler, Gate, Reason
  <2>4. copy.implementationAcknowledgedAt = requests[r].copy.implementationAcknowledgedAt
    BY <2>1, <2>3 DEF PushHistory, Handler, Row
  <2>5. Innocent(copy, passed')
    BY <2>1, <2>4 DEF IInv, ReadyToPass, Innocent, Checked
  <2>. QED
    BY <2>1, <2>2, <2>3, <2>5, SavingKeepsIInv
<1>8. CASE SaveCompares(r)
  <2>1. requests[r].stage = "saving" /\ row' = row /\ passed' = passed
    BY <1>8 DEF SaveCompares
  <2>2. CASE Return(r)
    BY <2>1, <2>2, ReturnIsHandler, ForgettingKeepsIInv
  <2>3. CASE requests' = [requests EXCEPT ![r].stage = "updating",
                                          ![r].columns = Diff(requests[r].copy, row)]
    <3> HIDE DEF Diff
    <3>1. /\ requests'[r].stage = "updating" /\ requests'[r].copy = requests[r].copy
          /\ \A q \in Requests \ {r} : requests'[q] = requests[q]
      BY <2>3 DEF TypeOK, Handler
    <3>2. Innocent(requests'[r].copy, passed') /\ ReadyToPass(requests'[r], passed')
      BY <2>1, <3>1 DEF IInv, ReadyToPass
    <3>. QED
      BY <2>1, <3>1, <3>2, HandlerStepKeepsIInv
  <2>. QED
    BY <1>8, <2>2, <2>3 DEF SaveCompares
<1>9. CASE SaveUpdates(r)
  <2>1. /\ requests[r].stage = "updating" /\ Return(r) /\ passed' = passed
        /\ row' = Overlay(row, requests[r].copy, requests[r].columns)
    BY <1>9 DEF SaveUpdates
  <2>2. Innocent(row', passed')
    BY <2>1, OverlayIsInnocent DEF IInv, TypeOK, Handler
  <2>3. /\ requests'[r].stage # "pinging" /\ requests'[r].copy = FreshRow
        /\ \A q \in Requests \ {r} : requests'[q] = requests[q]
    BY <2>1, ReturnIsHandler
  <2>4. ASSUME NEW q \in Requests
        PROVE  Innocent(requests'[q].copy, passed') /\ ReadyToPass(requests'[q], passed')
    <3>1. CASE q = r
      BY <2>3, <3>1, FreshRowIsInnocent DEF ReadyToPass
    <3>2. CASE q # r
      BY <2>1, <2>3, <3>2 DEF IInv
    <3>. QED
      BY <3>1, <3>2
  <2>. QED
    BY <2>2, <2>4 DEF IInv
<1>10. CASE RequireGateReads(r)
  <2>1. requests[r].stage # "idle" /\ row' = row /\ passed' = passed
    BY <1>10 DEF RequireGateReads, At
  <2>2. Return(r) \/ Abandon(r)
    BY <1>10 DEF RequireGateReads
  <2>. QED
    BY <2>1, <2>2, ReturnIsHandler, AbandonIsHandler, ForgettingKeepsIInv
<1>11. CASE ReplyArrives(r)
  BY <1>11, ReturnIsHandler, ForgettingKeepsIInv DEF ReplyArrives, At
<1>12. CASE EventAppended(r)
  BY <1>12, ReturnIsHandler, ForgettingKeepsIInv DEF EventAppended, At
<1>13. CASE Fail(r)
  BY <1>13, AbandonIsHandler, ForgettingKeepsIInv DEF Fail
<1>. QED
  BY <1>1, <1>2, <1>3, <1>4, <1>5, <1>6, <1>7, <1>8, <1>9, <1>10, <1>11, <1>12, <1>13
  DEF Step

(* For any number of overlapping handlers, however stale the copies they   *)
(* save: the row shows no gate beyond B unless a verification succeeded    *)
(* that found an acknowledgement or was told to skip it.                   *)
THEOREM GatesAreChecked == Spec => []NoUncheckedGate
<1>1. Init => IInv
  BY FreshRowIsInnocent, IdleIsHandler DEF Init, IInv, ReadyToPass
<1>2. TypeOK /\ IInv /\ [Next]_vars => IInv'
  <2> SUFFICES ASSUME TypeOK, IInv, [Next]_vars PROVE IInv'
    OBVIOUS
  <2>1. ASSUME NEW r \in Requests, Begin(r) \/ Step(r) \/ Fail(r) PROVE IInv'
    BY <2>1, StepKeepsIInv
  <2>2. CASE UNCHANGED vars
    BY <2>2 DEF vars, IInv
  <2>. QED
    BY <2>1, <2>2 DEF Next
<1>3. IInv => NoUncheckedGate
  BY DEF IInv, Innocent, NoUncheckedGate
<1>. QED
  BY <1>1, <1>2, <1>3, TypeCorrect, PTL DEF Spec

----------------------------------------------------------------------------
(* What the agents' log tells.  An entry is appended by a handler that has *)
(* made an earlier call of its flow: the invariant must say of every flow  *)
(* in progress that the earlier call is still to come or has had effect.   *)

Follows(todo, call, earlier) ==
    \A i \in DOMAIN todo :
        todo[i] = call => \E j \in DOMAIN todo : j < i /\ todo[j] \in earlier

Acknowledgements == {c \in Call : c.name = "acknowledgeImplementation"}

ReviewsFollow(todo) == Follows(todo, AppendEvent("review_passed"), {RequireGate("C")})
RetrosFollow(todo) ==
    Follows(todo, AppendEvent("retro_complete"), {AppendEvent("review_passed")})
ThanksFollow(todo) ==
    Follows(todo, AppendEvent("implementation_acknowledged"), Acknowledgements)

Backed(todo, checks, log) ==
    /\ "verified" \in checks \/ ReviewsFollow(todo)
    /\ "review_passed" \in log \/ RetrosFollow(todo)
    /\ "acknowledged" \in checks \/ ThanksFollow(todo)

(* A handler that saves has not looked at a gate or appended, and if it    *)
(* acknowledges it was let through.                                        *)
Earned(h, checks) ==
    h.stage \in {"saving", "updating"} =>
        /\ Head(h.todo).name \notin {"requireGate", "append"}
        /\ Head(h.todo).name = "acknowledgeImplementation" => "acknowledged" \in checks

LogInv ==
    /\ TimelineFollowsGates
    /\ \A r \in Requests : /\ Backed(requests[r].todo, passed, events)
                           /\ Earned(requests[r], passed)

LEMMA FollowsHead ==
    ASSUME NEW todo \in Seq(Call), todo # <<>>, NEW call, NEW earlier, Follows(todo, call, earlier)
    PROVE  Head(todo) # call
<1>1. 1 \in DOMAIN todo /\ DOMAIN todo = 1..Len(todo) /\ Head(todo) = todo[1]
  OBVIOUS
<1>2. ~ \E j \in DOMAIN todo : j < 1
  BY <1>1
<1>. QED
  BY <1>1, <1>2 DEF Follows

LEMMA FollowsTail ==
    ASSUME NEW todo \in Seq(Call), todo # <<>>, NEW call, NEW earlier,
           Follows(todo, call, earlier), Head(todo) \notin earlier
    PROVE  Follows(Tail(todo), call, earlier)
<1>1. PICK n \in Nat : n = Len(todo) - 1
  OBVIOUS
<1>2. PICK rest : rest = Tail(todo)
  OBVIOUS
<1>3. /\ DOMAIN todo = 1..(n + 1) /\ todo[1] \notin earlier
      /\ DOMAIN rest = 1..n /\ \A i \in 1..n : rest[i] = todo[i + 1]
  BY <1>1, <1>2
<1>4. ASSUME NEW i \in 1..n, rest[i] = call PROVE \E j \in 1..n : j < i /\ rest[j] \in earlier
  <2>1. i + 1 \in 1..(n + 1) /\ todo[i + 1] = call
    BY <1>3, <1>4
  <2>2. PICK j \in 1..(n + 1) : j < i + 1 /\ todo[j] \in earlier
    BY <1>3, <2>1 DEF Follows
  <2>3. j - 1 \in 1..n /\ j - 1 < i /\ rest[j - 1] = todo[j]
    BY <1>3, <2>2
  <2>. QED
    BY <2>2, <2>3
<1>. QED
  BY <1>2, <1>3, <1>4 DEF Follows

LEMMA FollowsConcat ==
    ASSUME NEW s \in Seq(Call), NEW t \in Seq(Call), NEW call, NEW earlier,
           Follows(s, call, earlier), Follows(t, call, earlier)
    PROVE  Follows(s \o t, call, earlier)
<1>1. PICK m \in Nat, n \in Nat : m = Len(s) /\ n = Len(t)
  OBVIOUS
<1>2. PICK c : c = s \o t
  OBVIOUS
<1>3. /\ DOMAIN s = 1..m /\ DOMAIN t = 1..n /\ DOMAIN c = 1..(m + n)
      /\ \A i \in 1..(m + n) : c[i] = IF i <= m THEN s[i] ELSE t[i - m]
  BY <1>1, <1>2
<1>4. ASSUME NEW i \in 1..(m + n), c[i] = call
      PROVE  \E j \in 1..(m + n) : j < i /\ c[j] \in earlier
  <2>1. CASE i <= m
    <3>1. i \in 1..m /\ s[i] = call
      BY <1>3, <1>4, <2>1
    <3>2. PICK j \in 1..m : j < i /\ s[j] \in earlier
      BY <1>3, <3>1 DEF Follows
    <3>3. j \in 1..(m + n) /\ c[j] = s[j]
      BY <1>3, <3>2
    <3>. QED
      BY <3>2, <3>3
  <2>2. CASE ~(i <= m)
    <3>1. i - m \in 1..n /\ t[i - m] = call
      BY <1>3, <1>4, <2>2
    <3>2. PICK j \in 1..n : j < i - m /\ t[j] \in earlier
      BY <1>3, <3>1 DEF Follows
    <3>3. j + m \in 1..(m + n) /\ j + m < i /\ c[j + m] = t[j]
      BY <1>3, <3>2
    <3>. QED
      BY <3>2, <3>3
  <2>. QED
    BY <2>1, <2>2
<1>. QED
  BY <1>2, <1>3, <1>4 DEF Follows

(* A flow without the call has nothing to follow. *)
LEMMA FollowsNothing ==
    ASSUME NEW todo, NEW call, NEW earlier, \A i \in DOMAIN todo : todo[i] # call
    PROVE  Follows(todo, call, earlier)
  BY DEF Follows

AppendsNothing(todo) ==
    \A i \in DOMAIN todo :
        todo[i] # AppendEvent("review_passed") /\ todo[i] # AppendEvent("retro_complete")
        /\ todo[i] # AppendEvent("implementation_acknowledged")

AllFollow(todo) == ReviewsFollow(todo) /\ RetrosFollow(todo) /\ ThanksFollow(todo)

LEMMA QuietFollows == ASSUME NEW todo, AppendsNothing(todo) PROVE AllFollow(todo)
  BY FollowsNothing DEF AllFollow, ReviewsFollow, RetrosFollow, ThanksFollow, AppendsNothing

LEMMA ConcatFollows ==
    ASSUME NEW s \in Seq(Call), NEW t \in Seq(Call), AllFollow(s), AllFollow(t)
    PROVE  AllFollow(s \o t)
  BY FollowsConcat DEF AllFollow, ReviewsFollow, RetrosFollow, ThanksFollow

(* Only appends append. *)
LEMMA CallsApart ==
    /\ \A n : AppendEvent(n).name = "append" /\ AppendEvent(n).arg = n
    /\ \A g, t : TransitionGate(g, t).name = "transitionGate" /\ TransitionGate(g, t).arg = g
    /\ \A n : UpdateNotes(n).name = "updateNotes" /\ UpdateNotes(n).arg = "none"
    /\ \A t : SetRetroSummary(t).name = "setRetroSummary" /\ SetRetroSummary(t).arg = "none"
    /\ \A n : Acknowledge(n).name = "acknowledgeImplementation" /\ Acknowledge(n).arg = "none"
    /\ \A w : CompleteVerification(w).name = "completeVerification" /\ CompleteVerification(w).arg = w
    /\ \A g : RequireGate(g).name = "requireGate" /\ RequireGate(g).arg = g
    /\ Reply.name = "reply" /\ Reply.arg = "none"
  BY DEF TransitionGate, UpdateNotes, SetRetroSummary, Acknowledge, CompleteVerification,
         RequireGate, AppendEvent, Reply

LEMMA IntroFollows == AllFollow(IntroFlow)
<1>1. DOMAIN IntroFlow = 1..5
  BY DEF IntroFlow
<1>2. /\ IntroFlow[1] = RequireGate("A") /\ IntroFlow[2] = Reply
      /\ IntroFlow[3] = AppendEvent("kickoff_complete")
      /\ IntroFlow[4] = TransitionGate("B", Undefined) /\ IntroFlow[5] = Reply
  BY DEF IntroFlow
<1>3. AppendsNothing(IntroFlow)
  <2>1. \A i \in 1..5 : i = 1 \/ i = 2 \/ i = 3 \/ i = 4 \/ i = 5
    OBVIOUS
  <2>2. \A i \in 1..5 : IntroFlow[i].name # "append" \/ IntroFlow[i].arg = "kickoff_complete"
    BY <1>2, <2>1, CallsApart
  <2>. QED
    BY <1>1, <2>2, CallsApart DEF AppendsNothing
<1>. QED
  BY <1>3, QuietFollows

LEMMA FinishFollows == ASSUME NEW retro PROVE AllFollow(FinishFlow(retro))
<1>1. PICK f : f = FinishFlow(retro)
  OBVIOUS
<1>2. DOMAIN f = 1..7
  BY <1>1 DEF FinishFlow
<1>3. /\ f[1] = RequireGate("C") /\ f[2] = Reply /\ f[3] = AppendEvent("review_passed")
      /\ f[4] = TransitionGate("D", Undefined) /\ f[5] = Reply
      /\ f[6] = TransitionGate("DONE", retro) /\ f[7] = AppendEvent("retro_complete")
  BY <1>1 DEF FinishFlow
<1>4. \A i \in 1..7 : i = 1 \/ i = 2 \/ i = 3 \/ i = 4 \/ i = 5 \/ i = 6 \/ i = 7
  OBVIOUS
<1>5. \A i \in 1..7 : f[i] = AppendEvent("review_passed") => i = 3
  BY <1>3, <1>4, CallsApart
<1>6. \A i \in 1..7 : f[i] = AppendEvent("retro_complete") => i = 7
  BY <1>3, <1>4, CallsApart
<1>7. \A i \in 1..7 : f[i] # AppendEvent("implementation_acknowledged")
  BY <1>3, <1>4, CallsApart
<1>8. ReviewsFollow(f)
  BY <1>2, <1>3, <1>5 DEF ReviewsFollow, Follows
<1>9. RetrosFollow(f)
  BY <1>2, <1>3, <1>6 DEF RetrosFollow, Follows
<1>10. ThanksFollow(f)
  BY <1>2, <1>7 DEF ThanksFollow, Follows
<1>. QED
  BY <1>1, <1>8, <1>9, <1>10 DEF AllFollow

LEMMA FlowsFollow == ASSUME NEW e \in Endpoints, NEW flow \in Flows[e] PROVE AllFollow(flow)
<1>1. e \in EndpointNames
  BY SessionAssumption
<1>2. ASSUME NEW c \in Call, c.name # "append" PROVE AllFollow(<<c>>)
  BY <1>2, QuietFollows, CallsApart DEF AppendsNothing
<1>3. CASE e = "patch"
  <2>1. flow \in PatchFlows
    BY <1>3 DEF Flows
  <2>2. \/ \E c \in Call : flow = <<c>> /\ c.name # "append"
        \/ \E c, d \in Call : flow = <<c, d>> /\ c.name # "append" /\ d.name # "append"
    <3>1. ASSUME NEW c \in {TransitionGate(g, Undefined) : g \in Gate}
                           \cup {TransitionGate("DONE", t) : t \in Summaries \cup {NULL}}
          PROVE  c \in Call /\ c.name # "append"
      BY CallsAreCalls, CallsApart DEF Gate
    <3>2. ASSUME NEW c \in {UpdateNotes(n) : n \in Notes \cup {NULL}}
          PROVE  c \in Call /\ c.name # "append"
      BY CallsAreCalls, CallsApart
    <3>3. ASSUME NEW t \in Summaries \cup {NULL}
          PROVE  SetRetroSummary(t) \in Call /\ SetRetroSummary(t).name # "append"
      BY CallsAreCalls, CallsApart
    <3>. QED
      BY <2>1, <3>1, <3>2, <3>3 DEF PatchFlows
  <2>3. ASSUME NEW c \in Call, NEW d \in Call, c.name # "append", d.name # "append"
        PROVE  AllFollow(<<c, d>>)
    <3>1. \A i \in DOMAIN <<c, d>> : <<c, d>>[i].name # "append"
      BY <2>3
    <3>. QED
      BY <3>1, QuietFollows, CallsApart DEF AppendsNothing
  <2>. QED
    BY <1>2, <2>2, <2>3
<1>4. CASE e = "verify"
  <2>1. flow = <<CompleteVerification("ack")>>
    BY <1>4 DEF Flows
  <2>. QED
    BY <1>2, <2>1, CallsAreCalls, CallsApart
<1>5. CASE e = "implementation_ready"
  <2>1. PICK n \in Notes \cup {NULL, Undefined} :
           flow = <<Acknowledge(n), AppendEvent("implementation_acknowledged")>>
    BY <1>5 DEF Flows
  <2>2. /\ DOMAIN flow = 1..2 /\ flow[1] = Acknowledge(n) /\ flow[1] \in Acknowledgements
        /\ flow[2] = AppendEvent("implementation_acknowledged")
    BY <2>1, CallsAreCalls, CallsApart DEF Acknowledgements
  <2>3. \A i \in 1..2 : i = 1 \/ i = 2
    OBVIOUS
  <2>4. ReviewsFollow(flow) /\ RetrosFollow(flow)
    BY <2>2, <2>3, CallsApart DEF ReviewsFollow, RetrosFollow, Follows
  <2>5. ThanksFollow(flow)
    BY <2>2, <2>3, CallsApart DEF ThanksFollow, Follows
  <2>. QED
    BY <2>4, <2>5 DEF AllFollow
<1>6. CASE e = "run_scenario"
  BY <1>6, IntroFollows DEF Flows
<1>7. CASE e = "run_scenario_skip_wait"
  <2>1. PICK t \in Summaries :
           flow = IntroFlow \o <<CompleteVerification("skip-ack"), Reply>> \o FinishFlow(t)
    BY <1>7 DEF Flows
  <2>2. PICK a, b, c : /\ a = IntroFlow /\ b = <<CompleteVerification("skip-ack"), Reply>>
                       /\ c = FinishFlow(t)
    OBVIOUS
  <2>3. a \in Seq(Call) /\ b \in Seq(Call) /\ c \in Seq(Call)
    <3>1. /\ "A" \in Gate /\ "B" \in Gate /\ "C" \in Gate /\ "D" \in Gate /\ "DONE" \in Gate
          /\ "kickoff_complete" \in EventType /\ "review_passed" \in EventType
          /\ "retro_complete" \in EventType
      BY DEF Gate, EventType
    <3>2. a \in Seq(Call)
      BY <2>2, <3>1, CallsAreCalls DEF IntroFlow
    <3>3. b \in Seq(Call)
      BY <2>2, CallsAreCalls
    <3>4. c \in Seq(Call)
      BY <2>2, <3>1, CallsAreCalls DEF FinishFlow
    <3>. QED
      BY <3>2, <3>3, <3>4
  <2>4. AllFollow(a) /\ AllFollow(c)
    BY <2>2, IntroFollows, FinishFollows
  <2>5. AllFollow(b)
    <3>1. \A i \in DOMAIN b : b[i].name # "append"
      BY <2>2, CallsApart
    <3>. QED
      BY <3>1, QuietFollows, CallsApart DEF AppendsNothing
  <2>6. AllFollow(a \o b) /\ (a \o b) \in Seq(Call)
    BY <2>3, <2>4, <2>5, ConcatFollows
  <2>7. AllFollow((a \o b) \o c)
    BY <2>3, <2>4, <2>6, ConcatFollows
  <2>. QED
    BY <2>1, <2>2, <2>7
<1>8. CASE e = "run_scenario_finish"
  BY <1>8, FinishFollows DEF Flows
<1>. QED
  BY <1>1, <1>3, <1>4, <1>5, <1>6, <1>7, <1>8 DEF EndpointNames

(* A handler whose first call is done has the rest to do. *)
LEMMA DoneIsBacked ==
    ASSUME NEW todo \in Seq(Call), todo # <<>>, NEW checks, NEW log, Backed(todo, checks, log),
           Head(todo) = RequireGate("C") => "verified" \in checks,
           Head(todo) = AppendEvent("review_passed") => "review_passed" \in log,
           Head(todo).name = "acknowledgeImplementation" => "acknowledged" \in checks
    PROVE  Backed(Tail(todo), checks, log)
<1>1. "verified" \in checks \/ ReviewsFollow(Tail(todo))
  BY FollowsTail DEF Backed, ReviewsFollow
<1>2. "review_passed" \in log \/ RetrosFollow(Tail(todo))
  BY FollowsTail DEF Backed, RetrosFollow
<1>3. "acknowledged" \in checks \/ ThanksFollow(Tail(todo))
  BY FollowsTail DEF Backed, ThanksFollow, Acknowledgements
<1>. QED
  BY <1>1, <1>2, <1>3 DEF Backed

(* The entry that is appended next is backed. *)
LEMMA AppendIsBacked ==
    ASSUME NEW todo \in Seq(Call), todo # <<>>, NEW checks, NEW log, Backed(todo, checks, log)
    PROVE  /\ Head(todo) = AppendEvent("review_passed") => "verified" \in checks
           /\ Head(todo) = AppendEvent("retro_complete") => "review_passed" \in log
           /\ Head(todo) = AppendEvent("implementation_acknowledged") => "acknowledged" \in checks
  BY FollowsHead DEF Backed, ReviewsFollow, RetrosFollow, ThanksFollow

LEMMA EmptyIsBacked == ASSUME NEW checks, NEW log PROVE Backed(<<>>, checks, log)
  BY DEF Backed, ReviewsFollow, RetrosFollow, ThanksFollow, Follows

(* Checks and entries are only added. *)
LEMMA BackingIsStable ==
    ASSUME NEW todo, NEW checks, NEW log, NEW newChecks, NEW newLog,
           Backed(todo, checks, log), checks \subseteq newChecks, log \subseteq newLog
    PROVE  Backed(todo, newChecks, newLog)
  BY DEF Backed

LEMMA EarnedIsStable ==
    ASSUME NEW h, NEW checks, NEW new, Earned(h, checks), checks \subseteq new
    PROVE  Earned(h, new)
  BY DEF Earned

LEMMA AwaitingIs ==
    ASSUME NEW todo
    PROVE  /\ Awaiting(todo).todo = todo /\ Awaiting(todo).stage \in {"idle", "next"}
  BY DEF Awaiting, Idle

(* One handler has moved. *)
LEMMA HandlerKeepsLog ==
    ASSUME LogInv, NEW r \in Requests, passed \subseteq passed', events' = events,
           \A q \in Requests \ {r} : requests'[q] = requests[q],
           Backed(requests'[r].todo, passed', events), Earned(requests'[r], passed')
    PROVE  LogInv'
<1>1. TimelineFollowsGates'
  BY DEF LogInv, TimelineFollowsGates
<1>2. ASSUME NEW q \in Requests \ {r}
      PROVE  Backed(requests'[q].todo, passed', events') /\ Earned(requests'[q], passed')
  BY BackingIsStable, EarnedIsStable DEF LogInv
<1>. QED
  BY <1>1, <1>2 DEF LogInv

LEMMA AbandonKeepsLog ==
    ASSUME TypeOK, LogInv, NEW r \in Requests, passed \subseteq passed', events' = events, Abandon(r)
    PROVE  LogInv'
<1>1. requests'[r] = Idle /\ \A q \in Requests \ {r} : requests'[q] = requests[q]
  BY DEF Abandon, TypeOK
<1>2. Idle.todo = <<>> /\ Idle.stage = "idle"
  BY DEF Idle
<1>. QED
  BY <1>1, <1>2, EmptyIsBacked, HandlerKeepsLog DEF Earned

LEMMA ReturnKeepsLog ==
    ASSUME TypeOK, LogInv, NEW r \in Requests, requests[r].stage # "idle",
           passed' = passed, events' = events, Return(r),
           Head(requests[r].todo) = RequireGate("C") => "verified" \in passed,
           Head(requests[r].todo).name = "acknowledgeImplementation" => "acknowledged" \in passed,
           Head(requests[r].todo).name # "append"
    PROVE  LogInv'
<1>1. PICK todo : todo = requests[r].todo
  OBVIOUS
<1>2. todo \in Seq(Call) /\ todo # <<>>
  BY <1>1 DEF TypeOK, Handler
<1>3. /\ requests'[r] = Awaiting(Tail(todo))
      /\ \A q \in Requests \ {r} : requests'[q] = requests[q]
  BY <1>1 DEF Return, TypeOK
<1>4. Backed(Tail(todo), passed, events)
  BY <1>1, <1>2, DoneIsBacked, CallsApart DEF LogInv
<1>5. Backed(requests'[r].todo, passed', events) /\ Earned(requests'[r], passed')
  BY <1>3, <1>4, AwaitingIs DEF Earned
<1>. QED
  BY <1>3, <1>5, HandlerKeepsLog

LEMMA SaveKeepsLog ==
    ASSUME TypeOK, LogInv, NEW r \in Requests, requests[r].stage # "idle",
           passed \subseteq passed', events' = events, NEW copy, Save(r, copy),
           Head(requests[r].todo).name \notin {"requireGate", "append"},
           Head(requests[r].todo).name = "acknowledgeImplementation" => "acknowledged" \in passed'
    PROVE  LogInv'
<1>1. /\ requests'[r] = [requests[r] EXCEPT !.stage = "saving", !.copy = copy]
      /\ \A q \in Requests \ {r} : requests'[q] = requests[q]
  BY DEF Save, TypeOK
<1>2. requests'[r].todo = requests[r].todo
  BY <1>1 DEF TypeOK, Handler
<1>3. Backed(requests'[r].todo, passed', events)
  BY <1>2, BackingIsStable DEF LogInv
<1>4. Earned(requests'[r], passed')
  BY <1>2 DEF Earned
<1>. QED
  BY <1>1, <1>3, <1>4, HandlerKeepsLog

LEMMA StepKeepsLog ==
    ASSUME TypeOK, IInv, LogInv, NEW r \in Requests, Begin(r) \/ Step(r) \/ Fail(r)
    PROVE  LogInv'
<1> DEFINE call == Head(requests[r].todo)
<1>0. ASSUME requests[r].stage # "idle"
      PROVE  /\ requests[r].todo \in Seq(Call) /\ requests[r].todo # <<>>
             /\ call \in Call /\ requests[r] \in Handler
  BY <1>0 DEF TypeOK, Handler
<1>1. CASE Begin(r)
  <2>1. PICK e \in Endpoints : \E flow \in Flows[e] :
           requests' = [requests EXCEPT ![r] = Awaiting(flow)]
    BY <1>1 DEF Begin
  <2>2. PICK flow \in Flows[e] : requests' = [requests EXCEPT ![r] = Awaiting(flow)]
    BY <2>1
  <2>3. /\ requests'[r] = Awaiting(flow)
        /\ \A q \in Requests \ {r} : requests'[q] = requests[q]
    BY <2>2 DEF TypeOK
  <2>4. Backed(flow, passed, events)
    BY FlowsFollow DEF Backed, AllFollow
  <2>5. Earned(requests'[r], passed)
    BY <2>3, AwaitingIs DEF Earned
  <2>. QED
    BY <1>1, <2>3, <2>4, <2>5, AwaitingIs, HandlerKeepsLog DEF Begin
<1>2. CASE TransitionGateReads(r)
  <2>1. /\ requests[r].stage # "idle" /\ call.name = "transitionGate"
        /\ passed' = passed /\ events' = events
    BY <1>2 DEF TransitionGateReads, At
  <2>2. Return(r) \/ Abandon(r) \/ \E copy : Save(r, copy)
    BY <1>2 DEF TransitionGateReads
  <2>. QED
    BY <2>1, <2>2, CallsApart, ReturnKeepsLog, AbandonKeepsLog, SaveKeepsLog
<1>3. CASE UpdateNotesReads(r)
  BY <1>3, SaveKeepsLog DEF UpdateNotesReads, At
<1>4. CASE SetRetroSummaryReads(r)
  BY <1>4, SaveKeepsLog DEF SetRetroSummaryReads, At
<1>5. CASE AcknowledgeImplementationReads(r)
  <2>1. /\ requests[r].stage # "idle" /\ call.name = "acknowledgeImplementation"
        /\ passed \subseteq passed' /\ events' = events
    BY <1>5 DEF AcknowledgeImplementationReads, At
  <2>2. Abandon(r) \/ ("acknowledged" \in passed' /\ \E copy : Save(r, copy))
    BY <1>5 DEF AcknowledgeImplementationReads
  <2>. QED
    BY <2>1, <2>2, AbandonKeepsLog, SaveKeepsLog
<1>6. CASE CompleteVerificationReads(r)
  <2>1. requests[r].stage # "idle" /\ passed \subseteq passed' /\ events' = events
    BY <1>6 DEF CompleteVerificationReads, At
  <2>2. CASE Abandon(r)
    BY <2>1, <2>2, AbandonKeepsLog
  <2>3. CASE requests' = [requests EXCEPT ![r].stage = "pinging", ![r].copy = row]
    <3>1. /\ requests'[r].stage = "pinging" /\ requests'[r].todo = requests[r].todo
          /\ \A q \in Requests \ {r} : requests'[q] = requests[q]
      BY <2>3 DEF TypeOK, Handler
    <3>2. Backed(requests'[r].todo, passed', events) /\ Earned(requests'[r], passed')
      BY <2>1, <3>1, BackingIsStable DEF LogInv, Earned
    <3>. QED
      BY <2>1, <3>1, <3>2, HandlerKeepsLog
  <2>. QED
    BY <1>6, <2>2, <2>3 DEF CompleteVerificationReads
<1>7. CASE VerificationPasses(r)
  <2>1. /\ requests[r].stage # "idle" /\ call.name = "completeVerification"
        /\ passed \subseteq passed' /\ events' = events /\ \E copy : Save(r, copy)
    BY <1>7 DEF VerificationPasses, At
  <2>. QED
    BY <2>1, SaveKeepsLog
<1>8. CASE SaveCompares(r)
  <2>1. requests[r].stage = "saving" /\ passed' = passed /\ events' = events
    BY <1>8 DEF SaveCompares
  <2>2. /\ call.name \notin {"requireGate", "append"}
        /\ call.name = "acknowledgeImplementation" => "acknowledged" \in passed
    BY <2>1 DEF LogInv, Earned
  <2>3. CASE Return(r)
    BY <2>1, <2>2, <2>3, CallsApart, ReturnKeepsLog
  <2>4. CASE requests' = [requests EXCEPT ![r].stage = "updating",
                                          ![r].columns = Diff(requests[r].copy, row)]
    <3> HIDE DEF Diff
    <3>1. /\ requests'[r].stage = "updating" /\ requests'[r].todo = requests[r].todo
          /\ \A q \in Requests \ {r} : requests'[q] = requests[q]
      BY <2>4 DEF TypeOK, Handler
    <3>2. Backed(requests'[r].todo, passed', events) /\ Earned(requests'[r], passed')
      BY <2>1, <2>2, <3>1 DEF LogInv, Earned
    <3>. QED
      BY <2>1, <3>1, <3>2, HandlerKeepsLog
  <2>. QED
    BY <1>8, <2>3, <2>4 DEF SaveCompares
<1>9. CASE SaveUpdates(r)
  <2>1. requests[r].stage = "updating" /\ Return(r) /\ passed' = passed /\ events' = events
    BY <1>9 DEF SaveUpdates
  <2>2. /\ call.name \notin {"requireGate", "append"}
        /\ call.name = "acknowledgeImplementation" => "acknowledged" \in passed
    BY <2>1 DEF LogInv, Earned
  <2>. QED
    BY <2>1, <2>2, CallsApart, ReturnKeepsLog
<1>10. CASE RequireGateReads(r)
  <2>1. /\ requests[r].stage # "idle" /\ call.name = "requireGate"
        /\ passed' = passed /\ events' = events
    BY <1>10 DEF RequireGateReads, At
  <2>2. CASE row.currentGate = call.arg /\ Return(r)
    <3>1. call = RequireGate("C") => "verified" \in passed
      BY <2>2, CallsApart DEF IInv, Innocent, Checked, Beyond
    <3>. QED
      BY <2>1, <2>2, <3>1, ReturnKeepsLog
  <2>3. CASE Abandon(r)
    BY <2>1, <2>3, AbandonKeepsLog
  <2>. QED
    BY <1>10, <2>2, <2>3 DEF RequireGateReads
<1>11. CASE ReplyArrives(r)
  BY <1>11, CallsApart, ReturnKeepsLog DEF ReplyArrives, At
<1>12. CASE EventAppended(r)
  <2>1. /\ requests[r].stage # "idle" /\ call.name = "append" /\ Return(r)
        /\ events' = events \cup {call.arg} /\ passed' = passed
    BY <1>12 DEF EventAppended, At
  <2>2. PICK todo : todo = requests[r].todo /\ todo \in Seq(Call) /\ todo # <<>>
    BY <1>0, <2>1
  <2>3. call = AppendEvent(call.arg) /\ Backed(todo, passed, events)
    BY <1>0, <2>1, <2>2 DEF Call, AppendEvent, LogInv
  <2>4. TimelineFollowsGates'
    <3>1. /\ call.arg = "review_passed" => "verified" \in passed
          /\ call.arg = "retro_complete" => "review_passed" \in events
          /\ call.arg = "implementation_acknowledged" => "acknowledged" \in passed
      BY <2>2, <2>3, AppendIsBacked
    <3>2. TimelineFollowsGates
      BY DEF LogInv
    <3>. QED
      BY <2>1, <3>1, <3>2 DEF TimelineFollowsGates
  <2>5. /\ requests'[r] = Awaiting(Tail(todo))
        /\ \A q \in Requests \ {r} : requests'[q] = requests[q]
    BY <2>1, <2>2 DEF Return, TypeOK
  <2>6. Backed(Tail(todo), passed, events')
    <3>1. Backed(todo, passed, events')
      BY <2>1, <2>3, BackingIsStable
    <3>2. call = AppendEvent("review_passed") => "review_passed" \in events'
      BY <2>1, CallsApart
    <3>. QED
      BY <2>1, <2>2, <3>1, <3>2, DoneIsBacked, CallsApart
  <2>7. ASSUME NEW q \in Requests
        PROVE  Backed(requests'[q].todo, passed', events') /\ Earned(requests'[q], passed')
    <3>1. CASE q = r
      BY <2>1, <2>5, <2>6, <3>1, AwaitingIs DEF Earned
    <3>2. CASE q # r
      BY <2>1, <2>5, <3>2, BackingIsStable DEF LogInv
    <3>. QED
      BY <3>1, <3>2
  <2>. QED
    BY <2>4, <2>7 DEF LogInv
<1>13. CASE Fail(r)
  BY <1>13, AbandonKeepsLog DEF Fail
<1>. QED
  BY <1>1, <1>2, <1>3, <1>4, <1>5, <1>6, <1>7, <1>8, <1>9, <1>10, <1>11, <1>12, <1>13
  DEF Step

(* However many scenarios run at once, and wherever they fail: the agents' *)
(* log tells of no review or retrospective of a session that has not been  *)
(* verified, and of no acknowledgement nobody gave.                        *)
THEOREM LogFollowsGates == Spec => []TimelineFollowsGates
<1>1. Init => TypeOK /\ IInv /\ LogInv
  <2>1. Init => TypeOK
    BY FreshRowIsRow, IdleIsHandler DEF Init, TypeOK
  <2>2. Init => IInv
    BY FreshRowIsInnocent, IdleIsHandler DEF Init, IInv, ReadyToPass
  <2>3. Init => LogInv
    BY EmptyIsBacked DEF Init, LogInv, TimelineFollowsGates, Idle, Earned
  <2>. QED
    BY <2>1, <2>2, <2>3
<1>2. TypeOK /\ IInv /\ LogInv /\ [Next]_vars => (TypeOK /\ IInv /\ LogInv)'
  <2> SUFFICES ASSUME TypeOK, IInv, LogInv, [Next]_vars PROVE (TypeOK /\ IInv /\ LogInv)'
    OBVIOUS
  <2>1. ASSUME NEW r \in Requests, Begin(r) \/ Step(r) \/ Fail(r)
        PROVE  (TypeOK /\ IInv /\ LogInv)'
    BY <2>1, StepKeepsTypes, StepKeepsIInv, StepKeepsLog
  <2>2. CASE UNCHANGED vars
    BY <2>2 DEF vars, TypeOK, IInv, LogInv, TimelineFollowsGates
  <2>. QED
    BY <2>1, <2>2 DEF Next
<1>3. LogInv => TimelineFollowsGates
  BY DEF LogInv
<1>. QED
  BY <1>1, <1>2, <1>3, PTL DEF Spec

----------------------------------------------------------------------------
(* One handler at a time.  A handler that saves holds a copy one rung      *)
(* above the row it will write to, or as high.                             *)

(* What the ladder sees of a row stays, or climbs by one of its steps. *)
Stays(r, copy) ==
    /\ copy.currentGate = r.currentGate /\ copy.gateHistory = r.gateHistory
    /\ copy.implementationAcknowledgedAt = r.implementationAcknowledgedAt

Climbs(r, copy, to, reason) ==
    /\ copy.currentGate = to
    /\ \E at \in Instants :
          copy.gateHistory = Append(r.gateHistory, [at |-> at, from |-> r.currentGate,
                                                    to |-> to, reason |-> reason])

Moves(r, copy) ==
    \E to \in Allowed[r.currentGate] :
        /\ Climbs(r, copy, to, "manual_patch")
        /\ copy.implementationAcknowledgedAt =
              IF to = "B" THEN NULL ELSE r.implementationAcknowledgedAt

Acknowledges(r, copy) ==
    /\ r.currentGate = "B" /\ copy.currentGate = "B" /\ copy.gateHistory = r.gateHistory
    /\ copy.implementationAcknowledgedAt \in Instants

DemoOffered == "run_scenario_skip_wait" \in Endpoints

Verifies(r, copy) ==
    /\ r.currentGate = "B"
    /\ r.implementationAcknowledgedAt # NULL \/ DemoOffered
    /\ Climbs(r, copy, "C", "verify_passed")
    /\ copy.implementationAcknowledgedAt = r.implementationAcknowledgedAt

OneRung(r, copy) ==
    Stays(r, copy) \/ Moves(r, copy) \/ Acknowledges(r, copy) \/ Verifies(r, copy)

(* Only the demo endpoint's flow skips the acknowledgement. *)
Skipless(todo) == \A i \in DOMAIN todo : todo[i].arg # "skip-ack"

UpToDate(h, r) ==
    /\ h.stage = "pinging" =>
          /\ h.copy = r /\ r.currentGate = "B"
          /\ r.implementationAcknowledgedAt # NULL \/ DemoOffered
    /\ h.stage \in {"saving", "updating"} => OneRung(r, h.copy)
    /\ h.stage = "updating" => h.columns = Diff(h.copy, r)
    /\ DemoOffered \/ Skipless(h.todo)

SerialInv == HistoryLeadsToGate /\ \A r \in Requests : UpToDate(requests[r], row)

OneHandler == \A q, r \in Requests : q = r

LEMMA FlowsAreSkipless ==
    ASSUME NEW e \in Endpoints, NEW flow \in Flows[e]
    PROVE  DemoOffered \/ Skipless(flow)
<1>1. e \in EndpointNames
  BY SessionAssumption
<1>2. \A g \in Gate \cup EventType \cup {"none", "ack"} : g # "skip-ack"
  BY DEF Gate, EventType
<1>3. CASE e = "patch"
  <2>1. flow \in PatchFlows
    BY <1>3 DEF Flows
  <2>2. ASSUME NEW c \in {TransitionGate(g, Undefined) : g \in Gate}
                         \cup {TransitionGate("DONE", t) : t \in Summaries \cup {NULL}}
        PROVE  c.arg # "skip-ack"
    BY <1>2, CallsApart DEF Gate
  <2>3. ASSUME NEW c \in {UpdateNotes(n) : n \in Notes \cup {NULL}} PROVE c.arg # "skip-ack"
    BY CallsApart
  <2>4. ASSUME NEW t \in Summaries \cup {NULL} PROVE SetRetroSummary(t).arg # "skip-ack"
    BY CallsApart
  <2>5. \/ \E c : flow = <<c>> /\ c.arg # "skip-ack"
        \/ \E c, d : flow = <<c, d>> /\ c.arg # "skip-ack" /\ d.arg # "skip-ack"
    BY <2>1, <2>2, <2>3, <2>4 DEF PatchFlows
  <2>6. ASSUME NEW c, NEW d, c.arg # "skip-ack", d.arg # "skip-ack"
        PROVE  Skipless(<<c>>) /\ Skipless(<<c, d>>)
    BY <2>6 DEF Skipless
  <2>. QED
    BY <2>5, <2>6
<1>4. CASE e = "verify"
  BY <1>4, CallsApart DEF Flows, Skipless
<1>5. CASE e = "implementation_ready"
  <2>1. PICK n \in Notes \cup {NULL, Undefined} :
           flow = <<Acknowledge(n), AppendEvent("implementation_acknowledged")>>
    BY <1>5 DEF Flows
  <2>2. \A i \in DOMAIN flow : flow[i].arg \in {"none", "implementation_acknowledged"}
    BY <2>1, CallsApart
  <2>. QED
    BY <2>2 DEF Skipless
<1>6. CASE e = "run_scenario"
  <2>1. flow = IntroFlow
    BY <1>6 DEF Flows
  <2>2. \A i \in DOMAIN flow : flow[i].arg \in {"A", "none", "kickoff_complete", "B"}
    BY <2>1, CallsApart DEF IntroFlow
  <2>. QED
    BY <2>2 DEF Skipless
<1>7. CASE e = "run_scenario_skip_wait"
  BY <1>7 DEF DemoOffered
<1>8. CASE e = "run_scenario_finish"
  <2>1. PICK t \in Summaries : flow = FinishFlow(t)
    BY <1>8 DEF Flows
  <2>2. \A i \in DOMAIN flow : flow[i].arg \in {"C", "none", "review_passed", "D", "DONE", "retro_complete"}
    BY <2>1, CallsApart DEF FinishFlow
  <2>. QED
    BY <2>2 DEF Skipless
<1>. QED
  BY <1>1, <1>3, <1>4, <1>5, <1>6, <1>7, <1>8 DEF EndpointNames

(* A save that nobody overtakes writes the copy. *)
LEMMA OverlayOfDiff ==
    ASSUME NEW r \in Row, NEW copy \in Row
    PROVE  Overlay(r, copy, Diff(copy, r)) = copy
  BY DEF Overlay, Diff, Columns, Row

LEMMA NoDiff == ASSUME NEW r \in Row, NEW copy \in Row, Diff(copy, r) = {} PROVE copy = r
  BY DEF Diff, Columns, Row

LEMMA PushedClimbs ==
    ASSUME NEW r \in Row, NEW to, NEW reason, NEW at \in Instants,
           NEW copy, copy = PushHistory(r, to, reason, at)
    PROVE  /\ Climbs(r, copy, to, reason)
           /\ copy.implementationAcknowledgedAt = r.implementationAcknowledgedAt
<1>1. PICK history : history = Append(r.gateHistory, [at |-> at, from |-> r.currentGate,
                                                      to |-> to, reason |-> reason])
  OBVIOUS
<1>2. copy = [r EXCEPT !.gateHistory = history, !.currentGate = to]
  BY <1>1 DEF PushHistory
<1>3. /\ copy.gateHistory = history /\ copy.currentGate = to
      /\ copy.implementationAcknowledgedAt = r.implementationAcknowledgedAt
  BY <1>2 DEF Row
<1>. QED
  BY <1>1, <1>3 DEF Climbs

LEMMA TransitionedMoves ==
    ASSUME NEW r \in Row, NEW target \in Allowed[r.currentGate], NEW at \in Instants,
           NEW retro \in Summaries \cup {NULL, Undefined},
           NEW copy, copy = Transitioned(r, target, retro, at)
    PROVE  Moves(r, copy)
<1>1. PICK base : base = WithAcknowledgement(WithSummary(r, target, retro), target)
  OBVIOUS
<1>2. /\ base \in Row /\ base.currentGate = r.currentGate /\ base.gateHistory = r.gateHistory
      /\ base.implementationAcknowledgedAt =
            IF target = "B" THEN NULL ELSE r.implementationAcknowledgedAt
  BY <1>1 DEF WithAcknowledgement, WithSummary, Row
<1>3. copy = PushHistory(base, target, "manual_patch", at)
  BY <1>1 DEF Transitioned
<1>4. /\ Climbs(base, copy, target, "manual_patch")
      /\ copy.implementationAcknowledgedAt = base.implementationAcknowledgedAt
  BY <1>2, <1>3, PushedClimbs
<1>. QED
  BY <1>2, <1>4 DEF Moves, Climbs

LEMMA AcknowledgedRung ==
    ASSUME NEW r \in Row, r.currentGate = "B", NEW notes, NEW at \in Instants,
           NEW copy, copy = Acknowledged(r, notes, at)
    PROVE  Acknowledges(r, copy)
<1>1. PICK n : n = IF notes = Undefined THEN r.implementationNotes ELSE notes
  OBVIOUS
<1>2. copy = [r EXCEPT !.implementationAcknowledgedAt = at, !.implementationNotes = n]
  BY <1>1 DEF Acknowledged, Row
<1>. QED
  BY <1>2 DEF Acknowledges, Row

(* A rung leads on from where the history ends. *)
Leads(r) ==
    /\ \A i \in 1..Len(r.gateHistory) :
          /\ Rung(r.gateHistory[i])
          /\ r.gateHistory[i].from = (IF i = 1 THEN "A" ELSE r.gateHistory[i - 1].to)
    /\ r.currentGate = IF r.gateHistory = <<>> THEN "A" ELSE r.gateHistory[Len(r.gateHistory)].to

LEMMA ClimbLeads ==
    ASSUME NEW r \in Row, NEW copy, Leads(r), NEW to, NEW reason, Climbs(r, copy, to, reason),
           \A at \in Instants : Rung([at |-> at, from |-> r.currentGate, to |-> to,
                                      reason |-> reason])
    PROVE  Leads(copy)
<1>1. PICK at \in Instants :
         copy.gateHistory = Append(r.gateHistory, [at |-> at, from |-> r.currentGate,
                                                   to |-> to, reason |-> reason])
  BY DEF Climbs
<1>2. PICK e, h, g : /\ e = [at |-> at, from |-> r.currentGate, to |-> to, reason |-> reason]
                     /\ h = r.gateHistory /\ g = copy.gateHistory
  OBVIOUS
<1>3. PICK n \in Nat : n = Len(h)
  BY <1>2 DEF Row
<1>4. /\ e.from = r.currentGate /\ e.to = to /\ Rung(e) /\ copy.currentGate = to
  BY <1>2 DEF Climbs
<1>5. /\ Len(g) = n + 1 /\ g # <<>> /\ g[n + 1] = e /\ \A i \in 1..n : g[i] = h[i]
  BY <1>1, <1>2, <1>3 DEF Row
<1>6. \A i \in 1..n : Rung(h[i]) /\ h[i].from = (IF i = 1 THEN "A" ELSE h[i - 1].to)
  BY <1>2, <1>3 DEF Leads
<1>7. r.currentGate = IF n = 0 THEN "A" ELSE h[n].to
  <2>1. h = <<>> <=> n = 0
    BY <1>2, <1>3 DEF Row
  <2>. QED
    BY <1>2, <1>3, <2>1 DEF Leads
<1>8. ASSUME NEW i \in 1..(n + 1)
      PROVE  Rung(g[i]) /\ g[i].from = (IF i = 1 THEN "A" ELSE g[i - 1].to)
  <2>1. CASE i = n + 1
    <3>1. CASE n = 0
      BY <1>4, <1>5, <1>7, <2>1, <3>1
    <3>2. CASE n # 0
      <4>1. g[i - 1] = h[n] /\ i # 1
        BY <1>5, <2>1, <3>2
      <4>. QED
        BY <1>4, <1>5, <1>7, <2>1, <3>2, <4>1
    <3>. QED
      BY <3>1, <3>2
  <2>2. CASE i # n + 1
    <3>1. i \in 1..n /\ g[i] = h[i] /\ (i # 1 => g[i - 1] = h[i - 1])
      BY <1>5, <2>2
    <3>. QED
      BY <1>6, <3>1
  <2>. QED
    BY <2>1, <2>2
<1>. QED
  BY <1>2, <1>4, <1>5, <1>8 DEF Leads

LEMMA RungLeads ==
    ASSUME NEW r \in Row, NEW copy, Leads(r), OneRung(r, copy) PROVE Leads(copy)
<1>1. CASE Stays(r, copy)
  BY <1>1 DEF Stays, Leads
<1>2. CASE Moves(r, copy)
  <2>1. PICK to \in Allowed[r.currentGate] : Climbs(r, copy, to, "manual_patch")
    BY <1>2 DEF Moves
  <2>2. \A at \in Instants : Rung([at |-> at, from |-> r.currentGate, to |-> to,
                                   reason |-> "manual_patch"])
    BY <2>1 DEF Rung
  <2>. QED
    BY <2>1, <2>2, ClimbLeads
<1>3. CASE Acknowledges(r, copy)
  BY <1>3 DEF Acknowledges, Leads
<1>4. CASE Verifies(r, copy)
  <2>1. \A at \in Instants : Rung([at |-> at, from |-> r.currentGate, to |-> "C",
                                   reason |-> "verify_passed"])
    BY <1>4 DEF Verifies, Rung
  <2>. QED
    BY <1>4, <2>1, ClimbLeads DEF Verifies
<1>. QED
  BY <1>1, <1>2, <1>3, <1>4 DEF OneRung

(* The one handler has moved and the row has not. *)
LEMMA HandlerKeepsSerial ==
    ASSUME OneHandler, SerialInv, NEW r \in Requests, row' = row, UpToDate(requests'[r], row)
    PROVE  SerialInv'
<1>1. \A q \in Requests : q = r
  BY DEF OneHandler
<1>2. HistoryLeadsToGate'
  BY DEF SerialInv, HistoryLeadsToGate
<1>. QED
  BY <1>1, <1>2 DEF SerialInv

LEMMA SkiplessTail ==
    ASSUME NEW todo \in Seq(Call), todo # <<>>, DemoOffered \/ Skipless(todo)
    PROVE  DemoOffered \/ Skipless(Tail(todo))
<1>. SUFFICES ASSUME Skipless(todo) PROVE Skipless(Tail(todo))
  OBVIOUS
<1>1. \A i \in DOMAIN Tail(todo) : i + 1 \in DOMAIN todo /\ Tail(todo)[i] = todo[i + 1]
  OBVIOUS
<1>. QED
  BY <1>1 DEF Skipless

LEMMA ReturnIsUpToDate ==
    ASSUME TypeOK, SerialInv, NEW r \in Requests, requests[r].stage # "idle", Return(r), NEW any
    PROVE  UpToDate(requests'[r], any)
<1>1. PICK todo : todo = requests[r].todo
  OBVIOUS
<1>2. todo \in Seq(Call) /\ todo # <<>> /\ (DemoOffered \/ Skipless(todo))
  BY <1>1 DEF TypeOK, Handler, SerialInv, UpToDate
<1>3. requests'[r] = Awaiting(Tail(todo))
  BY <1>1 DEF Return, TypeOK
<1>4. DemoOffered \/ Skipless(Tail(todo))
  BY <1>2, SkiplessTail
<1>. QED
  BY <1>3, <1>4, AwaitingIs DEF UpToDate

LEMMA AbandonIsUpToDate ==
    ASSUME TypeOK, NEW r \in Requests, Abandon(r), NEW any
    PROVE  UpToDate(requests'[r], any)
<1>1. requests'[r] = Idle
  BY DEF Abandon, TypeOK
<1>2. Idle.stage = "idle" /\ Idle.todo = <<>> /\ Skipless(<<>>)
  BY DEF Idle, Skipless
<1>. QED
  BY <1>1, <1>2 DEF UpToDate

LEMMA SaveIsUpToDate ==
    ASSUME TypeOK, SerialInv, NEW r \in Requests, NEW copy, Save(r, copy), OneRung(row, copy)
    PROVE  UpToDate(requests'[r], row)
<1>1. requests'[r] = [requests[r] EXCEPT !.stage = "saving", !.copy = copy]
  BY DEF Save, TypeOK
<1>2. /\ requests'[r].stage = "saving" /\ requests'[r].copy = copy
      /\ requests'[r].todo = requests[r].todo
  BY <1>1 DEF TypeOK, Handler
<1>. QED
  BY <1>2 DEF UpToDate, SerialInv

LEMMA StepIsARung ==
    ASSUME OneHandler, TypeOK, SerialInv, NEW r \in Requests, Begin(r) \/ Step(r) \/ Fail(r)
    PROVE  SerialInv' /\ OneRung(row, row')
<1> DEFINE call == Head(requests[r].todo)
<1>0. ASSUME requests[r].stage # "idle"
      PROVE  /\ requests[r].todo \in Seq(Call) /\ requests[r].todo # <<>>
             /\ call \in Call /\ requests[r] \in Handler
  BY <1>0 DEF TypeOK, Handler
<1>1. OneRung(row, row)
  BY DEF OneRung, Stays
<1>2. ASSUME row' = row, UpToDate(requests'[r], row) PROVE SerialInv' /\ OneRung(row, row')
  BY <1>1, <1>2, HandlerKeepsSerial
<1>3. CASE Begin(r)
  <2>1. PICK e \in Endpoints : \E flow \in Flows[e] :
           requests' = [requests EXCEPT ![r] = Awaiting(flow)]
    BY <1>3 DEF Begin
  <2>2. PICK flow \in Flows[e] : requests' = [requests EXCEPT ![r] = Awaiting(flow)]
    BY <2>1
  <2>3. requests'[r] = Awaiting(flow) /\ row' = row
    BY <1>3, <2>2 DEF TypeOK, Begin
  <2>. QED
    BY <1>2, <2>3, AwaitingIs, FlowsAreSkipless DEF UpToDate
<1>4. CASE TransitionGateReads(r)
  <2>1. /\ requests[r].stage # "idle" /\ call.name = "transitionGate" /\ row' = row
    BY <1>4 DEF TransitionGateReads, At
  <2>2. CASE Return(r)
    BY <1>2, <2>1, <2>2, ReturnIsUpToDate
  <2>3. CASE Abandon(r)
    BY <1>2, <2>1, <2>3, AbandonIsUpToDate
  <2>4. CASE /\ call.arg \in Allowed[row.currentGate]
             /\ \E at \in Instants : Save(r, Transitioned(row, call.arg, call.text, at))
    <3>1. PICK at \in Instants : Save(r, Transitioned(row, call.arg, call.text, at))
      BY <2>4
    <3>2. call.text \in Summaries \cup {NULL, Undefined}
      BY <1>0, <2>1 DEF Call
    <3>3. PICK copy : copy = Transitioned(row, call.arg, call.text, at)
      OBVIOUS
    <3>4. OneRung(row, copy)
      BY <2>4, <3>2, <3>3, TransitionedMoves DEF TypeOK, OneRung
    <3>. QED
      BY <1>2, <2>1, <3>1, <3>3, <3>4, SaveIsUpToDate
  <2>. QED
    BY <1>4, <2>2, <2>3, <2>4 DEF TransitionGateReads
<1>5. CASE UpdateNotesReads(r)
  <2>1. PICK copy : copy = [row EXCEPT !.implementationNotes = call.text]
    OBVIOUS
  <2>2. OneRung(row, copy)
    BY <2>1 DEF TypeOK, Row, OneRung, Stays
  <2>. QED
    BY <1>2, <1>5, <2>1, <2>2, SaveIsUpToDate DEF UpdateNotesReads
<1>6. CASE SetRetroSummaryReads(r)
  <2>1. PICK copy : copy = [row EXCEPT !.retroSummary = call.text]
    OBVIOUS
  <2>2. OneRung(row, copy)
    BY <2>1 DEF TypeOK, Row, OneRung, Stays
  <2>. QED
    BY <1>2, <1>6, <2>1, <2>2, SaveIsUpToDate DEF SetRetroSummaryReads
<1>7. CASE AcknowledgeImplementationReads(r)
  <2>1. row' = row
    BY <1>7 DEF AcknowledgeImplementationReads
  <2>2. CASE Abandon(r)
    BY <1>2, <2>1, <2>2, AbandonIsUpToDate
  <2>3. CASE /\ row.currentGate = "B"
             /\ \E at \in Instants : Save(r, Acknowledged(row, call.text, at))
    <3>1. PICK at \in Instants : Save(r, Acknowledged(row, call.text, at))
      BY <2>3
    <3>2. PICK copy : copy = Acknowledged(row, call.text, at)
      OBVIOUS
    <3>3. OneRung(row, copy)
      BY <2>3, <3>2, AcknowledgedRung DEF TypeOK, OneRung
    <3>. QED
      BY <1>2, <2>1, <3>1, <3>2, <3>3, SaveIsUpToDate
  <2>. QED
    BY <1>7, <2>2, <2>3 DEF AcknowledgeImplementationReads
<1>8. CASE CompleteVerificationReads(r)
  <2>1. requests[r].stage # "idle" /\ row' = row
    BY <1>8 DEF CompleteVerificationReads, At
  <2>2. CASE Abandon(r)
    BY <1>2, <2>1, <2>2, AbandonIsUpToDate
  <2>3. CASE /\ row.currentGate = "B"
             /\ call.arg = "skip-ack" \/ row.implementationAcknowledgedAt # NULL
             /\ requests' = [requests EXCEPT ![r].stage = "pinging", ![r].copy = row]
    <3>1. /\ requests'[r].stage = "pinging" /\ requests'[r].copy = row
          /\ requests'[r].todo = requests[r].todo
      BY <2>3 DEF TypeOK, Handler
    <3>2. DemoOffered \/ Skipless(requests[r].todo)
      BY DEF SerialInv, UpToDate
    <3>3. call.arg = "skip-ack" => DemoOffered
      BY <1>0, <2>1, <3>2 DEF Skipless
    <3>. QED
      BY <1>2, <2>1, <2>3, <3>1, <3>2, <3>3 DEF UpToDate
  <2>. QED
    BY <1>8, <2>2, <2>3 DEF CompleteVerificationReads
<1>9. CASE VerificationPasses(r)
  <2>1. requests[r].stage = "pinging" /\ row' = row
    BY <1>9 DEF VerificationPasses, At
  <2>2. /\ requests[r].copy = row /\ row.currentGate = "B"
        /\ row.implementationAcknowledgedAt # NULL \/ DemoOffered
    BY <2>1 DEF SerialInv, UpToDate
  <2>3. PICK at \in Instants : Save(r, PushHistory(row, "C", "verify_passed", at))
    BY <1>9, <2>2 DEF VerificationPasses
  <2>4. PICK copy : copy = PushHistory(row, "C", "verify_passed", at)
    OBVIOUS
  <2>5. OneRung(row, copy)
    BY <2>2, <2>4, PushedClimbs DEF TypeOK, OneRung, Verifies
  <2>. QED
    BY <1>2, <2>1, <2>3, <2>4, <2>5, SaveIsUpToDate
<1>10. CASE SaveCompares(r)
  <2>1. requests[r].stage = "saving" /\ row' = row
    BY <1>10 DEF SaveCompares
  <2>2. CASE Return(r)
    BY <1>2, <2>1, <2>2, ReturnIsUpToDate
  <2>3. CASE requests' = [requests EXCEPT ![r].stage = "updating",
                                          ![r].columns = Diff(requests[r].copy, row)]
    <3> HIDE DEF Diff
    <3>1. /\ requests'[r].stage = "updating" /\ requests'[r].copy = requests[r].copy
          /\ requests'[r].columns = Diff(requests[r].copy, row)
          /\ requests'[r].todo = requests[r].todo
      BY <2>3 DEF TypeOK, Handler
    <3>2. UpToDate(requests[r], row)
      BY DEF SerialInv
    <3>. QED
      BY <1>2, <2>1, <3>1, <3>2 DEF UpToDate
  <2>. QED
    BY <1>10, <2>2, <2>3 DEF SaveCompares
<1>11. CASE SaveUpdates(r)
  <2>1. PICK copy : copy = requests[r].copy
    OBVIOUS
  <2>2. /\ requests[r].stage = "updating" /\ Return(r)
        /\ row' = Overlay(row, copy, requests[r].columns)
    BY <1>11, <2>1 DEF SaveUpdates
  <2>3. /\ OneRung(row, copy) /\ requests[r].columns = Diff(copy, row)
        /\ row \in Row /\ copy \in Row
    BY <2>1, <2>2 DEF SerialInv, UpToDate, TypeOK, Handler
  <2>4. row' = copy
    BY <2>2, <2>3, OverlayOfDiff
  <2>5. HistoryLeadsToGate'
    <3>1. Leads(row)
      BY DEF SerialInv, HistoryLeadsToGate, Leads
    <3>2. Leads(copy)
      BY <2>3, <3>1, RungLeads
    <3>. QED
      BY <2>4, <3>2 DEF HistoryLeadsToGate, Leads
  <2>6. UpToDate(requests'[r], row')
    BY <2>2, ReturnIsUpToDate
  <2>7. \A q \in Requests : q = r
    BY DEF OneHandler
  <2>. QED
    BY <2>3, <2>4, <2>5, <2>6, <2>7 DEF SerialInv
<1>12. CASE RequireGateReads(r)
  <2>1. /\ requests[r].stage # "idle" /\ row' = row /\ (Return(r) \/ Abandon(r))
    BY <1>12 DEF RequireGateReads, At
  <2>. QED
    BY <1>2, <2>1, ReturnIsUpToDate, AbandonIsUpToDate
<1>13. CASE ReplyArrives(r)
  BY <1>2, <1>13, ReturnIsUpToDate DEF ReplyArrives, At
<1>14. CASE EventAppended(r)
  BY <1>2, <1>14, ReturnIsUpToDate DEF EventAppended, At
<1>15. CASE Fail(r)
  BY <1>2, <1>15, AbandonIsUpToDate DEF Fail
<1>. QED
  BY <1>3, <1>4, <1>5, <1>6, <1>7, <1>8, <1>9, <1>10, <1>11, <1>12, <1>13, <1>14, <1>15
  DEF Step

LEMMA SerialInit == Init => TypeOK /\ SerialInv /\ Ladder!Init
<1>. SUFFICES ASSUME Init PROVE TypeOK /\ SerialInv /\ Ladder!Init
  OBVIOUS
<1>1. TypeOK
  BY FreshRowIsRow, IdleIsHandler DEF Init, TypeOK
<1>2. row = FreshRow /\ \A r \in Requests : requests[r] = Idle
  BY DEF Init
<1>3. Idle.stage = "idle" /\ Idle.todo = <<>> /\ Skipless(<<>>)
  BY DEF Idle, Skipless
<1>4. \A r \in Requests : UpToDate(requests[r], row)
  BY <1>2, <1>3 DEF UpToDate
<1>5. FreshRow.gateHistory = <<>> /\ FreshRow.currentGate = "A"
      /\ FreshRow.implementationAcknowledgedAt = NULL
  BY DEF FreshRow
<1>. QED
  BY <1>1, <1>2, <1>4, <1>5 DEF SerialInv, HistoryLeadsToGate, Ladder!Init

(* A rung of the row is a step of the ladder, or none. *)
LEMMA RungIsLadder ==
    ASSUME OneRung(row, row') PROVE [Ladder!Next]_(Ladder!vars)
<1>1. CASE Stays(row, row')
  BY <1>1 DEF Stays, Ladder!vars
<1>2. CASE Moves(row, row')
  BY <1>2 DEF Moves, Climbs, Ladder!Next, Ladder!Move, Ladder!Climb, Ladder!Allowed, Allowed
<1>3. CASE Acknowledges(row, row')
  BY <1>3 DEF Acknowledges, Ladder!Next, Ladder!Acknowledge
<1>4. CASE Verifies(row, row')
  BY <1>4 DEF Verifies, Climbs, DemoOffered, Ladder!Next, Ladder!Verify, Ladder!Climb
<1>. QED
  BY <1>1, <1>2, <1>3, <1>4 DEF OneRung

LEMMA SerialNext ==
    OneHandler => (TypeOK /\ SerialInv /\ [Next]_vars
                     => /\ (TypeOK /\ SerialInv)'
                        /\ [Ladder!Next]_(Ladder!vars))
<1>. SUFFICES ASSUME OneHandler, TypeOK, SerialInv, [Next]_vars
              PROVE  (TypeOK /\ SerialInv)' /\ [Ladder!Next]_(Ladder!vars)
  OBVIOUS
<1>1. ASSUME NEW r \in Requests, Begin(r) \/ Step(r) \/ Fail(r)
      PROVE  (TypeOK /\ SerialInv)' /\ OneRung(row, row')
  BY <1>1, StepKeepsTypes, StepIsARung
<1>2. ASSUME UNCHANGED vars PROVE (TypeOK /\ SerialInv)' /\ OneRung(row, row')
  BY <1>2 DEF vars, TypeOK, SerialInv, HistoryLeadsToGate, OneRung, Stays
<1>3. (TypeOK /\ SerialInv)' /\ OneRung(row, row')
  BY <1>1, <1>2 DEF Next
<1>. QED
  BY <1>3, RungIsLadder

(* As long as handlers run one after the other, whatever they are and      *)
(* wherever they fail, the history leads from A to the gate shown.         *)
THEOREM HistoryLeads ==
    ASSUME OneHandler PROVE Spec => []HistoryLeadsToGate
<1>1. SerialInv => HistoryLeadsToGate
  BY DEF SerialInv
<1>. QED
  BY <1>1, SerialInit, SerialNext, PTL DEF Spec

(* And the session then does what the ladder promises: every step of a     *)
(* handler is one step of the ladder or none, the demo endpoint alone      *)
(* passing without an acknowledgement.                                     *)
THEOREM SerialSessionImplementsLadder ==
    ASSUME OneHandler PROVE Spec => ImplementsLadder
BY SerialInit, SerialNext, PTL DEF Spec, ImplementsLadder, Ladder!Spec

==============================================================================
