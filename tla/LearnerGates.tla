---------------------------- MODULE LearnerGates ----------------------------
(***************************************************************************)
(* The spec and contract gates on the learner's screen (workspace-app.tsx, *)
(* prompt-spec-service.ts, contract-gate-service.ts) and what the browser  *)
(* keeps of them (spec-persist.ts, contract-persist.ts).                   *)
(*                                                                         *)
(* A request is served, refused or lost; what the screen does then differs *)
(* from gate to gate: conversion and approval of the spec are made up in   *)
(* the browser after a refusal too, the contract gate only when there was  *)
(* no answer.  The server is ContractGate's, reduced to what it answers.   *)
(***************************************************************************)
EXTENDS Naturals

CONSTANT MaxConversions     \* bound on the specs converted (model bound)

VARIABLES
    spec,       \* the conversion shown (0: none), whether it is approved, the two requests
    contract,   \* the text edited, the result shown, whether it is approved, the request
    kept,       \* what sessionStorage holds of both
    converted,  \* how many conversions there have been
    server,     \* the server's row: spec approved, last validation, contract approved
    madeUp      \* history variable: the browser made up an answer of the contract gate

vars == <<spec, contract, kept, converted, server, madeUp>>

Drafts == {"good", "bad"}       \* texts the checks pass and fail
NoResult == "none"
Results == {NoResult, "passed", "failed"}

NoGate == [draft |-> "good", result |-> NoResult, approved |-> FALSE]
NoSpec == [version |-> 0, approved |-> FALSE]
NotAsked == [op |-> "none", draft |-> "good", result |-> NoResult, answer |-> "none"]

Init ==
    /\ spec = [version |-> 0, approved |-> FALSE, converting |-> FALSE, approving |-> 0]
    /\ contract = [gate |-> NoGate, request |-> NotAsked]
    /\ kept = [spec |-> NoSpec, contract |-> NoGate]
    /\ converted = 0
    /\ server = [spec |-> FALSE, validation |-> NoResult, approved |-> FALSE]
    /\ madeUp = FALSE

----------------------------------------------------------------------------
(* The prompt spec *)

Converts ==
    /\ ~spec.converting /\ ~spec.approved
    /\ spec' = [spec EXCEPT !.converting = TRUE]
    /\ UNCHANGED <<contract, kept, converted, server, madeUp>>

(* Served or made up, the conversion is shown and not approved, even if    *)
(* the one before was approved in the meantime. *)
ConversionArrives ==
    /\ spec.converting /\ converted < MaxConversions
    /\ converted' = converted + 1
    /\ spec' = [spec EXCEPT !.converting = FALSE, !.version = converted', !.approved = FALSE]
    /\ kept' = [kept EXCEPT !.spec = [version |-> converted', approved |-> FALSE]]
    /\ UNCHANGED <<contract, server, madeUp>>

Approves ==
    /\ spec.version # 0 /\ ~spec.approved /\ spec.approving = 0
    /\ spec' = [spec EXCEPT !.approving = spec.version]
    /\ UNCHANGED <<contract, kept, converted, server, madeUp>>

(* Served or not, the spec is approved on the screen, and the conversion   *)
(* that was sent is kept. *)
ApprovalArrives(served) ==
    /\ spec.approving # 0
    /\ server' = [server EXCEPT !.spec = @ \/ served]
    /\ kept' = [kept EXCEPT !.spec = [version |-> spec.approving, approved |-> TRUE]]
    /\ spec' = [spec EXCEPT !.approving = 0, !.approved = TRUE]
    /\ UNCHANGED <<contract, converted, madeUp>>

----------------------------------------------------------------------------
(* The contract *)

Gate == contract.gate
Request == contract.request

Outcome(draft) == IF draft = "good" THEN "passed" ELSE "failed"

Edits(draft) ==
    /\ spec.approved /\ ~Gate.approved
    /\ contract' = [contract EXCEPT !.gate.draft = draft]
    /\ UNCHANGED <<spec, kept, converted, server, madeUp>>

(* The tab is open once the screen shows an approved spec. *)
Asks(op) ==
    /\ spec.approved
    /\ Request.op = "none" /\ ~Gate.approved
    /\ op = "approve" => Gate.result = "passed"
    /\ contract' = [contract EXCEPT !.request =
          [op |-> op, draft |-> Gate.draft, result |-> Gate.result, answer |-> "none"]]
    /\ UNCHANGED <<spec, kept, converted, server, madeUp>>

(* The server's row changes; its answer is on the way.  An approval needs  *)
(* the spec approved and the last validation passed on the server.         *)
Serves ==
    /\ Request.op # "none" /\ Request.answer = "none"
    /\ IF Request.op = "validate"
       THEN /\ server' = [server EXCEPT !.validation = Outcome(Request.draft)]
            /\ contract' = [contract EXCEPT !.request.answer = Outcome(Request.draft)]
       ELSE IF server.spec /\ server.validation = "passed"
       THEN /\ server' = [server EXCEPT !.approved = TRUE]
            /\ contract' = [contract EXCEPT !.request.answer = "approved"]
       ELSE /\ UNCHANGED server
            /\ contract' = [contract EXCEPT !.request.answer = "refused"]
    /\ UNCHANGED <<spec, kept, converted, madeUp>>

(* {ok: false} or an HTTP error. *)
Refuses ==
    /\ Request.op # "none" /\ Request.answer = "none"
    /\ contract' = [contract EXCEPT !.request.answer = "refused"]
    /\ UNCHANGED <<spec, kept, converted, server, madeUp>>

(* Someone else who may use the session validates another text. *)
ValidatedElsewhere(outcome) ==
    /\ server' = [server EXCEPT !.validation = outcome]
    /\ UNCHANGED <<spec, contract, kept, converted, madeUp>>

(* What the screen makes of an answer: the gate it shows, and keeps with   *)
(* the text and the result the request was made with. *)
Concluded(op, answer) ==
    [draft |-> Request.draft,
     result |-> IF op = "validate" THEN answer ELSE Request.result,
     approved |-> op = "approve"]

Shows(g) ==
    /\ contract' = [gate |-> [g EXCEPT !.draft = Gate.draft], request |-> NotAsked]
    /\ kept' = [kept EXCEPT !.contract = g]

(* Mutant: a refused request is made up like one without an answer. *)
AnswerArrivesAnyway ==
    /\ Request.answer # "none"
    /\ Shows(Concluded(Request.op, IF Request.answer = "refused" THEN Outcome(Request.draft)
                                                                 ELSE Request.answer))
    /\ UNCHANGED <<spec, converted, server, madeUp>>

(* A refusal is an error message and leaves the gate as it is. *)
AnswerArrives ==
    /\ Request.answer # "none"
    /\ IF Request.answer = "refused"
       THEN /\ contract' = [contract EXCEPT !.request = NotAsked]
            /\ UNCHANGED kept
       ELSE Shows(Concluded(Request.op, Request.answer))
    /\ UNCHANGED <<spec, converted, server, madeUp>>

(* No answer comes: the mock validates the text, or approves. *)
AnswerMadeUp ==
    /\ Request.op # "none"
    /\ Shows(Concluded(Request.op, Outcome(Request.draft)))
    /\ madeUp' = TRUE
    /\ UNCHANGED <<spec, converted, server>>

(* The page is loaded again. *)
Loads ==
    /\ spec' = [version |-> kept.spec.version, approved |-> kept.spec.approved,
                converting |-> FALSE, approving |-> 0]
    /\ contract' = [gate |-> kept.contract, request |-> NotAsked]
    /\ UNCHANGED <<kept, converted, server, madeUp>>

Next ==
    \/ Converts \/ ConversionArrives \/ Approves \/ Loads
    \/ \E served \in BOOLEAN : ApprovalArrives(served)
    \/ \E d \in Drafts : Edits(d)
    \/ \E op \in {"validate", "approve"} : Asks(op)
    \/ Serves \/ Refuses \/ AnswerArrives \/ AnswerMadeUp
    \/ \E o \in {"passed", "failed"} : ValidatedElsewhere(o)

Spec == Init /\ [][Next]_vars

----------------------------------------------------------------------------
(* Properties *)

GateType == [draft: Drafts, result: Results, approved: BOOLEAN]

(* The gates, what is kept of them and the server's row keep their types. *)
TypeOK ==
    /\ spec \in [version: 0..MaxConversions, approved: BOOLEAN, converting: BOOLEAN,
                 approving: 0..MaxConversions]
    /\ contract \in [gate: GateType,
                     request: [op: {"none", "validate", "approve"}, draft: Drafts, result: Results,
                               answer: Results \cup {"approved", "refused"}]]
    /\ kept \in [spec: [version: 0..MaxConversions, approved: BOOLEAN], contract: GateType]
    /\ server \in [spec: BOOLEAN, validation: Results, approved: BOOLEAN]
    /\ converted \in 0..MaxConversions /\ madeUp \in BOOLEAN

(* The screen, and what it would show when loaded again, has the contract  *)
(* gate open only if the server opened it, however requests are refused or *)
(* cut off, unless an answer was made up because there was none; and it is *)
(* never open on a result that is not a pass. *)
ScreenOpensWithServer ==
    \A g \in {contract.gate, kept.contract} :
        g.approved => g.result = "passed" /\ (server.approved \/ madeUp)

----------------------------------------------------------------------------
(* The inductive invariant of the proofs. *)

(* An approval is asked for on a result that passed, and answered with     *)
(* "approved" by a server that has approved; a validation never is. *)
RequestIsCoherent ==
    /\ Request.op = "none" => Request.answer = "none"
    /\ Request.op = "validate" => Request.answer # "approved"
    /\ Request.op = "approve" => /\ Request.result = "passed"
                                 /\ Request.answer \in {"none", "approved", "refused"}
                                 /\ Request.answer = "approved" => server.approved

IInv == TypeOK /\ RequestIsCoherent /\ ScreenOpensWithServer

==============================================================================
