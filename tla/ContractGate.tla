---------------------------- MODULE ContractGate ----------------------------
(***************************************************************************)
(* The contract gate of a workspace session: approval of the prompt spec   *)
(* (session.controller.ts), validation and approval of the contract        *)
(* (contract-gate.controller.ts), the definition-of-done check             *)
(* (workspace-dod-verify.controller.ts) and the discussion pings           *)
(* (discussion-ping.service.ts), which read the same row.                  *)
(*                                                                         *)
(* Each request reads and writes the row in one step; only the             *)
(* definition-of-done check awaits, a script, between what it reads and    *)
(* its answer.                                                             *)
(***************************************************************************)
EXTENDS Naturals, FiniteSets

CONSTANTS
    Checks,         \* definition-of-done requests in progress at one time
    SpecVersions,   \* the versions clients approve; any number is taken
    Cooldown        \* DISCUSSION_PING_COOLDOWN_MINUTES

VARIABLES
    row,        \* what the requests read of the session's row
    checks,     \* what each definition-of-done request has read
    done,       \* history variable: a definition-of-done request was answered "passed"
    age,        \* in_app_notification: the age of each kind's last notification;
                \* Cooldown stands for that age, any greater one, and none
    everReady,  \* history variable: spec and contract have been in order at one moment
    pinged      \* history variable: the last step was a ping

vars == <<row, checks, done, age, everReady, pinged>>

Kinds == {"prompt_spec_pending", "contract_validation", "contract_not_validated",
          "pr_comments", "open_questions"}

SpecApproved(r) == r.specVersion > 0

Ready(r) == SpecApproved(r) /\ r.validation = "passed"

Silent == [asked |-> FALSE, spec |-> FALSE, contract |-> FALSE]

Init ==
    /\ row = [specVersion |-> 0, validation |-> "none", approved |-> FALSE,
              pendingComments |-> FALSE, openQuestions |-> FALSE]
    /\ checks = [c \in Checks |-> Silent]
    /\ done = FALSE
    /\ age = [k \in Kinds |-> Cooldown]
    /\ everReady = FALSE
    /\ pinged = FALSE

----------------------------------------------------------------------------
(* Gates *)

Save(r) ==
    /\ row' = r
    /\ everReady' = (everReady \/ Ready(r))
    /\ pinged' = FALSE
    /\ UNCHANGED <<checks, done, age>>

(* Any number is recorded; 0, though "approved", is not an approval. *)
ApproveSpec(v) == Save([row EXCEPT !.specVersion = v])

(* The last validation is replaced; an approval stays. *)
ValidateContract(outcome) == Save([row EXCEPT !.validation = outcome])

(* Mutant: the prompt spec is not asked for. *)
ApproveContractAnySpec ==
    /\ row.validation = "passed"
    /\ Save([row EXCEPT !.approved = TRUE])

ApproveContract ==
    /\ SpecApproved(row)
    /\ row.validation = "passed"
    /\ Save([row EXCEPT !.approved = TRUE])

(* The pull request's comments and the project state change elsewhere. *)
ChangesElsewhere ==
    \E c, q \in BOOLEAN : Save([row EXCEPT !.pendingComments = c, !.openQuestions = q])

----------------------------------------------------------------------------
(* Definition of done *)

VerifyReads(c) ==
    /\ ~checks[c].asked
    /\ checks' = [checks EXCEPT ![c] =
          [asked |-> TRUE, spec |-> SpecApproved(row), contract |-> row.validation = "passed"]]
    /\ pinged' = FALSE
    /\ UNCHANGED <<row, done, age, everReady>>

VerifyAnswers(c, script) ==
    /\ checks[c].asked
    /\ done' = (done \/ (checks[c].spec /\ checks[c].contract /\ script))
    /\ checks' = [checks EXCEPT ![c] = Silent]
    /\ pinged' = FALSE
    /\ UNCHANGED <<row, age, everReady>>

----------------------------------------------------------------------------
(* Discussion pings *)

(* What a session is reminded of. *)
Concerns(r) ==
    (IF SpecApproved(r) THEN {} ELSE {"prompt_spec_pending"})
        \cup (IF ~r.approved /\ r.validation = "failed" THEN {"contract_validation"} ELSE {})
        \cup (IF ~r.approved /\ r.validation = "none" THEN {"contract_not_validated"} ELSE {})
        \cup (IF r.pendingComments THEN {"pr_comments"} ELSE {})
        \cup (IF r.openQuestions THEN {"open_questions"} ELSE {})

(* Mutant: one recent notification silences the session. *)
RecentOfAnyKind(kind) == \E k \in Kinds : age[k] < Cooldown

(* hasRecentInAppNotification *)
Recent(kind) == age[kind] < Cooldown

EvaluateSession(force) ==
    /\ age' = [k \in Kinds |->
          IF k \in Concerns(row) /\ (force \/ ~Recent(k)) THEN 0 ELSE age[k]]
    /\ pinged' = TRUE
    /\ UNCHANGED <<row, checks, done, everReady>>

Ping == \E force \in BOOLEAN : EvaluateSession(force)

Tick ==
    /\ \E k \in Kinds : age[k] < Cooldown
    /\ age' = [k \in Kinds |-> IF age[k] < Cooldown THEN age[k] + 1 ELSE Cooldown]
    /\ pinged' = FALSE
    /\ UNCHANGED <<row, checks, done, everReady>>

Next ==
    \/ \E v \in SpecVersions : ApproveSpec(v)
    \/ \E o \in {"passed", "failed"} : ValidateContract(o)
    \/ ApproveContract
    \/ ChangesElsewhere
    \/ \E c \in Checks : VerifyReads(c) \/ \E script \in BOOLEAN : VerifyAnswers(c, script)
    \/ Ping
    \/ Tick

Spec == Init /\ [][Next]_vars

----------------------------------------------------------------------------
(* Properties *)

(* The row, the checks in progress and the notifications keep their types. *)
TypeOK ==
    /\ row \in [specVersion: SpecVersions \cup {0}, validation: {"none", "passed", "failed"},
                approved: BOOLEAN, pendingComments: BOOLEAN, openQuestions: BOOLEAN]
    /\ checks \in [Checks -> [asked: BOOLEAN, spec: BOOLEAN, contract: BOOLEAN]]
    /\ age \in [Kinds -> 0..Cooldown]
    /\ done \in BOOLEAN /\ everReady \in BOOLEAN /\ pinged \in BOOLEAN

(* Whatever the order in which specs are approved and taken back and       *)
(* contracts validated, the gate opens, and the definition of done is      *)
(* reached, only in a session in which a spec was approved while the last  *)
(* validation had passed.                                                  *)
GateWasEarned == row.approved \/ done => everReady

(* A ping leaves no concern unspoken: each thing the session should be     *)
(* reminded of has a notification younger than the cooldown.               *)
ConcernsAreRaised == pinged => \A k \in Concerns(row) : age[k] < Cooldown

(* What makes GateWasEarned inductive: what a check has read in order was  *)
(* in order when it read. *)
Earned ==
    /\ TypeOK
    /\ GateWasEarned
    /\ Ready(row) => everReady
    /\ \A c \in Checks : checks[c].spec /\ checks[c].contract => everReady

==============================================================================
