---------------------------- MODULE ArtifactReview ----------------------------
(***************************************************************************)
(* What learners hand in and its evaluation by a model of vision           *)
(* (session.controller.ts, openai-artifact-eval.service.ts): the row of an *)
(* artifact and the notifications of its session                           *)
(* (workspace-persistence.service.ts).                                     *)
(*                                                                         *)
(* The request that evaluates an artifact reads the row, awaits the model, *)
(* and stores what came of it in the row that is there by then; any number *)
(* of them may be at work.  Row and notification are written by two        *)
(* statements with no await between them: no other request comes in        *)
(* between, but the second may fail, and the process may die before it.    *)
(* The review that the upload queues belongs to Orchestration.             *)
(***************************************************************************)
EXTENDS Naturals

CONSTANTS
    Artifacts,  \* the artifacts handed in, one upload each
    Requests,   \* the evaluations in progress at one time
    Texts,      \* what the model says of a picture
    None        \* no artifact, no text

VARIABLES
    row,        \* session_artifact: the kind of its file and its evaluation
    onDisk,     \* the artifacts whose file can be read
    notice,     \* in_app_notification: the last one of kind artifact_evaluated
    requests,   \* how far each evaluation has come, and the text it brings
    untold      \* history variable: the artifacts whose feedback was stored by a
                \* request that got no further

vars == <<row, onDisk, notice, requests, untold>>

Mimes == {"image", "pdf"}

Evaluation == [status: {"none", "completed", "failed", "skipped"}, text: Texts \cup {None}]

Unevaluated == [status |-> "none", text |-> None]

NoRow == [mime |-> "absent", evaluation |-> Unevaluated]

Idle == [pc |-> "idle", artifact |-> None, text |-> None]

Init ==
    /\ row = [a \in Artifacts |-> NoRow]
    /\ onDisk = {}
    /\ notice = [a \in Artifacts |-> None]
    /\ requests = [r \in Requests |-> Idle]
    /\ untold = {}

----------------------------------------------------------------------------
(* Uploads *)

(* detectArtifactFileKind: the bytes decide, not the type the client sends; *)
(* what is neither a picture nor a PDF is refused.                         *)
FileKinds == {"png", "jpeg", "webp", "pdf"}

CanonicalMime(kind) == IF kind = "pdf" THEN "pdf" ELSE "image"

(* saveSessionArtifact: the file first, then the row.  An insert that      *)
(* fails leaves a file nobody knows of.                                    *)
Upload(a, kind) ==
    /\ row[a] = NoRow
    /\ row' = [row EXCEPT ![a].mime = CanonicalMime(kind)]
    /\ onDisk' = onDisk \cup {a}
    /\ UNCHANGED <<notice, requests, untold>>

(* The volume of the files is not that of the database. *)
FileDisappears(a) ==
    /\ a \in onDisk
    /\ onDisk' = onDisk \ {a}
    /\ UNCHANGED <<row, notice, requests, untold>>

----------------------------------------------------------------------------
(* Evaluations *)

(* setSessionArtifactEvaluation *)
SetEvaluation(a, status, text) ==
    row' = [row EXCEPT ![a].evaluation = [status |-> status, text |-> text]]

Cached(a, force) == ~force /\ row[a].evaluation.status = "completed"

EvaluateSkips(a, force) ==
    /\ row[a].mime = "pdf" /\ ~Cached(a, force)
    /\ SetEvaluation(a, "skipped", None)
    /\ UNCHANGED <<onDisk, notice, requests, untold>>

(* The file is read and the model is asked. *)
EvaluateBegins(r, a, force) ==
    /\ requests[r] = Idle
    /\ row[a].mime = "image" /\ a \in onDisk
    /\ ~Cached(a, force)
    /\ requests' = [requests EXCEPT ![r] = [Idle EXCEPT !.pc = "asked", !.artifact = a]]
    /\ UNCHANGED <<row, onDisk, notice, untold>>

(* evaluateImage asks once more after it was told to slow down. *)
RateLimited(r) ==
    /\ requests[r].pc = "asked"
    /\ requests' = [requests EXCEPT ![r].pc = "asked again"]
    /\ UNCHANGED <<row, onDisk, notice, untold>>

Waiting(r) == requests[r].pc \in {"asked", "asked again"}

Ends(r) == requests' = [requests EXCEPT ![r] = Idle]

(* The feedback is stored; the notification is the next statement. *)
EvaluationStored(r, text) ==
    /\ Waiting(r)
    /\ SetEvaluation(requests[r].artifact, "completed", text)
    /\ requests' = [requests EXCEPT ![r].pc = "stored", ![r].text = text]
    /\ UNCHANGED <<onDisk, notice, untold>>

(* The model gives up, or its text cannot be stored: the catch stores a    *)
(* failure over what is there, if it can.                                  *)
EvaluationFails(r) ==
    /\ Waiting(r)
    /\ SetEvaluation(requests[r].artifact, "failed", None) \/ UNCHANGED row
    /\ Ends(r)
    /\ UNCHANGED <<onDisk, notice, untold>>

NoticeAppended(r) ==
    /\ requests[r].pc = "stored"
    /\ notice' = [notice EXCEPT ![requests[r].artifact] = requests[r].text]
    /\ untold' = untold \ {requests[r].artifact}
    /\ Ends(r)
    /\ UNCHANGED <<row, onDisk>>

(* The notification cannot be inserted: the same catch takes the feedback  *)
(* back.                                                                   *)
NoticeFails(r) ==
    /\ requests[r].pc = "stored"
    /\ SetEvaluation(requests[r].artifact, "failed", None)
    /\ Ends(r)
    /\ UNCHANGED <<onDisk, notice, untold>>

(* Nor can the failure be stored: the request ends with an error, and the  *)
(* feedback stays.                                                         *)
NobodyIsTold(r) ==
    /\ requests[r].pc = "stored"
    /\ untold' = untold \cup {requests[r].artifact}
    /\ Ends(r)
    /\ UNCHANGED <<row, onDisk, notice>>

(* The process dies: what is stored stays. *)
Crash ==
    /\ \E r \in Requests : requests[r] # Idle
    /\ requests' = [r \in Requests |-> Idle]
    /\ untold' = untold \cup
          {requests[r].artifact : r \in {q \in Requests : requests[q].pc = "stored"}}
    /\ UNCHANGED <<row, onDisk, notice>>

(* Mutant: the two statements are awaited one by one. *)
AlwaysFree == TRUE

(* No request is between its two statements. *)
LoopIsFree == \A r \in Requests : requests[r].pc # "stored"

Next ==
    \/ /\ LoopIsFree
       /\ \/ \E a \in Artifacts :
                \/ \E kind \in FileKinds : Upload(a, kind)
                \/ \E force \in BOOLEAN :
                      EvaluateSkips(a, force) \/ \E r \in Requests : EvaluateBegins(r, a, force)
          \/ \E r \in Requests :
                RateLimited(r) \/ EvaluationFails(r) \/ \E t \in Texts : EvaluationStored(r, t)
    \/ \E r \in Requests : NoticeAppended(r) \/ NoticeFails(r) \/ NobodyIsTold(r)
    \/ \E a \in Artifacts : FileDisappears(a)
    \/ Crash

Spec == Init /\ [][Next]_vars

----------------------------------------------------------------------------
(* Properties *)

(* The rows, the notifications and the evaluations at work keep their types. *)
TypeOK ==
    /\ row \in [Artifacts -> [mime: Mimes \cup {"absent"}, evaluation: Evaluation]]
    /\ onDisk \subseteq Artifacts
    /\ notice \in [Artifacts -> Texts \cup {None}]
    /\ requests \in [Requests ->
          [pc: {"idle", "asked", "asked again", "stored"}, artifact: Artifacts \cup {None},
           text: Texts \cup {None}]]
    /\ untold \subseteq Artifacts

(* Request r has stored its feedback on a and is about to announce it. *)
Announces(r, a) == requests[r].pc = "stored" /\ requests[r].artifact = a

(* However evaluations of one artifact overlap and fail, the feedback that *)
(* is stored is the feedback its owner was last told of, once the request  *)
(* that stored it is through; only one that died or could not write        *)
(* between the two leaves a feedback nobody was told of, until the         *)
(* artifact is evaluated again.                                            *)
FeedbackIsTheOneAnnounced ==
    \A a \in Artifacts :
        \/ row[a].evaluation.status # "completed"
        \/ notice[a] = row[a].evaluation.text
        \/ a \in untold
        \/ \E r \in Requests : Announces(r, a)

----------------------------------------------------------------------------
(* The inductive invariant of the proofs. *)

(* What is about to be announced is what is stored, and no other request   *)
(* is as far.                                                              *)
OneAnnounces ==
    /\ \A r \in Requests : Waiting(r) => requests[r].artifact \in Artifacts
    /\ \A r \in Requests : requests[r].pc = "stored" =>
          /\ requests[r].artifact \in Artifacts
          /\ row[requests[r].artifact].evaluation = [status |-> "completed",
                                                     text |-> requests[r].text]
    /\ \A r, q \in Requests :
          requests[r].pc = "stored" /\ requests[q].pc = "stored" => r = q

IInv == TypeOK /\ OneAnnounces /\ FeedbackIsTheOneAnnounced

==============================================================================
