--------------------------- MODULE ApiPartsProofs ---------------------------
(***************************************************************************)
(* The components of the API that share no step with one another: for each *)
(* that its type and its safety invariants hold of every behaviour of its  *)
(* own, with any number of users, requests, snapshots, deliveries and so   *)
(* on.  A behaviour of MCWorkspace is a behaviour of one component; v1,    *)
(* v2, ... are its variables in the order in which its module declares     *)
(* them.                                                                   *)
(***************************************************************************)
EXTENDS MCWorkspace, FiniteSetTheorems, SequenceTheorems, TLAPS

----------------------------------------------------------------------------
(* A behaviour is of one component. *)

LEMMA PartInit ==
    Init => /\ part = "state" => State!Init
            /\ part = "vfs" => Vfs!Init
            /\ part = "contract" => Contract!Init
            /\ part = "ingest" => Ingest!Init
            /\ part = "artifact" => Artifact!Init
            /\ part = "account" => Account!Init
            /\ part = "timeline" => Timeline!Init
            /\ part = "retro" => Retro!Init
            /\ part = "pipeline" => Pipeline!Init
            /\ part = "run" => Run!Init
            /\ part = "browser" => Browser!Init
            /\ part = "screen" => Screen!Init
            /\ part = "learner" => Learner!Init
            /\ part = "notice" => Notice!Init
            /\ part = "image" => Image!Init
            /\ part = "report" => Report!Init
            /\ part = "chat" => Chat!Init
  BY DEF Init

LEMMA PartNext ==
    [Next]_vars => /\ UNCHANGED part
                   /\ part = "state" => [State!Next]_(State!vars)
                   /\ part = "vfs" => [Vfs!Next]_(Vfs!vars)
                   /\ part = "contract" => [Contract!Next]_(Contract!vars)
                   /\ part = "ingest" => [Ingest!Next]_(Ingest!vars)
                   /\ part = "artifact" => [Artifact!Next]_(Artifact!vars)
                   /\ part = "account" => [Account!Next]_(Account!vars)
                   /\ part = "timeline" => [Timeline!Next]_(Timeline!vars)
                   /\ part = "retro" => [Retro!Next]_(Retro!vars)
                   /\ part = "pipeline" => [Pipeline!Next]_(Pipeline!vars)
                   /\ part = "run" => [Run!Next]_(Run!vars)
                   /\ part = "browser" => [Browser!Next]_(Browser!vars)
                   /\ part = "screen" => [Screen!Next]_(Screen!vars)
                   /\ part = "learner" => [Learner!Next]_(Learner!vars)
                   /\ part = "notice" => [Notice!Next]_(Notice!vars)
                   /\ part = "image" => [Image!Next]_(Image!vars)
                   /\ part = "report" => [Report!Next]_(Report!vars)
                   /\ part = "chat" => [Chat!Next]_(Chat!vars)
<1>1. Next => /\ UNCHANGED part
              /\ part = "state" => State!Next
              /\ part = "vfs" => Vfs!Next
              /\ part = "contract" => Contract!Next
              /\ part = "ingest" => Ingest!Next
              /\ part = "artifact" => Artifact!Next
              /\ part = "account" => Account!Next
              /\ part = "timeline" => Timeline!Next
              /\ part = "retro" => Retro!Next
              /\ part = "pipeline" => Pipeline!Next
              /\ part = "run" => Run!Next
              /\ part = "browser" => Browser!Next
              /\ part = "screen" => Screen!Next
              /\ part = "learner" => Learner!Next
              /\ part = "notice" => Notice!Next
              /\ part = "image" => Image!Next
              /\ part = "report" => Report!Next
              /\ part = "chat" => Chat!Next
  BY DEF Next
<1>2. UNCHANGED vars => UNCHANGED <<part, v1, v2, v3, v4, v5, v6, v7, v8, v9>>
  BY DEF vars
<1>3. UNCHANGED <<v1, v2, v3, v4, v5, v6, v7, v8, v9>> =>
         /\ UNCHANGED State!vars
         /\ UNCHANGED Vfs!vars
         /\ UNCHANGED Contract!vars
         /\ UNCHANGED Ingest!vars
         /\ UNCHANGED Artifact!vars
         /\ UNCHANGED Account!vars
         /\ UNCHANGED Timeline!vars
         /\ UNCHANGED Retro!vars
         /\ UNCHANGED Pipeline!vars
         /\ UNCHANGED Run!vars
         /\ UNCHANGED Browser!vars
         /\ UNCHANGED Screen!vars
         /\ UNCHANGED Learner!vars
         /\ UNCHANGED Notice!vars
         /\ UNCHANGED Image!vars
         /\ UNCHANGED Report!vars
         /\ UNCHANGED Chat!vars
  BY DEF State!vars, Vfs!vars, Contract!vars, Ingest!vars, Artifact!vars,
     Account!vars, Timeline!vars, Retro!vars, Pipeline!vars, Run!vars,
     Browser!vars, Screen!vars, Learner!vars, Notice!vars, Image!vars,
     Report!vars, Chat!vars
<1>. QED
  BY <1>1, <1>2, <1>3

----------------------------------------------------------------------------
(* ContractGate *)

LEMMA InitContract == Contract!Init => Contract!Earned /\ Contract!ConcernsAreRaised
<1>. SUFFICES ASSUME Contract!Init PROVE Contract!Earned /\ Contract!ConcernsAreRaised
  OBVIOUS
<1>1. v4 \in [Contract!Kinds -> 0..Cooldown]
  <2>1. Cooldown \in 0..Cooldown
    BY WorkspaceAssumption
  <2>. QED
    BY <2>1 DEF Contract!Init
<1>2. Contract!TypeOK
  BY <1>1 DEF Contract!Init, Contract!TypeOK, Contract!Silent
<1>. QED
  BY <1>2 DEF Contract!Init, Contract!Earned, Contract!GateWasEarned, Contract!Ready,
     Contract!SpecApproved, Contract!Silent, Contract!ConcernsAreRaised

LEMMA TypedContract ==
    ASSUME Contract!TypeOK, [Contract!Next]_(Contract!vars)
    PROVE  Contract!TypeOK'
<1>. USE WorkspaceAssumption DEF Contract!TypeOK
<1>1. ASSUME NEW v \in SpecVersions, Contract!ApproveSpec(v) PROVE Contract!TypeOK'
  BY <1>1 DEF Contract!ApproveSpec, Contract!Save
<1>2. ASSUME NEW o \in {"passed", "failed"}, Contract!ValidateContract(o) PROVE Contract!TypeOK'
  BY <1>2 DEF Contract!ValidateContract, Contract!Save
<1>3. CASE Contract!ApproveContract
  BY <1>3 DEF Contract!ApproveContract, Contract!Save
<1>4. CASE Contract!ChangesElsewhere
  BY <1>4 DEF Contract!ChangesElsewhere, Contract!Save
<1>5. ASSUME NEW c \in Checks, Contract!VerifyReads(c) PROVE Contract!TypeOK'
  <2>1. Contract!SpecApproved(v1) \in BOOLEAN /\ (v1.validation = "passed") \in BOOLEAN
    BY DEF Contract!SpecApproved
  <2>. QED
    BY <1>5, <2>1 DEF Contract!VerifyReads
<1>6. ASSUME NEW c \in Checks, NEW script \in BOOLEAN, Contract!VerifyAnswers(c, script)
      PROVE  Contract!TypeOK'
  BY <1>6 DEF Contract!VerifyAnswers, Contract!Silent
<1>7. CASE Contract!Ping
  BY <1>7 DEF Contract!Ping, Contract!EvaluateSession
<1>8. CASE Contract!Tick
  <2>1. \A k \in Contract!Kinds :
           (IF v4[k] < Cooldown THEN v4[k] + 1 ELSE Cooldown) \in 0..Cooldown
    OBVIOUS
  <2>. QED
    BY <1>8, <2>1 DEF Contract!Tick
<1>9. CASE UNCHANGED Contract!vars
  BY <1>9 DEF Contract!vars
<1>. HIDE DEF Contract!TypeOK
<1>. QED
  BY <1>1, <1>2, <1>3, <1>4, <1>5, <1>6, <1>7, <1>8, <1>9 DEF Contract!Next

LEMMA NextContract ==
    ASSUME Contract!Earned, Contract!ConcernsAreRaised, [Contract!Next]_(Contract!vars)
    PROVE  Contract!Earned' /\ Contract!ConcernsAreRaised'
<1>. USE DEF Contract!Earned, Contract!GateWasEarned, Contract!Ready, Contract!SpecApproved,
             Contract!ConcernsAreRaised
<1>. Contract!TypeOK /\ Contract!TypeOK'
  BY TypedContract
<1>1. ASSUME NEW r, Contract!Save(r), r.approved => v1.approved \/ Contract!Ready(v1)
      PROVE  Contract!Earned' /\ Contract!ConcernsAreRaised'
  BY <1>1 DEF Contract!Save
<1>2. ASSUME NEW v \in SpecVersions, Contract!ApproveSpec(v)
      PROVE  Contract!Earned' /\ Contract!ConcernsAreRaised'
  BY <1>2, <1>1 DEF Contract!ApproveSpec, Contract!TypeOK
<1>3. ASSUME NEW o \in {"passed", "failed"}, Contract!ValidateContract(o)
      PROVE  Contract!Earned' /\ Contract!ConcernsAreRaised'
  BY <1>3, <1>1 DEF Contract!ValidateContract, Contract!TypeOK
<1>4. CASE Contract!ApproveContract
  BY <1>4, <1>1 DEF Contract!ApproveContract
<1>5. CASE Contract!ChangesElsewhere
  BY <1>5, <1>1 DEF Contract!ChangesElsewhere, Contract!TypeOK
<1>6. ASSUME NEW c \in Checks, Contract!VerifyReads(c)
      PROVE  Contract!Earned' /\ Contract!ConcernsAreRaised'
  BY <1>6 DEF Contract!VerifyReads, Contract!TypeOK
<1>7. ASSUME NEW c \in Checks, NEW script \in BOOLEAN, Contract!VerifyAnswers(c, script)
      PROVE  Contract!Earned' /\ Contract!ConcernsAreRaised'
  BY <1>7 DEF Contract!VerifyAnswers, Contract!Silent, Contract!TypeOK
<1>8. CASE Contract!Ping
  <2>1. PICK force \in BOOLEAN : Contract!EvaluateSession(force)
    BY <1>8 DEF Contract!Ping
  <2>2. ASSUME NEW k \in Contract!Concerns(v1) PROVE v4'[k] < Cooldown
    <3>1. k \in Contract!Kinds
      BY DEF Contract!Concerns, Contract!Kinds
    <3>. QED
      BY <2>1, <3>1, WorkspaceAssumption DEF Contract!EvaluateSession, Contract!Recent
  <2>. QED
    BY <2>1, <2>2 DEF Contract!EvaluateSession
<1>9. CASE Contract!Tick
  BY <1>9 DEF Contract!Tick
<1>10. CASE UNCHANGED Contract!vars
  BY <1>10 DEF Contract!vars
<1>. QED
  BY <1>2, <1>3, <1>4, <1>5, <1>6, <1>7, <1>8, <1>9, <1>10 DEF Contract!Next

----------------------------------------------------------------------------
(* ArtifactReview *)

LEMMA InitArtifact == Artifact!Init => Artifact!IInv
<1>. SUFFICES ASSUME Artifact!Init PROVE Artifact!IInv
  OBVIOUS
<1>1. Artifact!TypeOK
  BY DEF Artifact!Init, Artifact!TypeOK, Artifact!NoRow, Artifact!Unevaluated,
         Artifact!Evaluation, Artifact!Idle, Artifact!Mimes
<1>2. \A r \in Requests : v4[r].pc = "idle"
  BY DEF Artifact!Init, Artifact!Idle
<1>3. Artifact!OneAnnounces
  BY <1>2 DEF Artifact!OneAnnounces, Artifact!Waiting
<1>4. \A a \in Items : v1[a].evaluation.status = "none"
  BY DEF Artifact!Init, Artifact!NoRow, Artifact!Unevaluated
<1>5. Artifact!FeedbackIsTheOneAnnounced
  BY <1>4 DEF Artifact!FeedbackIsTheOneAnnounced
<1>. QED
  BY <1>1, <1>3, <1>5 DEF Artifact!IInv

(* One row takes the evaluation, if there is such a row. *)
LEMMA EvaluationIsSet ==
    ASSUME Artifact!TypeOK, NEW a, NEW status \in {"none", "completed", "failed", "skipped"},
           NEW text \in Users \cup {None}, Artifact!SetEvaluation(a, status, text)
    PROVE  /\ v1' \in [Items -> [mime: Artifact!Mimes \cup {"absent"},
                                 evaluation: Artifact!Evaluation]]
           /\ \A b \in Items :
                 /\ b = a => /\ v1'[b].evaluation.status = status
                             /\ v1'[b].evaluation.text = text
                 /\ b # a => v1'[b] = v1[b]
<1>. DEFINE e == [status |-> status, text |-> text]
<1>1. e \in Artifact!Evaluation /\ e.status = status /\ e.text = text
  BY DEF Artifact!Evaluation
<1>2. v1' = [v1 EXCEPT ![a].evaluation = e]
  BY DEF Artifact!SetEvaluation
<1>. HIDE DEF e
<1>3. v1 \in [Items -> [mime: Artifact!Mimes \cup {"absent"}, evaluation: Artifact!Evaluation]]
  BY DEF Artifact!TypeOK
<1>4. v1' \in [Items -> [mime: Artifact!Mimes \cup {"absent"}, evaluation: Artifact!Evaluation]]
  BY <1>1, <1>2, <1>3
<1>5. \A b \in Items : v1'[b] = IF b = a THEN [v1[b] EXCEPT !.evaluation = e] ELSE v1[b]
  BY <1>2, <1>3
<1>6. \A b \in Items : b = a => v1'[b].evaluation = e
  BY <1>5, <1>3
<1>. QED
  BY <1>1, <1>4, <1>5, <1>6

(* A step after which no request is between its two statements. *)
LEMMA ArtifactAtRest ==
    ASSUME Artifact!TypeOK', \A r \in Requests : v4'[r].pc # "stored",
           \A r \in Requests : Artifact!Waiting(r)' => v4'[r].artifact \in Items,
           \A b \in Items : \/ v1'[b].evaluation.status # "completed"
                            \/ v3'[b] = v1'[b].evaluation.text
                            \/ b \in v5'
    PROVE  Artifact!IInv'
<1>1. Artifact!OneAnnounces'
  BY DEF Artifact!OneAnnounces
<1>2. Artifact!FeedbackIsTheOneAnnounced'
  BY DEF Artifact!FeedbackIsTheOneAnnounced
<1>. QED
  BY <1>1, <1>2 DEF Artifact!IInv

(* The steps that no request makes while another is between its two. *)
LEMMA FreeArtifactStep ==
    ASSUME Artifact!IInv, Artifact!LoopIsFree,
           \/ \E a \in Items :
                 \/ \E kind \in Artifact!FileKinds : Artifact!Upload(a, kind)
                 \/ \E force \in BOOLEAN :
                       \/ Artifact!EvaluateSkips(a, force)
                       \/ \E r \in Requests : Artifact!EvaluateBegins(r, a, force)
           \/ \E r \in Requests :
                 \/ Artifact!RateLimited(r) \/ Artifact!EvaluationFails(r)
                 \/ \E t \in Users : Artifact!EvaluationStored(r, t)
    PROVE  Artifact!IInv'
<1>1. /\ v1 \in [Items -> [mime: Artifact!Mimes \cup {"absent"}, evaluation: Artifact!Evaluation]]
      /\ v2 \subseteq Items /\ v3 \in [Items -> Users \cup {None}] /\ v5 \subseteq Items
      /\ v4 \in [Requests -> [pc: {"idle", "asked", "asked again", "stored"},
                              artifact: Items \cup {None}, text: Users \cup {None}]]
  BY DEF Artifact!IInv, Artifact!TypeOK
<1>2. \A r \in Requests : /\ v4[r].pc # "stored"
                          /\ Artifact!Waiting(r) => v4[r].artifact \in Items
  BY DEF Artifact!IInv, Artifact!OneAnnounces, Artifact!LoopIsFree
<1>3. \A b \in Items : \/ v1[b].evaluation.status # "completed"
                       \/ v3[b] = v1[b].evaluation.text
                       \/ b \in v5
  BY <1>2 DEF Artifact!IInv, Artifact!FeedbackIsTheOneAnnounced, Artifact!Announces
<1>4. Artifact!TypeOK
  BY DEF Artifact!IInv
<1>5. ASSUME NEW a \in Items, NEW kind \in Artifact!FileKinds, Artifact!Upload(a, kind)
      PROVE  Artifact!IInv'
  <2>1. Artifact!CanonicalMime(kind) \in Artifact!Mimes
    BY DEF Artifact!CanonicalMime, Artifact!Mimes
  <2>2. v1' = [v1 EXCEPT ![a].mime = Artifact!CanonicalMime(kind)] /\ v2' = v2 \cup {a}
        /\ UNCHANGED <<v3, v4, v5>>
    BY <1>5 DEF Artifact!Upload
  <2>3. v1' \in [Items -> [mime: Artifact!Mimes \cup {"absent"}, evaluation: Artifact!Evaluation]]
    BY <1>1, <2>1, <2>2
  <2>4. \A b \in Items : v1'[b].evaluation = v1[b].evaluation
    BY <1>1, <2>2
  <2>5. Artifact!TypeOK'
    BY <1>1, <2>2, <2>3 DEF Artifact!TypeOK
  <2>6. \A r \in Requests : Artifact!Waiting(r)' => v4'[r].artifact \in Items
    BY <1>2, <2>2 DEF Artifact!Waiting
  <2>. QED
    BY <1>2, <1>3, <2>2, <2>4, <2>5, <2>6, ArtifactAtRest
<1>6. ASSUME NEW a \in Items, NEW force \in BOOLEAN, Artifact!EvaluateSkips(a, force)
      PROVE  Artifact!IInv'
  <2>1. Artifact!SetEvaluation(a, "skipped", None) /\ UNCHANGED <<v2, v3, v4, v5>>
    BY <1>6 DEF Artifact!EvaluateSkips
  <2>2. /\ v1' \in [Items -> [mime: Artifact!Mimes \cup {"absent"}, evaluation: Artifact!Evaluation]]
        /\ \A b \in Items : /\ b = a => v1'[b].evaluation.status = "skipped"
                                      /\ v1'[b].evaluation.text = None
                            /\ b # a => v1'[b] = v1[b]
    <3>. DEFINE e == [status |-> "skipped", text |-> None]
    <3>1. v1' = [v1 EXCEPT ![a].evaluation = e]
      BY <2>1 DEF Artifact!SetEvaluation
    <3>2. e \in Artifact!Evaluation /\ e.status = "skipped" /\ e.text = None
      BY DEF Artifact!Evaluation
    <3>. HIDE DEF e
    <3>. QED
      BY <1>1, <3>1, <3>2
  <2>3. Artifact!TypeOK'
    BY <1>1, <2>1, <2>2 DEF Artifact!TypeOK
  <2>4. \A r \in Requests : Artifact!Waiting(r)' => v4'[r].artifact \in Items
    BY <1>2, <2>1 DEF Artifact!Waiting
  <2>. QED
    BY <1>2, <1>3, <2>1, <2>2, <2>3, <2>4, ArtifactAtRest
<1>7. ASSUME NEW r \in Requests, NEW x,
             x \in [pc: {"idle", "asked", "asked again"}, artifact: Items \cup {None},
                   text: Users \cup {None}],
             x.pc # "idle" => x.artifact \in Items,
             v4' = [v4 EXCEPT ![r] = x], UNCHANGED <<v1, v2, v3, v5>>
      PROVE  Artifact!IInv'
  <2>1. \A q \in Requests : v4'[q] = IF q = r THEN x ELSE v4[q]
    BY <1>1, <1>7
  <2>2. v4' \in [Requests -> [pc: {"idle", "asked", "asked again", "stored"},
                             artifact: Items \cup {None}, text: Users \cup {None}]]
    BY <1>1, <1>7
  <2>3. Artifact!TypeOK'
    BY <1>1, <1>7, <2>2 DEF Artifact!TypeOK
  <2>4. \A q \in Requests : v4'[q].pc # "stored"
    BY <1>2, <1>7, <2>1
  <2>5. \A q \in Requests : Artifact!Waiting(q)' => v4'[q].artifact \in Items
    BY <1>2, <1>7, <2>1 DEF Artifact!Waiting
  <2>. QED
    BY <1>3, <1>7, <2>3, <2>4, <2>5, ArtifactAtRest
<1>8. ASSUME NEW a \in Items, NEW force \in BOOLEAN, NEW r \in Requests,
             Artifact!EvaluateBegins(r, a, force)
      PROVE  Artifact!IInv'
  <2>. DEFINE x == [Artifact!Idle EXCEPT !.pc = "asked", !.artifact = a]
  <2>1. v4' = [v4 EXCEPT ![r] = x] /\ UNCHANGED <<v1, v2, v3, v5>>
    BY <1>8 DEF Artifact!EvaluateBegins
  <2>2. x \in [pc: {"idle", "asked", "asked again"}, artifact: Items \cup {None},
              text: Users \cup {None}] /\ x.artifact \in Items
    BY DEF Artifact!Idle
  <2>. HIDE DEF x
  <2>. QED
    BY <1>7, <2>1, <2>2
<1>9. ASSUME NEW r \in Requests, Artifact!RateLimited(r)
      PROVE  Artifact!IInv'
  <2>. DEFINE x == [v4[r] EXCEPT !.pc = "asked again"]
  <2>1. v4[r].artifact \in Items
    BY <1>2, <1>9 DEF Artifact!RateLimited, Artifact!Waiting
  <2>2. v4' = [v4 EXCEPT ![r] = x] /\ UNCHANGED <<v1, v2, v3, v5>>
    BY <1>9 DEF Artifact!RateLimited
  <2>3. x \in [pc: {"idle", "asked", "asked again"}, artifact: Items \cup {None},
              text: Users \cup {None}] /\ x.artifact \in Items
    BY <1>1, <2>1
  <2>. HIDE DEF x
  <2>. QED
    BY <1>7, <2>2, <2>3
<1>10. ASSUME NEW r \in Requests, Artifact!EvaluationFails(r)
       PROVE  Artifact!IInv'
  <2>. DEFINE a == v4[r].artifact
  <2>1. /\ Artifact!SetEvaluation(a, "failed", None) \/ v1' = v1
        /\ v4' = [v4 EXCEPT ![r] = Artifact!Idle] /\ UNCHANGED <<v2, v3, v5>>
    BY <1>10 DEF Artifact!EvaluationFails, Artifact!Ends
  <2>2. Artifact!Idle \in [pc: {"idle", "asked", "asked again"}, artifact: Items \cup {None},
                          text: Users \cup {None}] /\ Artifact!Idle.pc = "idle"
    BY DEF Artifact!Idle
  <2>3. CASE v1' = v1
    BY <1>7, <2>1, <2>2, <2>3
  <2>4. CASE Artifact!SetEvaluation(a, "failed", None)
    <3>1. /\ v1' \in [Items -> [mime: Artifact!Mimes \cup {"absent"},
                                evaluation: Artifact!Evaluation]]
          /\ \A b \in Items : /\ b = a => v1'[b].evaluation.status = "failed" /\ v1'[b].evaluation.text = None
                              /\ b # a => v1'[b] = v1[b]
      BY <1>4, <2>4, EvaluationIsSet
    <3>2. \A q \in Requests : v4'[q] = IF q = r THEN Artifact!Idle ELSE v4[q]
      BY <1>1, <2>1
    <3>3. v4' \in [Requests -> [pc: {"idle", "asked", "asked again", "stored"},
                               artifact: Items \cup {None}, text: Users \cup {None}]]
      BY <1>1, <2>1, <2>2
    <3>4. Artifact!TypeOK'
      BY <1>1, <2>1, <3>1, <3>3 DEF Artifact!TypeOK
    <3>5. \A q \in Requests : v4'[q].pc # "stored"
      BY <1>2, <2>2, <3>2
    <3>6. \A q \in Requests : Artifact!Waiting(q)' => v4'[q].artifact \in Items
      BY <1>2, <2>2, <3>2 DEF Artifact!Waiting
    <3>. QED
      BY <1>3, <2>1, <3>1, <3>4, <3>5, <3>6, ArtifactAtRest
  <2>. QED
    BY <2>1, <2>3, <2>4
<1>11. ASSUME NEW r \in Requests, NEW t \in Users, Artifact!EvaluationStored(r, t)
       PROVE  Artifact!IInv'
  <2>. DEFINE a == v4[r].artifact
              x == [v4[r] EXCEPT !.pc = "stored", !.text = t]
  <2>1. a \in Items
    BY <1>2, <1>11 DEF Artifact!EvaluationStored
  <2>2. /\ Artifact!SetEvaluation(a, "completed", t)
        /\ v4' = [v4 EXCEPT ![r] = x] /\ UNCHANGED <<v2, v3, v5>>
    BY <1>1, <1>11 DEF Artifact!EvaluationStored
  <2>01. /\ v1' \in [Items -> [mime: Artifact!Mimes \cup {"absent"}, evaluation: Artifact!Evaluation]]
         /\ \A b \in Items :
               /\ b = a => v1'[b].evaluation.status = "completed" /\ v1'[b].evaluation.text = t
               /\ b # a => v1'[b] = v1[b]
    BY <1>4, <2>2, EvaluationIsSet
  <2>02. v1'[a].evaluation \in Artifact!Evaluation
    BY <2>1, <2>01
  <2>3. /\ v1' \in [Items -> [mime: Artifact!Mimes \cup {"absent"}, evaluation: Artifact!Evaluation]]
        /\ \A b \in Items : /\ b = a => v1'[b].evaluation = [status |-> "completed", text |-> t]
                            /\ b # a => v1'[b] = v1[b]
    BY <2>1, <2>01, <2>02 DEF Artifact!Evaluation
  <2>4. x \in [pc: {"idle", "asked", "asked again", "stored"}, artifact: Items \cup {None},
              text: Users \cup {None}]
        /\ x.pc = "stored" /\ x.artifact = a /\ x.text = t
    BY <1>1
  <2>5. \A q \in Requests : v4'[q] = IF q = r THEN x ELSE v4[q]
    BY <1>1, <2>2
  <2>6. v4' \in [Requests -> [pc: {"idle", "asked", "asked again", "stored"},
                             artifact: Items \cup {None}, text: Users \cup {None}]]
    BY <1>1, <2>2, <2>4
  <2>. HIDE DEF x, a
  <2>7. Artifact!TypeOK'
    BY <1>1, <2>2, <2>3, <2>6 DEF Artifact!TypeOK
  <2>8. \A q \in Requests : v4'[q].pc = "stored" => q = r
    BY <1>2, <2>5
  <2>9. \A q \in Requests : Artifact!Waiting(q)' => v4'[q].artifact \in Items
    BY <1>2, <2>1, <2>4, <2>5 DEF Artifact!Waiting
  <2>10. v4'[r].artifact = a /\ v4'[r].text = t /\ v4'[r].pc = "stored"
    BY <2>4, <2>5
  <2>11. Artifact!OneAnnounces'
    BY <2>1, <2>3, <2>8, <2>9, <2>10 DEF Artifact!OneAnnounces
  <2>12. Artifact!FeedbackIsTheOneAnnounced'
    BY <1>3, <2>2, <2>3, <2>10 DEF Artifact!FeedbackIsTheOneAnnounced, Artifact!Announces
  <2>. QED
    BY <2>7, <2>11, <2>12 DEF Artifact!IInv
<1>. QED
  BY <1>5, <1>6, <1>8, <1>9, <1>10, <1>11

(* The steps of the request that is between its two statements, and those  *)
(* that may fall between them.                                             *)
LEMMA NextArtifact ==
    ASSUME Artifact!IInv, [Artifact!Next]_(Artifact!vars)
    PROVE  Artifact!IInv'
<1>1. /\ v1 \in [Items -> [mime: Artifact!Mimes \cup {"absent"}, evaluation: Artifact!Evaluation]]
      /\ v2 \subseteq Items /\ v3 \in [Items -> Users \cup {None}] /\ v5 \subseteq Items
      /\ v4 \in [Requests -> [pc: {"idle", "asked", "asked again", "stored"},
                              artifact: Items \cup {None}, text: Users \cup {None}]]
  BY DEF Artifact!IInv, Artifact!TypeOK
<1>2. Artifact!TypeOK /\ Artifact!OneAnnounces
  BY DEF Artifact!IInv
<1>3. \A b \in Items : \/ v1[b].evaluation.status # "completed"
                       \/ v3[b] = v1[b].evaluation.text
                       \/ b \in v5
                       \/ \E r \in Requests : v4[r].pc = "stored" /\ v4[r].artifact = b
  BY DEF Artifact!IInv, Artifact!FeedbackIsTheOneAnnounced, Artifact!Announces
<1>4. Artifact!Idle \in [pc: {"idle", "asked", "asked again", "stored"},
                        artifact: Items \cup {None}, text: Users \cup {None}]
      /\ Artifact!Idle.pc = "idle"
  BY DEF Artifact!Idle
<1>5. ASSUME NEW r \in Requests, v4[r].pc = "stored", v4' = [v4 EXCEPT ![r] = Artifact!Idle]
      PROVE  /\ v4' \in [Requests -> [pc: {"idle", "asked", "asked again", "stored"},
                                     artifact: Items \cup {None}, text: Users \cup {None}]]
             /\ \A q \in Requests : v4'[q].pc # "stored"
             /\ \A q \in Requests : Artifact!Waiting(q)' => v4'[q].artifact \in Items
             /\ \A b \in Items : \/ b = v4[r].artifact
                                 \/ v1[b].evaluation.status # "completed"
                                 \/ v3[b] = v1[b].evaluation.text
                                 \/ b \in v5
  <2>1. \A q \in Requests : v4'[q] = IF q = r THEN Artifact!Idle ELSE v4[q]
    BY <1>1, <1>5
  <2>2. \A q \in Requests : v4[q].pc = "stored" => q = r
    BY <1>2, <1>5 DEF Artifact!OneAnnounces
  <2>3. v4' \in [Requests -> [pc: {"idle", "asked", "asked again", "stored"},
                             artifact: Items \cup {None}, text: Users \cup {None}]]
    BY <1>1, <1>4, <1>5
  <2>4. \A q \in Requests : v4'[q].pc # "stored"
    BY <1>4, <2>1, <2>2
  <2>5. \A q \in Requests : Artifact!Waiting(q)' => v4'[q].artifact \in Items
    BY <1>2, <1>4, <2>1 DEF Artifact!Waiting, Artifact!OneAnnounces
  <2>. QED
    BY <1>3, <2>2, <2>3, <2>4, <2>5
<1>6. ASSUME NEW r \in Requests, Artifact!NoticeAppended(r)
      PROVE  Artifact!IInv'
  <2>. DEFINE a == v4[r].artifact
  <2>1. /\ v4[r].pc = "stored" /\ v3' = [v3 EXCEPT ![a] = v4[r].text] /\ v5' = v5 \ {a}
        /\ v4' = [v4 EXCEPT ![r] = Artifact!Idle] /\ UNCHANGED <<v1, v2>>
    BY <1>6 DEF Artifact!NoticeAppended, Artifact!Ends
  <2>01. a \in Items /\ v1[a].evaluation = [status |-> "completed", text |-> v4[r].text]
    BY <1>2, <2>1 DEF Artifact!OneAnnounces
  <2>2. a \in Items /\ v1[a].evaluation.text = v4[r].text
    BY <2>01
  <2>3. \A b \in Items : v3'[b] = IF b = a THEN v4[r].text ELSE v3[b]
    BY <1>1, <2>1
  <2>4. Artifact!TypeOK'
    BY <1>1, <1>5, <2>1 DEF Artifact!TypeOK
  <2>5. \A b \in Items : \/ v1'[b].evaluation.status # "completed"
                         \/ v3'[b] = v1'[b].evaluation.text
                         \/ b \in v5'
    BY <1>5, <2>1, <2>2, <2>3
  <2>. QED
    BY <1>5, <2>1, <2>4, <2>5, ArtifactAtRest
<1>7. ASSUME NEW r \in Requests, Artifact!NoticeFails(r)
      PROVE  Artifact!IInv'
  <2>. DEFINE a == v4[r].artifact
  <2>1. /\ v4[r].pc = "stored" /\ Artifact!SetEvaluation(a, "failed", None)
        /\ v4' = [v4 EXCEPT ![r] = Artifact!Idle] /\ UNCHANGED <<v2, v3, v5>>
    BY <1>7 DEF Artifact!NoticeFails, Artifact!Ends
  <2>2. /\ v1' \in [Items -> [mime: Artifact!Mimes \cup {"absent"}, evaluation: Artifact!Evaluation]]
        /\ \A b \in Items : /\ b = a => v1'[b].evaluation.status = "failed" /\ v1'[b].evaluation.text = None
                            /\ b # a => v1'[b] = v1[b]
    BY <1>2, <2>1, EvaluationIsSet
  <2>3. Artifact!TypeOK'
    BY <1>1, <1>5, <2>1, <2>2 DEF Artifact!TypeOK
  <2>4. \A b \in Items : \/ v1'[b].evaluation.status # "completed"
                         \/ v3'[b] = v1'[b].evaluation.text
                         \/ b \in v5'
    BY <1>5, <2>1, <2>2
  <2>. QED
    BY <1>5, <2>1, <2>3, <2>4, ArtifactAtRest
<1>8. ASSUME NEW r \in Requests, Artifact!NobodyIsTold(r)
      PROVE  Artifact!IInv'
  <2>. DEFINE a == v4[r].artifact
  <2>1. /\ v4[r].pc = "stored" /\ v5' = v5 \cup {a}
        /\ v4' = [v4 EXCEPT ![r] = Artifact!Idle] /\ UNCHANGED <<v1, v2, v3>>
    BY <1>8 DEF Artifact!NobodyIsTold, Artifact!Ends
  <2>2. a \in Items
    BY <1>2, <2>1 DEF Artifact!OneAnnounces
  <2>3. Artifact!TypeOK'
    BY <1>1, <1>5, <2>1, <2>2 DEF Artifact!TypeOK
  <2>4. \A b \in Items : \/ v1'[b].evaluation.status # "completed"
                         \/ v3'[b] = v1'[b].evaluation.text
                         \/ b \in v5'
    BY <1>5, <2>1
  <2>. QED
    BY <1>5, <2>1, <2>3, <2>4, ArtifactAtRest
<1>9. ASSUME NEW a \in Items, Artifact!FileDisappears(a)
      PROVE  Artifact!IInv'
  <2>1. v2' = v2 \ {a} /\ UNCHANGED <<v1, v3, v4, v5>>
    BY <1>9 DEF Artifact!FileDisappears
  <2>2. Artifact!TypeOK'
    BY <1>1, <2>1 DEF Artifact!TypeOK
  <2>3. Artifact!OneAnnounces' /\ Artifact!FeedbackIsTheOneAnnounced'
    BY <2>1 DEF Artifact!IInv, Artifact!OneAnnounces, Artifact!FeedbackIsTheOneAnnounced,
                Artifact!Waiting, Artifact!Announces
  <2>. QED
    BY <2>2, <2>3 DEF Artifact!IInv
<1>10. CASE Artifact!Crash
  <2>1. /\ v4' = [r \in Requests |-> Artifact!Idle] /\ UNCHANGED <<v1, v2, v3>>
        /\ v5' = v5 \cup {v4[r].artifact : r \in {q \in Requests : v4[q].pc = "stored"}}
    BY <1>10 DEF Artifact!Crash
  <2>01. \A r \in Requests : v4[r].pc = "stored" => v4[r].artifact \in Items
    BY <1>2 DEF Artifact!OneAnnounces
  <2>2. v5' \subseteq Items
    BY <1>1, <2>01, <2>1
  <2>3. Artifact!TypeOK'
    BY <1>1, <1>4, <2>1, <2>2 DEF Artifact!TypeOK
  <2>4. \A r \in Requests : v4'[r].pc # "stored" /\ ~Artifact!Waiting(r)'
    BY <1>4, <2>1 DEF Artifact!Waiting
  <2>5. \A b \in Items : \/ v1'[b].evaluation.status # "completed"
                         \/ v3'[b] = v1'[b].evaluation.text
                         \/ b \in v5'
    BY <1>3, <2>1
  <2>. QED
    BY <2>3, <2>4, <2>5, ArtifactAtRest
<1>11. CASE UNCHANGED Artifact!vars
  BY <1>11 DEF Artifact!vars, Artifact!IInv, Artifact!TypeOK, Artifact!OneAnnounces,
               Artifact!FeedbackIsTheOneAnnounced, Artifact!Waiting, Artifact!Announces
<1>. QED
  BY <1>6, <1>7, <1>8, <1>9, <1>10, <1>11, FreeArtifactStep DEF Artifact!Next

----------------------------------------------------------------------------
(* ProjectState *)

LEMMA InitState == State!Init => State!IInv
<1>. SUFFICES ASSUME State!Init PROVE State!IInv
  OBVIOUS
<1>1. <<>> \in Seq(Items)
  OBVIOUS
<1>2. State!TypeOK
  BY <1>1 DEF State!Init, State!TypeOK, State!NoRow, State!DefaultProjectState, State!Content
<1>. QED
  BY <1>2 DEF State!Init, State!IInv, State!NoRow, State!DefaultProjectState,
     State!VersionNamesContent, State!LastDeltaIsComing, State!LastAnnounced

(* What a step makes of the row, of any step that writes it. *)
LEMMA RowIsSet ==
    ASSUME State!TypeOK, NEW state \in State!Content, NEW claim \in Users \cup {None},
           State!SetFull(state, claim)
    PROVE  /\ v1' \in [exists: BOOLEAN, owner: Users \cup {None}, state: State!Content]
           /\ v1'.state = state
  BY DEF State!TypeOK, State!SetFull

(* The two ways in which the project state is changed. *)
LEMMA EditedContent ==
    ASSUME NEW s \in State!Content, NEW q \in Requests
    PROVE  LET edited == [s EXCEPT !.version = @ + 1, !.questions = q]
           IN  /\ edited \in State!Content
               /\ edited.version = s.version + 1 /\ edited.delta = s.delta
<1>1. s.version + 1 \in Nat
  BY DEF State!Content
<1>2. PICK n \in Nat : n = s.version + 1
  BY <1>1
<1>3. [s EXCEPT !.version = n] \in State!Content
  BY DEF State!Content
<1>4. [[s EXCEPT !.version = n] EXCEPT !.questions = q] \in State!Content
  BY <1>3 DEF State!Content
<1>. QED
  BY <1>2, <1>4 DEF State!Content

LEMMA PushedContent ==
    ASSUME NEW s \in State!Content, NEW c \in Items
    PROVE  LET pushed == [s EXCEPT !.delta = c, !.version = @ + 1]
           IN  /\ pushed \in State!Content
               /\ pushed.version = s.version + 1 /\ pushed.delta = c
<1>1. s.version + 1 \in Nat
  BY DEF State!Content
<1>2. PICK n \in Nat : n = s.version + 1
  BY <1>1
<1>3. [s EXCEPT !.delta = c] \in State!Content
  BY DEF State!Content
<1>4. [[s EXCEPT !.delta = c] EXCEPT !.version = n] \in State!Content
  BY <1>3 DEF State!Content
<1>5. [[s EXCEPT !.delta = c] EXCEPT !.version = n].delta = c
  BY DEF State!Content
<1>. QED
  BY <1>2, <1>4, <1>5 DEF State!Content

LEMMA NextState ==
    ASSUME State!IInv, [State!Next]_(State!vars)
    PROVE  State!IInv'
<1>. USE DEF State!IInv
<1>0. /\ v1.state \in State!Content /\ v1.state.version \in Nat
      /\ \A u \in Users : v2[u] \in State!Content /\ v2[u].version \in Nat
  BY DEF State!TypeOK, State!Content
<1>1. ASSUME NEW u \in Users, State!GetState(u) PROVE State!IInv'
  BY <1>0, <1>1 DEF State!GetState, State!TypeOK, State!VersionNamesContent,
     State!LastDeltaIsComing, State!LastAnnounced
<1>2. ASSUME NEW u \in Users, State!SaveElsewhere(u) PROVE State!IInv'
  <2>1. v1' \in [exists: BOOLEAN, owner: Users \cup {None}, state: State!Content]
        /\ v1'.state = v1.state
    BY <1>0, <1>2, RowIsSet DEF State!SaveElsewhere
  <2>. QED
    BY <1>2, <2>1 DEF State!SaveElsewhere, State!TypeOK, State!VersionNamesContent,
       State!LastDeltaIsComing, State!LastAnnounced
<1>3. ASSUME NEW u \in Users, NEW q \in Requests, NEW expected, State!PatchState(u, expected, q)
      PROVE  State!IInv'
  <2>. DEFINE next == [v1.state EXCEPT !.version = @ + 1, !.questions = q]
  <2>1. /\ next \in State!Content
        /\ next.version = v1.state.version + 1
        /\ next.delta = v1.state.delta
    BY <1>0, EditedContent
  <2>2. /\ State!SetFull(next, u) /\ v2' = [v2 EXCEPT ![u] = next]
        /\ UNCHANGED <<v3, v4, v5>>
    BY <1>3 DEF State!PatchState
  <2>. HIDE DEF next
  <2>3. v1' \in [exists: BOOLEAN, owner: Users \cup {None}, state: State!Content]
        /\ v1'.state = next
    BY <2>1, <2>2, RowIsSet
  <2>4. State!TypeOK'
    BY <2>1, <2>2, <2>3 DEF State!TypeOK
  <2>5. State!VersionNamesContent'
    BY <1>0, <2>1, <2>2, <2>3 DEF State!VersionNamesContent, State!TypeOK
  <2>6. State!LastDeltaIsComing'
    BY <2>1, <2>2, <2>3 DEF State!LastDeltaIsComing, State!LastAnnounced
  <2>. QED
    BY <2>4, <2>5, <2>6
<1>4. ASSUME NEW c \in Items, State!PushAnnounced(c) PROVE State!IInv'
  <2>1. v4 \in Seq(Items) /\ v4' = Append(v4, c)
    BY <1>4 DEF State!PushAnnounced, State!TypeOK
  <2>2. v4' \in Seq(Items) /\ v4' # <<>> /\ v4'[Len(v4')] = c
    BY <2>1, AppendProperties
  <2>3. State!LastAnnounced' \in v3'
    BY <1>4, <2>2 DEF State!PushAnnounced, State!LastAnnounced
  <2>. QED
    BY <1>4, <2>2, <2>3 DEF State!PushAnnounced, State!TypeOK, State!VersionNamesContent,
       State!LastDeltaIsComing
<1>5. ASSUME NEW c \in Items, State!PushPatches(c) PROVE State!IInv'
  <2>. DEFINE next == [v1.state EXCEPT !.delta = c, !.version = @ + 1]
  <2>1. /\ next \in State!Content
        /\ next.version = v1.state.version + 1
        /\ next.delta = c
    BY <1>0, PushedContent
  <2>2. CASE v1.exists
    <3>1. State!SetFull(next, None) /\ State!Overtaken(c) /\ v3' = v3 \ {c} /\ UNCHANGED <<v2, v4>>
      BY <1>5, <2>2 DEF State!PushPatches, State!PatchCodeDelta
    <3>. HIDE DEF next
    <3>2. v1' \in [exists: BOOLEAN, owner: Users \cup {None}, state: State!Content]
          /\ v1'.state = next
      BY <2>1, <3>1, RowIsSet
    <3>3. State!TypeOK'
      BY <3>1, <3>2 DEF State!TypeOK, State!Overtaken
    <3>4. State!VersionNamesContent'
      BY <1>0, <2>1, <3>1, <3>2 DEF State!VersionNamesContent
    <3>5. State!LastDeltaIsComing'
      BY <2>1, <3>1, <3>2 DEF State!LastDeltaIsComing, State!LastAnnounced, State!Overtaken
    <3>. QED
      BY <3>3, <3>4, <3>5
  <2>3. CASE ~v1.exists
    BY <1>5, <2>3 DEF State!PushPatches, State!PatchCodeDelta, State!TypeOK,
       State!VersionNamesContent, State!LastDeltaIsComing
  <2>. QED
    BY <2>2, <2>3
<1>6. ASSUME NEW c \in Items, State!PushLost(c) PROVE State!IInv'
  BY <1>6 DEF State!PushLost, State!TypeOK, State!VersionNamesContent, State!LastDeltaIsComing
<1>7. CASE UNCHANGED State!vars
  BY <1>7 DEF State!vars, State!TypeOK, State!VersionNamesContent, State!LastDeltaIsComing,
     State!LastAnnounced
<1>. QED
  BY <1>1, <1>2, <1>3, <1>4, <1>5, <1>6, <1>7 DEF State!Next
----------------------------------------------------------------------------
(* Accounts *)

LEMMA InitAccount == Account!Init => Account!IInv
<1>. SUFFICES ASSUME Account!Init PROVE Account!IInv
  OBVIOUS
<1>1. Account!NoToken.pair = 0 /\ Account!NoToken.use = "none"
  BY DEF Account!NoToken
<1>2. /\ Account!Idle.op = "none" /\ Account!Idle.pc = "idle"
      /\ Account!Idle.token = Account!NoToken /\ Account!Idle.sent = Account!NoToken
  BY DEF Account!Idle
<1>3. Account!TypeOK
  <2>1. v3 \in 0..MaxIssued
    BY WorkspaceAssumption DEF Account!Init
  <2>. QED
    BY <2>1 DEF Account!Init, Account!TypeOK, Account!Idle
<1>. QED
  BY <1>1, <1>2, <1>3 DEF Account!Init, Account!IInv, Account!SpentTokensServeNobody,
     Account!SpentStaySpent, Account!TokensAreIssued, Account!OneRotates, Account!Others

(* A token that may be verified is one that was issued. *)
LEMMA ValidTokens ==
    ASSUME NEW t \in Account!Valid
    PROVE  t \in Account!Token /\ t.pair <= v3 /\ t # Account!NoToken
  BY DEF Account!Valid, Account!Token, Account!NoToken

(* A new pair: its tokens are not spent. *)
LEMMA AccountIssues ==
    ASSUME Account!IInv, Account!Issue
    PROVE  /\ v3' = v3 + 1 /\ v3' \in 0..MaxIssued
           /\ v5' \in Account!Token /\ v5'.use = "refresh" /\ v5'.pair = v3 + 1
           /\ v5' \notin v4
<1>1. v3 \in 0..MaxIssued /\ v3 < MaxIssued /\ MaxIssued \in Nat
  BY WorkspaceAssumption DEF Account!IInv, Account!TypeOK, Account!Issue
<1>2. v3 + 1 \in 1..MaxIssued
  BY <1>1
<1>3. v5' \in Account!Token /\ v5'.use = "refresh" /\ v5'.pair = v3 + 1
  BY <1>2 DEF Account!Issue, Account!Token
<1>4. \A t \in v4 : t.pair <= v3
  BY DEF Account!IInv, Account!TokensAreIssued
<1>. QED
  BY <1>1, <1>2, <1>3, <1>4 DEF Account!Issue

LEMMA TypedAccount ==
    ASSUME Account!IInv, [Account!Next]_(Account!vars)
    PROVE  Account!TypeOK'
<1>. Account!TypeOK
  BY DEF Account!IInv
<1>. USE DEF Account!TypeOK
<1>0. Account!NoToken \in Account!Token \cup {Account!NoToken}
  OBVIOUS
<1>1. CASE Account!Register
  BY <1>1, AccountIssues DEF Account!Register
<1>2. CASE Account!Login
  BY <1>2, AccountIssues DEF Account!Login
<1>3. CASE Account!RedisChanges
  BY <1>3 DEF Account!RedisChanges
<1>4. ASSUME NEW r \in Items, NEW op \in {"use", "refresh", "logout"}, NEW t \in Account!Valid,
             Account!Begins(r, op, t)
      PROVE  Account!TypeOK'
  <2>1. t \in Account!Token /\ (t \in v4) \in BOOLEAN
    BY ValidTokens
  <2>2. (IF op = "logout" THEN v5 ELSE Account!NoToken) \in Account!Token \cup {Account!NoToken}
    OBVIOUS
  <2>3. v7' \in BOOLEAN
    BY <1>4 DEF Account!Begins
  <2>. QED
    BY <1>4, <2>1, <2>2, <2>3 DEF Account!Begins
<1>5. ASSUME NEW r \in Items, Account!Accepted(r) PROVE Account!TypeOK'
  <2>1. PICK b \in BOOLEAN : b = ~v2
    OBVIOUS
  <2>2. v6' = [v6 EXCEPT ![r].pc = "accepted", ![r].blind = b]
    BY <1>5, <2>1 DEF Account!Accepted
  <2>3. v6' \in [Items -> [op: {"none", "use", "refresh", "logout"},
                          pc: {"idle", "verified", "accepted", "revoked"},
                          token: Account!Token \cup {Account!NoToken},
                          sent: Account!Token \cup {Account!NoToken},
                          wasDenied: BOOLEAN, blind: BOOLEAN]]
    BY <2>2
  <2>4. UNCHANGED <<v1, v2, v3, v4, v5, v7>>
    BY <1>5 DEF Account!Accepted
  <2>. QED
    BY <2>3, <2>4
<1>6. ASSUME NEW r \in Items, Account!Ends(r) PROVE v6' \in
          [Items -> [op: {"none", "use", "refresh", "logout"},
                     pc: {"idle", "verified", "accepted", "revoked"},
                     token: Account!Token \cup {Account!NoToken},
                     sent: Account!Token \cup {Account!NoToken},
                     wasDenied: BOOLEAN, blind: BOOLEAN]]
  BY <1>6 DEF Account!Ends, Account!Idle
<1>7. ASSUME NEW t \in Account!Token \cup {Account!NoToken}, Account!Revoke(t)
      PROVE  v4' \subseteq Account!Token
  BY <1>7 DEF Account!Revoke
<1>8. ASSUME NEW r \in Items, Account!Refused(r) PROVE Account!TypeOK'
  BY <1>6, <1>8 DEF Account!Refused
<1>9. ASSUME NEW r \in Items, Account!Used(r) PROVE Account!TypeOK'
  BY <1>6, <1>9 DEF Account!Used
<1>10. ASSUME NEW r \in Items, Account!RotateRevokes(r) PROVE Account!TypeOK'
  BY <1>7, <1>10 DEF Account!RotateRevokes, Account!Goes
<1>11. ASSUME NEW r \in Items, Account!RotateIssues(r) PROVE Account!TypeOK'
  BY <1>6, <1>11, AccountIssues DEF Account!RotateIssues
<1>12. ASSUME NEW r \in Items, Account!LogoutRevokesAccess(r) PROVE Account!TypeOK'
  BY <1>7, <1>12 DEF Account!LogoutRevokesAccess, Account!Goes
<1>13. ASSUME NEW r \in Items, Account!LogoutRevokesRefresh(r) PROVE Account!TypeOK'
  BY <1>6, <1>7, <1>13 DEF Account!LogoutRevokesRefresh
<1>14. ASSUME NEW r \in Items, Account!CutOff(r) PROVE Account!TypeOK'
  BY <1>6, <1>14 DEF Account!CutOff
<1>15. CASE UNCHANGED Account!vars
  BY <1>15 DEF Account!vars
<1>. QED
  BY <1>1, <1>2, <1>3, <1>4, <1>5, <1>8, <1>9, <1>10, <1>11, <1>12, <1>13, <1>14, <1>15
  DEF Account!Next

(* One request moves, and only so far. *)
LEMMA AccountRequestMoves ==
    ASSUME Account!TypeOK, NEW r \in Items
    PROVE  /\ Account!Ends(r) =>
                 /\ v6'[r].op = "none" /\ v6'[r].pc = "idle" /\ ~v6'[r].wasDenied
                 /\ v6'[r].token.pair = 0 /\ v6'[r].sent.pair = 0
                 /\ \A q \in Items \ {r} : v6'[q] = v6[q]
           /\ \A pc : Account!Goes(r, pc) =>
                 /\ v6'[r].pc = pc
                 /\ v6'[r].op = v6[r].op /\ v6'[r].token = v6[r].token /\ v6'[r].sent = v6[r].sent
                 /\ v6'[r].wasDenied = v6[r].wasDenied /\ v6'[r].blind = v6[r].blind
                 /\ \A q \in Items \ {r} : v6'[q] = v6[q]
<1>1. Account!Idle.op = "none" /\ Account!Idle.pc = "idle" /\ ~Account!Idle.wasDenied
      /\ Account!Idle.token.pair = 0 /\ Account!Idle.sent.pair = 0
  BY DEF Account!Idle, Account!NoToken
<1>2. Account!Ends(r) => v6'[r] = Account!Idle /\ \A q \in Items \ {r} : v6'[q] = v6[q]
  BY DEF Account!TypeOK, Account!Ends
<1>. QED
  BY <1>1, <1>2 DEF Account!TypeOK, Account!Goes

(* Tokens are spent for good. *)
LEMMA NextSpent ==
    ASSUME Account!IInv, [Account!Next]_(Account!vars)
    PROVE  Account!SpentTokensServeNobody' /\ Account!SpentStaySpent'
<1>. Account!TypeOK /\ Account!TypeOK' /\ Account!SpentTokensServeNobody /\ Account!SpentStaySpent
  BY TypedAccount DEF Account!IInv
<1>. USE DEF Account!SpentTokensServeNobody, Account!SpentStaySpent
<1>1. v4 \subseteq v4'
  BY DEF Account!Next, Account!vars, Account!Register, Account!Login, Account!RedisChanges,
     Account!Begins, Account!Accepted, Account!Refused, Account!Used, Account!RotateRevokes,
     Account!RotateIssues, Account!LogoutRevokesAccess, Account!LogoutRevokesRefresh,
     Account!CutOff, Account!Revoke
<1>2. CASE UNCHANGED v6
  BY <1>1, <1>2
<1>3. ASSUME NEW r \in Items, NEW op, NEW t, Account!Begins(r, op, t)
      PROVE  Account!SpentTokensServeNobody' /\ Account!SpentStaySpent'
  <2>1. /\ v6'[r].pc = "verified" /\ v6'[r].token = t /\ v6'[r].wasDenied = (t \in v4)
        /\ \A q \in Items \ {r} : v6'[q] = v6[q]
    BY <1>3 DEF Account!Begins, Account!TypeOK
  <2>. QED
    BY <1>1, <2>1
<1>4. ASSUME NEW r \in Items, Account!Accepted(r)
      PROVE  Account!SpentTokensServeNobody' /\ Account!SpentStaySpent'
  <2>1. /\ v6'[r].pc = "accepted" /\ v6'[r].wasDenied = v6[r].wasDenied
        /\ v6'[r].blind = ~v2
        /\ \A q \in Items \ {r} : v6'[q] = v6[q]
    BY <1>4 DEF Account!Accepted, Account!TypeOK
  <2>2. v6[r].pc = "verified" /\ (~v2 \/ v6[r].token \notin v4)
    BY <1>4 DEF Account!Accepted
  <2>. QED
    BY <1>1, <2>1, <2>2
<1>5. ASSUME NEW r \in Items, Account!Ends(r)
      PROVE  Account!SpentTokensServeNobody' /\ Account!SpentStaySpent'
  BY <1>1, <1>5, AccountRequestMoves
<1>6. ASSUME NEW r \in Items, Account!Goes(r, "revoked"), v6[r].pc = "accepted"
      PROVE  Account!SpentTokensServeNobody' /\ Account!SpentStaySpent'
  BY <1>1, <1>6, AccountRequestMoves
<1>7. \/ UNCHANGED v6
      \/ \E r \in Items :
            \/ \E op, t : Account!Begins(r, op, t)
            \/ Account!Accepted(r)
            \/ Account!Ends(r)
            \/ Account!Goes(r, "revoked") /\ v6[r].pc = "accepted"
  BY DEF Account!Next, Account!vars, Account!Register, Account!Login, Account!RedisChanges,
     Account!Refused, Account!Used, Account!RotateRevokes, Account!RotateIssues,
     Account!LogoutRevokesAccess, Account!LogoutRevokesRefresh, Account!CutOff, Account!At
<1>. QED
  BY <1>2, <1>3, <1>4, <1>5, <1>6, <1>7

LEMMA NextIssued ==
    ASSUME Account!IInv, [Account!Next]_(Account!vars)
    PROVE  Account!TokensAreIssued'
<1>. Account!TypeOK /\ Account!TypeOK' /\ Account!TokensAreIssued
  BY TypedAccount DEF Account!IInv
<1>. USE DEF Account!TokensAreIssued
<1>0. /\ Account!NoToken.pair = 0 /\ Account!NoToken.use = "none"
      /\ v3 \in Nat /\ v3' \in Nat
  BY WorkspaceAssumption DEF Account!NoToken, Account!TypeOK
<1>. DEFINE Pairs == /\ v5.pair \in Nat
                     /\ \A t \in v4 : t.pair \in Nat
                     /\ \A r \in Items : v6[r].token.pair \in Nat /\ v6[r].sent.pair \in Nat
<1>1. Pairs /\ Pairs'
  <2>1. \A t \in Account!Token \cup {Account!NoToken} : t.pair \in Nat
    BY <1>0 DEF Account!Token
  <2>2. /\ \A r \in Items : /\ v6[r].token \in Account!Token \cup {Account!NoToken}
                            /\ v6[r].sent \in Account!Token \cup {Account!NoToken}
        /\ \A r \in Items : /\ v6'[r].token \in Account!Token \cup {Account!NoToken}
                            /\ v6'[r].sent \in Account!Token \cup {Account!NoToken}
    BY DEF Account!TypeOK
  <2>. QED
    BY <2>1, <2>2 DEF Account!TypeOK
<1>2. ASSUME Account!Issue, UNCHANGED <<v4, v6>> PROVE Account!TokensAreIssued'
  BY <1>0, <1>1, <1>2, AccountIssues
<1>3. ASSUME NEW r \in Items, NEW op \in {"use", "refresh", "logout"}, NEW t \in Account!Valid,
             Account!Begins(r, op, t)
      PROVE  Account!TokensAreIssued'
  <2>1. /\ v6'[r].op = op /\ v6'[r].token = t
        /\ v6'[r].sent = (IF op = "logout" THEN v5 ELSE Account!NoToken)
        /\ \A q \in Items \ {r} : v6'[q] = v6[q]
        /\ UNCHANGED <<v3, v4, v5>>
    BY <1>3 DEF Account!Begins, Account!TypeOK
  <2>2. op = "logout" => t.use = "access"
    BY <1>3 DEF Account!Begins
  <2>. QED
    BY <1>0, <2>1, <2>2, ValidTokens
<1>4. ASSUME NEW r \in Items, Account!Accepted(r) PROVE Account!TokensAreIssued'
  <2>1. /\ v6'[r].op = v6[r].op /\ v6'[r].token = v6[r].token /\ v6'[r].sent = v6[r].sent
        /\ \A q \in Items \ {r} : v6'[q] = v6[q]
        /\ UNCHANGED <<v3, v4, v5>>
    BY <1>4 DEF Account!Accepted, Account!TypeOK
  <2>. QED
    BY <2>1
<1>5. ASSUME NEW r \in Items, Account!Ends(r), UNCHANGED <<v3, v4, v5>>
      PROVE  Account!TokensAreIssued'
  BY <1>0, <1>5, AccountRequestMoves
<1>6. ASSUME NEW r \in Items, Account!Revoke(v6[r].token), Account!Goes(r, "revoked"),
             UNCHANGED <<v3, v5>>
      PROVE  Account!TokensAreIssued'
  BY <1>6, AccountRequestMoves DEF Account!Revoke
<1>7. ASSUME NEW r \in Items, Account!RotateIssues(r) PROVE Account!TokensAreIssued'
  BY <1>0, <1>1, <1>7, AccountIssues, AccountRequestMoves DEF Account!RotateIssues
<1>8. ASSUME NEW r \in Items, Account!LogoutRevokesRefresh(r) PROVE Account!TokensAreIssued'
  <2>1. Account!Ends(r) /\ UNCHANGED v3 /\ v5' = Account!NoToken
    BY <1>8 DEF Account!LogoutRevokesRefresh
  <2>2. \A t \in v4' : t.pair <= v3
    BY <1>8 DEF Account!LogoutRevokesRefresh, Account!Revoke
  <2>. QED
    BY <1>0, <2>1, <2>2, AccountRequestMoves
<1>9. CASE UNCHANGED <<v3, v4, v5, v6>>
  BY <1>9
<1>. QED
  BY <1>2, <1>3, <1>4, <1>5, <1>6, <1>7, <1>8, <1>9
  DEF Account!Next, Account!vars, Account!Register, Account!Login, Account!RedisChanges,
      Account!Refused, Account!Used, Account!RotateRevokes, Account!LogoutRevokesAccess,
      Account!CutOff

LEMMA NextRotates ==
    ASSUME Account!IInv, [Account!Next]_(Account!vars)
    PROVE  Account!OneRotates'
<1>. /\ Account!TypeOK /\ Account!TypeOK' /\ Account!TokensAreIssued /\ Account!OneRotates
  BY TypedAccount DEF Account!IInv
<1>. USE DEF Account!OneRotates, Account!Others, Account!At
<1>1. ASSUME Account!Issue, UNCHANGED <<v4, v6, v7>> PROVE Account!OneRotates'
  BY <1>1, AccountIssues
<1>2. ASSUME NEW r \in Items, NEW op \in {"use", "refresh", "logout"}, NEW t \in Account!Valid,
             Account!Begins(r, op, t)
      PROVE  Account!OneRotates'
  <2>1. /\ v6[r].op = "none" /\ v6'[r].op = op
        /\ \A q \in Items \ {r} : v6'[q] = v6[q]
        /\ UNCHANGED <<v4, v5>>
    BY <1>2 DEF Account!Begins, Account!TypeOK, Account!Idle
  <2>2. v7' = (v7 \/ (op # "use" /\ Account!Others(r) # {}))
    BY <1>2 DEF Account!Begins
  <2>. QED
    BY <2>1, <2>2
<1>3. ASSUME NEW r \in Items, Account!Accepted(r) PROVE Account!OneRotates'
  <2>1. /\ v6[r].pc = "verified" /\ v6'[r].op = v6[r].op
        /\ \A q \in Items \ {r} : v6'[q] = v6[q]
        /\ UNCHANGED <<v4, v5, v7>>
    BY <1>3 DEF Account!Accepted, Account!TypeOK
  <2>. QED
    BY <2>1
<1>4. ASSUME NEW r \in Items, Account!Refused(r) \/ Account!Used(r) PROVE Account!OneRotates'
  <2>1. ~Account!At(r, "refresh", "revoked") /\ Account!Ends(r) /\ UNCHANGED <<v4, v5, v7>>
    BY <1>4 DEF Account!Refused, Account!Used
  <2>. QED
    BY <2>1, AccountRequestMoves
<1>5. ASSUME NEW r \in Items, Account!RotateRevokes(r) PROVE Account!OneRotates'
  <2>1. v6[r].op = "refresh" /\ Account!Goes(r, "revoked") /\ UNCHANGED <<v5, v7>>
    BY <1>5 DEF Account!RotateRevokes
  <2>. QED
    BY <2>1, AccountRequestMoves
<1>6. ASSUME NEW r \in Items, Account!RotateIssues(r) PROVE Account!OneRotates'
  BY <1>6, AccountIssues, AccountRequestMoves DEF Account!RotateIssues
<1>7. ASSUME NEW r \in Items, Account!LogoutRevokesAccess(r) PROVE Account!OneRotates'
  <2>1. /\ v6[r].op = "logout" /\ v6[r].pc = "accepted" /\ Account!Goes(r, "revoked")
        /\ UNCHANGED <<v5, v7>>
    BY <1>7 DEF Account!LogoutRevokesAccess
  <2>2. v5 \in v4' => v5 \in v4
    BY <1>7, <2>1 DEF Account!LogoutRevokesAccess, Account!Revoke, Account!TokensAreIssued
  <2>. QED
    BY <2>1, <2>2, AccountRequestMoves
<1>8. ASSUME NEW r \in Items, Account!LogoutRevokesRefresh(r) PROVE Account!OneRotates'
  <2>1. Account!Ends(r) /\ UNCHANGED v7 /\ v5' = Account!NoToken
    BY <1>8 DEF Account!LogoutRevokesRefresh
  <2>2. Account!NoToken \notin Account!Token
    BY DEF Account!NoToken, Account!Token
  <2>3. v5' \notin v4'
    BY <2>1, <2>2 DEF Account!TypeOK
  <2>. QED
    BY <2>1, <2>3, AccountRequestMoves
<1>9. ASSUME NEW r \in Items, Account!CutOff(r) PROVE Account!OneRotates'
  BY <1>9 DEF Account!CutOff
<1>10. CASE UNCHANGED <<v4, v5, v6, v7>>
  BY <1>10
<1>. QED
  BY <1>1, <1>2, <1>3, <1>4, <1>5, <1>6, <1>7, <1>8, <1>9, <1>10
  DEF Account!Next, Account!vars, Account!Register, Account!Login, Account!RedisChanges

LEMMA NextAccount ==
    ASSUME Account!IInv, [Account!Next]_(Account!vars)
    PROVE  Account!IInv'
  BY TypedAccount, NextSpent, NextIssued, NextRotates DEF Account!IInv

LEMMA AccountCookie == Account!IInv => Account!CookieCanBeRefreshed
  BY DEF Account!IInv, Account!OneRotates, Account!CookieCanBeRefreshed, Account!At
----------------------------------------------------------------------------
(* VfsSnapshots *)

LEMMA InitVfs == Vfs!Init => Vfs!IInv
<1>. SUFFICES ASSUME Vfs!Init PROVE Vfs!IInv
  OBVIOUS
<1>1. Vfs!Idle.pc = "idle"
  BY DEF Vfs!Idle
<1>2. Vfs!TypeOK
  <2>1. 0 \in 0..MaxApprovals
    BY WorkspaceAssumption
  <2>. QED
    BY <2>1 DEF Vfs!Init, Vfs!TypeOK, Vfs!Idle, Vfs!Status
<1>. QED
  BY <1>1, <1>2 DEF Vfs!Init, Vfs!IInv, Vfs!SnapshotsAreBegun, Vfs!ApprovalsAreBegun,
     Vfs!IndexWillFollow, Vfs!At

LEMMA TypedVfs ==
    ASSUME Vfs!IInv, [Vfs!Next]_(Vfs!vars)
    PROVE  Vfs!TypeOK'
<1>. Vfs!TypeOK
  BY DEF Vfs!IInv
<1>0. \A a \in Requests : v6[a].pc # "idle" => v6[a].snapshot \in Items
  BY DEF Vfs!IInv, Vfs!ApprovalsAreBegun, Vfs!At
<1>. USE DEF Vfs!TypeOK, Vfs!Status
<1>1. ASSUME NEW s \in Items, Vfs!CreateSnapshot(s) PROVE Vfs!TypeOK'
  BY <1>1 DEF Vfs!CreateSnapshot
<1>2. ASSUME NEW s \in Items, Vfs!CreateAnnounced(s) PROVE Vfs!TypeOK'
  BY <1>2 DEF Vfs!CreateAnnounced
<1>3. ASSUME NEW s \in Items, Vfs!CreateIndexed(s) PROVE Vfs!TypeOK'
  BY <1>3 DEF Vfs!CreateIndexed
<1>4. ASSUME NEW s \in Items, Vfs!CreateFails(s) PROVE Vfs!TypeOK'
  BY <1>4 DEF Vfs!CreateFails
<1>5. ASSUME NEW a \in Requests, NEW s \in Items, Vfs!ApproveBegins(a, s) PROVE Vfs!TypeOK'
  BY <1>5 DEF Vfs!ApproveBegins
<1>6. ASSUME NEW a \in Requests, Vfs!ApproveLoads(a) PROVE Vfs!TypeOK'
  <2>1. PICK copy \in Vfs!Status : copy = v1[v6[a].snapshot]
    BY <1>0, <1>6 DEF Vfs!ApproveLoads, Vfs!At
  <2>2. v6' = [v6 EXCEPT ![a].pc = "loaded", ![a].copy = copy]
    BY <1>6, <2>1 DEF Vfs!ApproveLoads
  <2>3. v6' \in [Requests ->
                [pc: {"idle", "read", "loaded", "saved", "announced"},
                 snapshot: Items \cup {None}, copy: Vfs!Status, began: Vfs!Status]]
    <3>1. v6[a] \in [pc: {"idle", "read", "loaded", "saved", "announced"},
                     snapshot: Items \cup {None}, copy: Vfs!Status, began: Vfs!Status]
      OBVIOUS
    <3>2. [[v6[a] EXCEPT !.pc = "loaded"] EXCEPT !.copy = copy]
              \in [pc: {"idle", "read", "loaded", "saved", "announced"},
                   snapshot: Items \cup {None}, copy: Vfs!Status, began: Vfs!Status]
      BY <3>1
    <3>3. v6' = [v6 EXCEPT ![a] = [[v6[a] EXCEPT !.pc = "loaded"] EXCEPT !.copy = copy]]
      BY <2>2, <3>1
    <3>. QED
      BY <3>2, <3>3
  <2>. QED
    BY <1>6, <2>3 DEF Vfs!ApproveLoads
<1>7. ASSUME NEW a \in Requests, v6' = [v6 EXCEPT ![a] = Vfs!Idle]
      PROVE  v6' \in [Requests ->
                [pc: {"idle", "read", "loaded", "saved", "announced"},
                 snapshot: Items \cup {None}, copy: Vfs!Status, began: Vfs!Status]]
  BY <1>7 DEF Vfs!Idle
<1>8. ASSUME NEW a \in Requests, Vfs!Refused(a) PROVE Vfs!TypeOK'
  BY <1>7, <1>8 DEF Vfs!Refused
<1>9. ASSUME NEW a \in Requests, Vfs!ApproveSaves(a) PROVE Vfs!TypeOK'
  BY <1>9 DEF Vfs!ApproveSaves, Vfs!Becomes
<1>10. ASSUME NEW a \in Requests, Vfs!ApproveAnnounced(a) PROVE Vfs!TypeOK'
  <2>1. PICK s \in Items : s = v6[a].snapshot
    BY <1>0, <1>10 DEF Vfs!ApproveAnnounced, Vfs!At
  <2>2. PICK n \in Nat : n = v4[s] /\ n < MaxApprovals
    BY <1>10, <2>1, WorkspaceAssumption DEF Vfs!ApproveAnnounced
  <2>3. v4[s] + 1 \in 0..MaxApprovals
    BY <2>2, WorkspaceAssumption
  <2>4. v4' \in [Items -> 0..MaxApprovals]
    BY <1>10, <2>1, <2>3 DEF Vfs!ApproveAnnounced
  <2>. QED
    BY <1>10, <2>4 DEF Vfs!ApproveAnnounced, Vfs!Becomes
<1>11. ASSUME NEW a \in Requests, Vfs!ApproveIndexed(a) PROVE Vfs!TypeOK'
  BY <1>7, <1>11 DEF Vfs!ApproveIndexed
<1>12. ASSUME NEW a \in Requests, Vfs!ApproveFails(a) PROVE Vfs!TypeOK'
  BY <1>0, <1>7, <1>12 DEF Vfs!ApproveFails
<1>13. CASE Vfs!Crash
  <2>1. v5' \in [Items -> {"new", "saved", "announced", "done"}]
    BY <1>13 DEF Vfs!Crash
  <2>2. v6' \in [Requests ->
                [pc: {"idle", "read", "loaded", "saved", "announced"},
                 snapshot: Items \cup {None}, copy: Vfs!Status, began: Vfs!Status]]
    BY <1>13 DEF Vfs!Crash, Vfs!Idle
  <2>3. v7' \subseteq Items
    BY <1>0, <1>13 DEF Vfs!Crash
  <2>. QED
    BY <1>13, <2>1, <2>2, <2>3 DEF Vfs!Crash
<1>14. CASE UNCHANGED Vfs!vars
  BY <1>14 DEF Vfs!vars
<1>. QED
  BY <1>1, <1>2, <1>3, <1>4, <1>5, <1>6, <1>8, <1>9, <1>10, <1>11, <1>12, <1>13, <1>14
  DEF Vfs!Next

(* One approval request moves. *)
LEMMA VfsApproverMoves ==
    ASSUME Vfs!TypeOK, NEW a \in Requests
    PROVE  /\ \A pc : Vfs!Becomes(a, pc) =>
                 /\ v6'[a].pc = pc /\ v6'[a].snapshot = v6[a].snapshot
                 /\ \A b \in Requests \ {a} : v6'[b] = v6[b]
           /\ v6' = [v6 EXCEPT ![a] = Vfs!Idle] =>
                 /\ v6'[a].pc = "idle"
                 /\ \A b \in Requests \ {a} : v6'[b] = v6[b]
<1>1. Vfs!Idle.pc = "idle"
  BY DEF Vfs!Idle
<1>. QED
  BY <1>1 DEF Vfs!TypeOK, Vfs!Becomes

LEMMA NextVfs ==
    ASSUME Vfs!IInv, [Vfs!Next]_(Vfs!vars)
    PROVE  Vfs!IInv'
<1>. Vfs!TypeOK /\ Vfs!TypeOK'
  BY TypedVfs DEF Vfs!IInv
<1>. USE DEF Vfs!IInv, Vfs!SnapshotsAreBegun, Vfs!ApprovalsAreBegun, Vfs!IndexWillFollow, Vfs!At
<1>1. ASSUME NEW s \in Items, Vfs!CreateSnapshot(s) PROVE Vfs!IInv'
  BY <1>1 DEF Vfs!CreateSnapshot, Vfs!TypeOK
<1>2. ASSUME NEW s \in Items, Vfs!CreateAnnounced(s) PROVE Vfs!IInv'
  BY <1>2 DEF Vfs!CreateAnnounced, Vfs!TypeOK
<1>3. ASSUME NEW s \in Items, Vfs!CreateIndexed(s) PROVE Vfs!IInv'
  BY <1>3 DEF Vfs!CreateIndexed, Vfs!TypeOK
<1>4. ASSUME NEW s \in Items, Vfs!CreateFails(s) PROVE Vfs!IInv'
  BY <1>4 DEF Vfs!CreateFails, Vfs!TypeOK
<1>5. ASSUME NEW a \in Requests, NEW s \in Items, Vfs!ApproveBegins(a, s) PROVE Vfs!IInv'
  <2>1. /\ v6[a].pc = "idle" /\ v1[s] # "absent"
        /\ v6'[a].pc = "read" /\ v6'[a].snapshot = s
        /\ \A b \in Requests \ {a} : v6'[b] = v6[b]
        /\ UNCHANGED <<v1, v2, v3, v4, v5, v7>>
    BY <1>5 DEF Vfs!ApproveBegins, Vfs!TypeOK
  <2>. QED
    BY <2>1
<1>6. ASSUME NEW a \in Requests, Vfs!ApproveLoads(a) PROVE Vfs!IInv'
  <2>1. /\ v6[a].pc = "read" /\ v6'[a].pc = "loaded" /\ v6'[a].snapshot = v6[a].snapshot
        /\ \A b \in Requests \ {a} : v6'[b] = v6[b]
        /\ UNCHANGED <<v1, v2, v3, v4, v5, v7>>
    BY <1>6 DEF Vfs!ApproveLoads, Vfs!TypeOK
  <2>. QED
    BY <2>1
<1>7. ASSUME NEW a \in Requests, Vfs!Refused(a) PROVE Vfs!IInv'
  <2>1. /\ v6[a].pc = "loaded" /\ v6'[a].pc = "idle"
        /\ \A b \in Requests \ {a} : v6'[b] = v6[b]
        /\ UNCHANGED <<v1, v2, v3, v4, v5, v7>>
    BY <1>7, VfsApproverMoves DEF Vfs!Refused
  <2>. QED
    BY <2>1
<1>8. ASSUME NEW a \in Requests, Vfs!ApproveSaves(a) PROVE Vfs!IInv'
  BY <1>8, VfsApproverMoves DEF Vfs!ApproveSaves, Vfs!TypeOK
<1>9. ASSUME NEW a \in Requests, Vfs!ApproveAnnounced(a) PROVE Vfs!IInv'
  <2>1. PICK s \in Items : s = v6[a].snapshot
    BY <1>9 DEF Vfs!ApproveAnnounced
  <2>2. /\ v6[a].pc = "saved" /\ v6'[a].pc = "announced" /\ v6'[a].snapshot = s
        /\ \A b \in Requests \ {a} : v6'[b] = v6[b]
        /\ UNCHANGED <<v1, v2, v3, v5, v7>>
    BY <1>9, <2>1, VfsApproverMoves DEF Vfs!ApproveAnnounced
  <2>3. /\ v4'[s] > 0
        /\ \A t \in Items : v4[t] > 0 => v4'[t] > 0
    BY <1>9, <2>1 DEF Vfs!ApproveAnnounced, Vfs!TypeOK
  <2>. QED
    BY <2>1, <2>2, <2>3
<1>10. ASSUME NEW a \in Requests, Vfs!ApproveIndexed(a) PROVE Vfs!IInv'
  <2>1. PICK s \in Items : s = v6[a].snapshot
    BY <1>10 DEF Vfs!ApproveIndexed
  <2>2. /\ v6[a].pc = "announced" /\ v6'[a].pc = "idle"
        /\ \A b \in Requests \ {a} : v6'[b] = v6[b]
        /\ UNCHANGED <<v1, v3, v4, v5, v7>>
    BY <1>10, <2>1, VfsApproverMoves DEF Vfs!ApproveIndexed
  <2>3. v2'[s] = "approved" /\ \A t \in Items \ {s} : v2'[t] = v2[t]
    BY <1>10, <2>1 DEF Vfs!ApproveIndexed, Vfs!TypeOK
  <2>. QED
    BY <2>1, <2>2, <2>3
<1>11. ASSUME NEW a \in Requests, Vfs!ApproveFails(a) PROVE Vfs!IInv'
  <2>1. PICK s \in Items : s = v6[a].snapshot
    BY <1>11 DEF Vfs!ApproveFails
  <2>2. /\ v6'[a].pc = "idle" /\ v7' = v7 \cup {s}
        /\ \A b \in Requests \ {a} : v6'[b] = v6[b]
        /\ UNCHANGED <<v1, v2, v3, v4, v5>>
    BY <1>11, <2>1, VfsApproverMoves DEF Vfs!ApproveFails
  <2>. QED
    BY <2>1, <2>2
<1>12. CASE Vfs!Crash
  BY <1>12 DEF Vfs!Crash, Vfs!Idle, Vfs!TypeOK
<1>13. CASE UNCHANGED Vfs!vars
  BY <1>13 DEF Vfs!vars
<1>. QED
  BY <1>1, <1>2, <1>3, <1>4, <1>5, <1>6, <1>7, <1>8, <1>9, <1>10, <1>11, <1>12, <1>13
  DEF Vfs!Next

LEMMA VfsIndexFollows == Vfs!IInv => Vfs!IndexFollowsFile
  BY DEF Vfs!IInv, Vfs!TypeOK, Vfs!Status, Vfs!SnapshotsAreBegun, Vfs!IndexWillFollow,
     Vfs!IndexFollowsFile, Vfs!At
----------------------------------------------------------------------------
(* EventPipeline *)

PipelinePc == {"new", "numbered", "logged", "publishing", "replaying", "done", "lost"}

PipelineEvent == [pc: PipelinePc, by: Pipeline!Processes, given: Given \cup {0}, version: Nat,
                  tries: 0..PublishTries]

PipelineJob == [state: {"none", "waiting", "active", "completed", "failed"},
                tries: 0..(ReplayTries - 1), attempts: 0..ReplayAttempts, stalled: BOOLEAN]

PipelineRow == [version: Nat \ {0}, by: Pipeline!Processes, numbered: BOOLEAN]

LEMMA PipelineTypes ==
    Pipeline!TypeOK <=>
        /\ v1 \in [publisher: BOOLEAN, replay: BOOLEAN]
        /\ v2 \in [Items -> PipelineEvent]
        /\ v3 \in Seq(PipelineRow)
        /\ v4 \in [Items -> PipelineJob]
        /\ v5 \in {"starting", "on", "off", "never"}
        /\ v6 \cup v7 \subseteq Items
BY DEF Pipeline!TypeOK, PipelineEvent, PipelinePc, PipelineRow, PipelineJob

LEMMA PipelineTyped ==
    ASSUME v1' \in [publisher: BOOLEAN, replay: BOOLEAN],
           v2' \in [Items -> PipelineEvent],
           v3' \in Seq(PipelineRow),
           v4' \in [Items -> PipelineJob],
           v5' \in {"starting", "on", "off", "never"},
           v6' \cup v7' \subseteq Items
    PROVE  Pipeline!TypeOK'
BY DEF Pipeline!TypeOK, PipelineEvent, PipelinePc, PipelineRow, PipelineJob

LEMMA NoPipelineJob == Pipeline!NoJob \in PipelineJob /\ Pipeline!NoJob.state = "none"
                       /\ Pipeline!NoJob.attempts = 0
<1>1. 0 \in 0..(ReplayTries - 1) /\ 0 \in 0..ReplayAttempts
  BY WorkspaceAssumption
<1>. QED
  BY <1>1 DEF Pipeline!NoJob, PipelineJob

LEMMA InitPipeline == Pipeline!Init => Pipeline!IInv
<1>. SUFFICES ASSUME Pipeline!Init PROVE Pipeline!IInv
  OBVIOUS
<1>1. [pc |-> "new", by |-> "api", given |-> 0, version |-> 0, tries |-> 0] \in PipelineEvent
  <2>1. 0 \in 0..PublishTries
    BY WorkspaceAssumption
  <2>. QED
    BY <2>1 DEF PipelineEvent, PipelinePc, Pipeline!Processes
<1>2. v2 \in [Items -> PipelineEvent]
      /\ \A e \in Items : v2[e].pc = "new" /\ v2[e].tries = 0
  BY <1>1 DEF Pipeline!Init
<1>3. v4 \in [Items -> PipelineJob]
      /\ \A e \in Items : v4[e].state = "none" /\ v4[e].attempts = 0
  BY NoPipelineJob DEF Pipeline!Init
<1>4. v3 = <<>> /\ DOMAIN v3 = {} /\ v3 \in Seq(PipelineRow)
  BY DEF Pipeline!Init
<1>5. Pipeline!TypeOK
  BY <1>2, <1>3, <1>4, PipelineTypes DEF Pipeline!Init
<1>6. Pipeline!VersionsEnd /\ Pipeline!NumberedVersionsIncrease
  BY <1>4 DEF Pipeline!VersionsEnd, Pipeline!Versions, Pipeline!NumberedVersionsIncrease
<1>7. Pipeline!NumberIsNext
  BY <1>2 DEF Pipeline!NumberIsNext, Pipeline!At
<1>8. Pipeline!TriesAreCounted
  BY <1>2 DEF Pipeline!TriesAreCounted, Pipeline!At
<1>9. Pipeline!ReplaysAreCounted
  BY <1>3, WorkspaceAssumption DEF Pipeline!ReplaysAreCounted
<1>10. Pipeline!HeardIsLogged
  BY DEF Pipeline!Init, Pipeline!HeardIsLogged
<1>. QED
  BY <1>5, <1>6, <1>7, <1>8, <1>9, <1>10 DEF Pipeline!IInv

(* The next version is greater than any in the log. *)
LEMMA NextVersionIsGreater ==
    ASSUME Pipeline!TypeOK, Pipeline!VersionsEnd
    PROVE  /\ Pipeline!NextVersion \in Nat \ {0}
           /\ \A i \in DOMAIN v3 : v3[i].version < Pipeline!NextVersion
<1>1. \A i \in DOMAIN v3 : v3[i].version \in Nat
  <2>1. v3 \in Seq(PipelineRow)
    BY PipelineTypes
  <2>2. \A i \in DOMAIN v3 : v3[i] \in PipelineRow
    BY <2>1, LenProperties
  <2>. QED
    BY <2>2 DEF PipelineRow
<1>2. PICK V : V = Pipeline!Versions \cup {0}
  OBVIOUS
<1>3. PICK n \in V : \A v \in V : v <= n
  BY <1>2 DEF Pipeline!VersionsEnd
<1>4. V \subseteq Nat /\ 0 \in V
  BY <1>1, <1>2 DEF Pipeline!Versions
<1>5. Pipeline!Max(V) \in V /\ \A v \in V : Pipeline!Max(V) >= v
  <2>1. \E m \in V : \A v \in V : m >= v
    BY <1>3, <1>4
  <2>. QED
    BY <2>1 DEF Pipeline!Max
<1>6. PICK m \in Nat : m = Pipeline!Max(V) /\ \A v \in V : m >= v
  BY <1>4, <1>5
<1>7. Pipeline!NextVersion = m + 1
  BY <1>2, <1>6 DEF Pipeline!NextVersion
<1>8. \A i \in DOMAIN v3 : v3[i].version \in V
  BY <1>2 DEF Pipeline!Versions
<1>. QED
  BY <1>1, <1>6, <1>7, <1>8

PipelineLogged ==
    Pipeline!VersionsEnd /\ Pipeline!NumberedVersionsIncrease /\ Pipeline!NumberIsNext

PipelineCounted ==
    Pipeline!TriesAreCounted /\ Pipeline!ReplaysAreCounted /\ Pipeline!HeardIsLogged

LEMMA PipelineMoves ==
    ASSUME Pipeline!TypeOK, NEW e \in Items, NEW pc \in PipelinePc, v2' = [v2 EXCEPT ![e].pc = pc]
    PROVE  /\ v2' \in [Items -> PipelineEvent]
           /\ v2'[e].pc = pc /\ v2'[e].tries = v2[e].tries /\ v2'[e].by = v2[e].by
           /\ v2'[e].given = v2[e].given /\ v2'[e].version = v2[e].version
           /\ \A f \in Items \ {e} : v2'[f] = v2[f]
BY PipelineTypes DEF PipelineEvent

(* Steps that log nothing and number nothing. *)
LEMMA LogUntouched ==
    ASSUME PipelineLogged, v3' = v3,
           \A e \in Items : v2'[e].pc = "numbered" =>
              /\ v2[e].pc = "numbered" /\ v2'[e].by = v2[e].by
              /\ v2'[e].given = v2[e].given /\ v2'[e].version = v2[e].version
    PROVE  PipelineLogged'
<1>1. Pipeline!VersionsEnd' /\ Pipeline!NumberedVersionsIncrease'
  BY DEF PipelineLogged, Pipeline!VersionsEnd, Pipeline!Versions,
     Pipeline!NumberedVersionsIncrease
<1>2. Pipeline!NumberIsNext'
  BY DEF PipelineLogged, Pipeline!NumberIsNext, Pipeline!At
<1>. QED
  BY <1>1, <1>2 DEF PipelineLogged

LEMMA PipelineReads ==
    ASSUME Pipeline!IInv, NEW e \in Items, NEW p \in Pipeline!Processes, NEW g \in Given,
           Pipeline!AppendReads(e, p, g)
    PROVE  Pipeline!TypeOK' /\ PipelineLogged' /\ PipelineCounted'
<1>. Pipeline!TypeOK /\ PipelineLogged /\ PipelineCounted
  BY DEF Pipeline!IInv, PipelineLogged, PipelineCounted
<1>1. PICK n \in Nat \ {0} : n = Pipeline!NextVersion /\ \A i \in DOMAIN v3 : v3[i].version < n
  BY NextVersionIsGreater DEF PipelineLogged
<1>2. PICK version \in Nat \ {0} : version = IF g > 0 THEN g ELSE n
  BY <1>1, WorkspaceAssumption
<1>3. v2' = [v2 EXCEPT ![e] = [pc |-> "numbered", by |-> p, given |-> g, version |-> version,
                               tries |-> 0]]
      /\ UNCHANGED <<v1, v3, v4, v5, v6, v7, v8>>
  BY <1>1, <1>2 DEF Pipeline!AppendReads
<1>4. [pc |-> "numbered", by |-> p, given |-> g, version |-> version, tries |-> 0]
         \in PipelineEvent
  <2>1. 0 \in 0..PublishTries
    BY WorkspaceAssumption
  <2>. QED
    BY <2>1 DEF PipelineEvent, PipelinePc
<1>5. /\ v2' \in [Items -> PipelineEvent] /\ v2'[e].pc = "numbered" /\ v2'[e].by = p
      /\ v2'[e].given = g /\ v2'[e].version = version /\ v2'[e].tries = 0
      /\ \A f \in Items \ {e} : v2'[f] = v2[f]
  BY <1>3, <1>4, PipelineTypes
<1>6. v2[e].pc = "new" /\ \A f \in Items : ~(v2[f].pc = "numbered" /\ v2[f].by = p)
  BY DEF Pipeline!AppendReads, Pipeline!At
<1>7. Pipeline!TypeOK'
  BY <1>3, <1>5, PipelineTypes, PipelineTyped
<1>8. Pipeline!NumberIsNext'
  <2>1. g = 0 => version = n
    BY <1>2
  <2>2. \A f, h \in Items :
           v2'[f].pc = "numbered" /\ v2'[h].pc = "numbered" /\ v2'[f].by = v2'[h].by => f = h
    BY <1>5, <1>6 DEF PipelineLogged, Pipeline!NumberIsNext, Pipeline!At
  <2>3. ASSUME NEW f \in Items, v2'[f].pc = "numbered", v2'[f].given = 0, NEW i \in DOMAIN v3,
               v3[i].by = v2'[f].by
        PROVE  v3[i].version < v2'[f].version
    <3>1. CASE f = e
      BY <1>1, <1>5, <2>1, <2>3, <3>1
    <3>2. CASE f # e
      BY <1>5, <2>3, <3>2 DEF PipelineLogged, Pipeline!NumberIsNext, Pipeline!At
    <3>. QED
      BY <3>1, <3>2
  <2>4. \A f \in Items : v2'[f].pc = "numbered" => v2'[f].version > 0
    BY <1>5 DEF PipelineLogged, Pipeline!NumberIsNext, Pipeline!At
  <2>. QED
    BY <1>3, <2>2, <2>3, <2>4 DEF Pipeline!NumberIsNext, Pipeline!At
<1>9. PipelineLogged'
  BY <1>3, <1>8 DEF PipelineLogged, Pipeline!VersionsEnd, Pipeline!Versions,
     Pipeline!NumberedVersionsIncrease
<1>10. PipelineCounted'
  <2>1. Pipeline!TriesAreCounted'
    BY <1>3, <1>5 DEF PipelineCounted, Pipeline!TriesAreCounted, Pipeline!At
  <2>2. Pipeline!ReplaysAreCounted' /\ Pipeline!HeardIsLogged'
    BY <1>3, <1>5, <1>6, PipelineTypes DEF PipelineCounted, Pipeline!ReplaysAreCounted, Pipeline!HeardIsLogged,
       Pipeline!At
  <2>. QED
    BY <2>1, <2>2 DEF PipelineCounted
<1>. QED
  BY <1>7, <1>9, <1>10

LEMMA PipelineInserts ==
    ASSUME Pipeline!IInv, NEW e \in Items, Pipeline!AppendInserts(e)
    PROVE  Pipeline!TypeOK' /\ PipelineLogged' /\ PipelineCounted'
<1>. Pipeline!TypeOK /\ PipelineLogged /\ PipelineCounted
  BY DEF Pipeline!IInv, PipelineLogged, PipelineCounted
<1>. v2 \in [Items -> PipelineEvent] /\ v3 \in Seq(PipelineRow)
  BY PipelineTypes
<1>1. v2[e].pc = "numbered"
  BY DEF Pipeline!AppendInserts, Pipeline!At
<1>2. PICK new \in PipelineRow :
         new = [version |-> v2[e].version, by |-> v2[e].by, numbered |-> v2[e].given = 0]
  <2>1. v2[e].version \in Nat \ {0} /\ v2[e].by \in Pipeline!Processes
        /\ (v2[e].given = 0) \in BOOLEAN
    BY <1>1 DEF PipelineEvent, PipelineLogged, Pipeline!NumberIsNext, Pipeline!At
  <2>. QED
    BY <2>1 DEF PipelineRow
<1>3. v3' = Append(v3, new) /\ v2' = [v2 EXCEPT ![e].pc = "logged"]
      /\ UNCHANGED <<v1, v4, v5, v6, v7, v8>>
  BY <1>2 DEF Pipeline!AppendInserts
<1>4. /\ v3' \in Seq(PipelineRow) /\ Len(v3') = Len(v3) + 1
      /\ v3'[Len(v3) + 1] = new /\ \A i \in 1..Len(v3) : v3'[i] = v3[i]
  BY <1>3, AppendProperties
<1>5. DOMAIN v3 = 1..Len(v3) /\ DOMAIN v3' = 1..(Len(v3) + 1) /\ Len(v3) \in Nat
  BY <1>4, LenProperties
<1>6. "logged" \in PipelinePc
  BY DEF PipelinePc
<1>7. /\ v2' \in [Items -> PipelineEvent] /\ v2'[e].pc = "logged"
      /\ v2'[e].tries = v2[e].tries /\ v2'[e].by = v2[e].by
      /\ \A f \in Items \ {e} : v2'[f] = v2[f]
  BY <1>3, <1>6, PipelineMoves
<1>8. Pipeline!TypeOK'
  BY <1>3, <1>4, <1>7, PipelineTypes, PipelineTyped
<1>9. \A i \in DOMAIN v3 : v3[i].version \in Nat
  <2>1. \A i \in DOMAIN v3 : v3[i] \in PipelineRow
    BY LenProperties
  <2>. QED
    BY <2>1 DEF PipelineRow
<1>10. new.version = v2[e].version /\ new.by = v2[e].by /\ new.version \in Nat
       /\ (new.numbered <=> v2[e].given = 0)
  <2>1. new.version = v2[e].version /\ new.by = v2[e].by
    BY <1>2
  <2>2. new.numbered = (v2[e].given = 0)
    BY <1>2
  <2>. QED
    BY <2>1, <2>2 DEF PipelineRow
<1>11. Pipeline!VersionsEnd'
  <2>1. PICK n \in Pipeline!Versions \cup {0} : \A v \in Pipeline!Versions \cup {0} : v <= n
    BY DEF PipelineLogged, Pipeline!VersionsEnd
  <2>2. Pipeline!Versions \subseteq Nat
    BY <1>9 DEF Pipeline!Versions
  <2>3. Pipeline!Versions' = Pipeline!Versions \cup {new.version}
    <3>1. ASSUME NEW x \in Pipeline!Versions' PROVE x \in Pipeline!Versions \cup {new.version}
      <4>1. PICK i \in 1..(Len(v3) + 1) : x = v3'[i].version
        BY <1>5 DEF Pipeline!Versions
      <4>2. i \in 1..Len(v3) \/ i = Len(v3) + 1
        BY <1>5
      <4>. QED
        BY <1>4, <1>5, <4>1, <4>2 DEF Pipeline!Versions
    <3>2. ASSUME NEW x \in Pipeline!Versions PROVE x \in Pipeline!Versions'
      <4>1. PICK i \in 1..Len(v3) : x = v3[i].version
        BY <1>5 DEF Pipeline!Versions
      <4>2. i \in 1..(Len(v3) + 1) /\ v3'[i].version = x
        BY <1>4, <1>5, <4>1
      <4>. QED
        BY <1>5, <4>2 DEF Pipeline!Versions
    <3>3. new.version \in Pipeline!Versions'
      <4>1. Len(v3) + 1 \in 1..(Len(v3) + 1) /\ v3'[Len(v3) + 1].version = new.version
        BY <1>4, <1>5
      <4>. QED
        BY <1>5, <4>1 DEF Pipeline!Versions
    <3>. QED
      BY <3>1, <3>2, <3>3
  <2>4. PICK m \in Pipeline!Versions' \cup {0} : \A v \in Pipeline!Versions' \cup {0} : v <= m
    <3>1. CASE n <= new.version
      <4>1. \A v \in Pipeline!Versions' \cup {0} : v <= new.version
        BY <1>10, <2>1, <2>2, <2>3, <3>1
      <4>. QED
        BY <2>3, <4>1
    <3>2. CASE ~(n <= new.version)
      <4>1. \A v \in Pipeline!Versions' \cup {0} : v <= n
        BY <1>10, <2>1, <2>2, <2>3, <3>2
      <4>. QED
        BY <2>1, <2>3, <4>1
    <3>. QED
      BY <3>1, <3>2
  <2>. QED
    BY <2>4 DEF Pipeline!VersionsEnd
<1>12. Pipeline!NumberedVersionsIncrease'
  <2>1. SUFFICES ASSUME NEW i \in DOMAIN v3', NEW j \in DOMAIN v3',
                        i < j, v3'[i].by = v3'[j].by, v3'[j].numbered
                 PROVE  v3'[i].version < v3'[j].version
    BY DEF Pipeline!NumberedVersionsIncrease
  <2>2. i \in 1..Len(v3) /\ (j \in 1..Len(v3) \/ j = Len(v3) + 1)
    BY <1>5, <2>1
  <2>3. v3'[i] = v3[i]
    BY <1>4, <2>2
  <2>4. CASE j = Len(v3) + 1
    <3>1. v3'[j] = new /\ v2[e].given = 0 /\ v3[i].by = v2[e].by
      BY <1>4, <1>10, <2>1, <2>3, <2>4
    <3>. QED
      BY <1>1, <1>5, <1>10, <2>2, <2>3, <3>1 DEF PipelineLogged, Pipeline!NumberIsNext, Pipeline!At
  <2>5. CASE j \in 1..Len(v3)
    <3>1. v3'[j] = v3[j]
      BY <1>4, <2>5
    <3>. QED
      BY <1>5, <2>1, <2>2, <2>3, <2>5, <3>1 DEF PipelineLogged, Pipeline!NumberedVersionsIncrease
  <2>. QED
    BY <2>2, <2>4, <2>5
<1>13. Pipeline!NumberIsNext'
  <2>1. ASSUME NEW f \in Items, v2'[f].pc = "numbered"
        PROVE  f # e /\ v2'[f] = v2[f] /\ v2[f].pc = "numbered" /\ v2[f].by # v2[e].by
    <3>1. f # e
      BY <1>7, <2>1
    <3>2. v2'[f] = v2[f] /\ v2[f].pc = "numbered"
      BY <1>7, <2>1, <3>1
    <3>. QED
      BY <1>1, <3>1, <3>2 DEF PipelineLogged, Pipeline!NumberIsNext, Pipeline!At
  <2>2. ASSUME NEW f \in Items, v2'[f].pc = "numbered", v2'[f].given = 0, NEW i \in DOMAIN v3',
               v3'[i].by = v2'[f].by
        PROVE  v3'[i].version < v2'[f].version
    <3>1. v2'[f] = v2[f] /\ v2[f].pc = "numbered" /\ v2[f].by # v2[e].by
      BY <2>1, <2>2
    <3>2. i # Len(v3) + 1
      BY <1>4, <1>10, <2>2, <3>1
    <3>3. i \in 1..Len(v3)
      BY <1>5, <3>2
    <3>. QED
      BY <1>4, <1>5, <2>2, <3>1, <3>3 DEF PipelineLogged, Pipeline!NumberIsNext, Pipeline!At
  <2>3. \A f, h \in Items :
           v2'[f].pc = "numbered" /\ v2'[h].pc = "numbered" /\ v2'[f].by = v2'[h].by => f = h
    BY <2>1 DEF PipelineLogged, Pipeline!NumberIsNext, Pipeline!At
  <2>4. \A f \in Items : v2'[f].pc = "numbered" => v2'[f].version > 0
    BY <2>1 DEF PipelineLogged, Pipeline!NumberIsNext, Pipeline!At
  <2>. QED
    BY <2>2, <2>3, <2>4 DEF Pipeline!NumberIsNext, Pipeline!At
<1>14. PipelineCounted'
  <2>1. Pipeline!TriesAreCounted'
    BY <1>1, <1>3, <1>7 DEF PipelineCounted, Pipeline!TriesAreCounted, Pipeline!At
  <2>2. Pipeline!ReplaysAreCounted' /\ Pipeline!HeardIsLogged'
    BY <1>1, <1>3, <1>7, PipelineTypes DEF PipelineCounted, Pipeline!ReplaysAreCounted, Pipeline!HeardIsLogged,
       Pipeline!At
  <2>. QED
    BY <2>1, <2>2 DEF PipelineCounted
<1>. QED
  BY <1>8, <1>11, <1>12, <1>13, <1>14 DEF PipelineLogged

(* What the invariant says of one event: what its publisher is doing, its  *)
(* replay, and whether it was heard or is missed.                          *)
PipelineFine(ev, job, hears, misses) ==
    /\ ev.pc \in {"new", "numbered", "logged"} => ev.tries = 0
    /\ ev.pc = "publishing" => ev.tries < PublishTries
    /\ ev.pc = "replaying" => ev.tries = PublishTries /\ v1.replay
    /\ ev.pc = "done" /\ v1.publisher /\ ~hears /\ ~misses =>
          /\ ev.tries = PublishTries
          /\ v1.replay /\ ev.by = "api" => job.state # "none"
    /\ job.state # "none" => ev.pc = "done"
    /\ job.state \in {"none", "waiting", "active"} => job.attempts < ReplayAttempts
    /\ job.state = "completed" => hears \/ misses
    /\ job.state = "failed" => job.attempts = ReplayAttempts \/ misses
    /\ hears => ev.pc \notin {"new", "numbered"}

LEMMA PipelineIsFine ==
    ASSUME Pipeline!TypeOK
    PROVE  PipelineCounted <=> \A e \in Items : PipelineFine(v2[e], v4[e], e \in v6, e \in v7)
<1>1. v6 \subseteq Items /\ v7 \subseteq Items
  BY PipelineTypes
<1>2. ASSUME PipelineCounted, NEW e \in Items
      PROVE  PipelineFine(v2[e], v4[e], e \in v6, e \in v7)
  BY <1>2 DEF PipelineCounted, PipelineFine, Pipeline!TriesAreCounted,
     Pipeline!ReplaysAreCounted, Pipeline!HeardIsLogged, Pipeline!At
<1>3. ASSUME \A e \in Items : PipelineFine(v2[e], v4[e], e \in v6, e \in v7)
      PROVE  PipelineCounted
  <2>1. Pipeline!TriesAreCounted
    BY <1>3 DEF PipelineFine, Pipeline!TriesAreCounted, Pipeline!At
  <2>2. Pipeline!ReplaysAreCounted
    BY <1>3 DEF PipelineFine, Pipeline!ReplaysAreCounted, Pipeline!At
  <2>3. Pipeline!HeardIsLogged
    BY <1>1, <1>3 DEF PipelineFine, Pipeline!HeardIsLogged, Pipeline!At
  <2>. QED
    BY <2>1, <2>2, <2>3 DEF PipelineCounted
<1>. QED
  BY <1>2, <1>3

LEMMA PipelineStaysFine ==
    ASSUME v1' = v1, v6' \cup v7' \subseteq Items,
           \A e \in Items : PipelineFine(v2'[e], v4'[e], e \in v6', e \in v7')
    PROVE  PipelineCounted'
<1>1. Pipeline!TriesAreCounted'
  BY DEF PipelineFine, Pipeline!TriesAreCounted, Pipeline!At
<1>2. Pipeline!ReplaysAreCounted'
  BY DEF PipelineFine, Pipeline!ReplaysAreCounted, Pipeline!At
<1>3. Pipeline!HeardIsLogged'
  BY DEF PipelineFine, Pipeline!HeardIsLogged, Pipeline!At
<1>. QED
  BY <1>1, <1>2, <1>3 DEF PipelineCounted

(* A step that is about one event, and numbers or logs none. *)
LEMMA PipelineSteps ==
    ASSUME Pipeline!IInv, NEW e \in Items, UNCHANGED <<v1, v3>>,
           v2' \in [Items -> PipelineEvent], v4' \in [Items -> PipelineJob],
           v5' \in {"starting", "on", "off", "never"}, v6' \cup v7' \subseteq Items,
           \A f \in Items \ {e} :
              v2'[f] = v2[f] /\ v4'[f] = v4[f] /\ (f \in v6' <=> f \in v6) /\ (f \in v7' <=> f \in v7),
           v2'[e] = v2[e] \/ v2'[e].pc # "numbered",
           PipelineFine(v2'[e], v4'[e], e \in v6', e \in v7')
    PROVE  Pipeline!TypeOK' /\ PipelineLogged' /\ PipelineCounted'
<1>. Pipeline!TypeOK /\ PipelineLogged /\ PipelineCounted
  BY DEF Pipeline!IInv, PipelineLogged, PipelineCounted
<1>1. Pipeline!TypeOK'
  BY PipelineTypes, PipelineTyped
<1>2. PipelineLogged'
  BY LogUntouched
<1>3. \A f \in Items : PipelineFine(v2[f], v4[f], f \in v6, f \in v7)
  BY PipelineIsFine
<1>4. \A f \in Items \ {e} : PipelineFine(v2'[f], v4'[f], f \in v6', f \in v7')
  BY <1>3 DEF PipelineFine
<1>5. PipelineCounted'
  BY <1>4, PipelineStaysFine
<1>. QED
  BY <1>1, <1>2, <1>5

LEMMA PipelinePublishes ==
    ASSUME Pipeline!IInv, NEW e \in Items,
           Pipeline!MirrorReturns(e) \/ Pipeline!Published(e) \/ Pipeline!PublishFails(e)
    PROVE  Pipeline!TypeOK' /\ PipelineLogged' /\ PipelineCounted'
<1>. Pipeline!TypeOK /\ PipelineCounted
  BY DEF Pipeline!IInv, PipelineCounted
<1>. /\ v1 \in [publisher: BOOLEAN, replay: BOOLEAN] /\ v2 \in [Items -> PipelineEvent]
     /\ v4 \in [Items -> PipelineJob] /\ v5 \in {"starting", "on", "off", "never"}
     /\ v6 \cup v7 \subseteq Items
  BY PipelineTypes
<1>0. PipelineFine(v2[e], v4[e], e \in v6, e \in v7)
  BY PipelineIsFine
<1>. {"publishing", "replaying", "done"} \subseteq PipelinePc
  BY DEF PipelinePc
<1>1. CASE Pipeline!MirrorReturns(e)
  <2>1. PICK pc \in {"publishing", "done"} :
           pc = (IF v1.publisher THEN "publishing" ELSE "done")
    OBVIOUS
  <2>2. v2[e].pc = "logged" /\ v2' = [v2 EXCEPT ![e].pc = pc]
        /\ UNCHANGED <<v1, v3, v4, v5, v6, v7>>
    BY <1>1, <2>1 DEF Pipeline!MirrorReturns, Pipeline!At
  <2>3. /\ v2' \in [Items -> PipelineEvent] /\ v2'[e].pc = pc /\ v2'[e].tries = v2[e].tries
        /\ \A f \in Items \ {e} : v2'[f] = v2[f]
    BY <2>2, PipelineMoves
  <2>4. PipelineFine(v2'[e], v4'[e], e \in v6', e \in v7')
    BY <1>0, <2>1, <2>2, <2>3, WorkspaceAssumption DEF PipelineFine
  <2>. QED
    BY <2>2, <2>3, <2>4, PipelineSteps
<1>2. CASE Pipeline!Published(e)
  <2>1. v2[e].pc = "publishing" /\ v2' = [v2 EXCEPT ![e].pc = "done"]
        /\ UNCHANGED <<v1, v3, v4, v5>>
    BY <1>2 DEF Pipeline!Published, Pipeline!At
  <2>2. e \in v6' \cup v7' /\ v6' \cup v7' \subseteq Items
        /\ \A f \in Items \ {e} : (f \in v6' <=> f \in v6) /\ (f \in v7' <=> f \in v7)
    BY <1>2 DEF Pipeline!Published, Pipeline!Sent
  <2>3. /\ v2' \in [Items -> PipelineEvent] /\ v2'[e].pc = "done" /\ v2'[e].tries = v2[e].tries
        /\ \A f \in Items \ {e} : v2'[f] = v2[f]
    BY <2>1, PipelineMoves
  <2>4. PipelineFine(v2'[e], v4'[e], e \in v6', e \in v7')
    BY <1>0, <2>1, <2>2, <2>3 DEF PipelineFine
  <2>. QED
    BY <2>1, <2>2, <2>3, <2>4, PipelineSteps
<1>3. CASE Pipeline!PublishFails(e)
  <2>1. v2[e].pc = "publishing" /\ v2' = [v2 EXCEPT ![e] = Pipeline!AfterPublish(e)]
        /\ UNCHANGED <<v1, v3, v4, v5>>
    BY <1>3 DEF Pipeline!PublishFails, Pipeline!At
  <2>2. v6' \cup v7' \subseteq Items
        /\ \A f \in Items \ {e} : (f \in v6' <=> f \in v6) /\ (f \in v7' <=> f \in v7)
    BY <1>3 DEF Pipeline!PublishFails, Pipeline!Unconfirmed, Pipeline!Sent
  <2>3. v2[e].tries + 1 \in 0..PublishTries /\ v2[e].tries \in Nat
    BY <1>0, <2>1, WorkspaceAssumption DEF PipelineFine, PipelineEvent
  <2>4. PICK n \in 0..PublishTries : n = v2[e].tries + 1
    BY <2>3
  <2>5. PICK pc \in {"publishing", "replaying", "done"} :
           pc = IF n < PublishTries THEN "publishing"
                ELSE IF v1.replay THEN "replaying" ELSE "done"
    OBVIOUS
  <2>6. Pipeline!AfterPublish(e) = [[v2[e] EXCEPT !.tries = n] EXCEPT !.pc = pc]
    BY <2>4, <2>5 DEF Pipeline!AfterPublish, PipelineEvent
  <2>7. Pipeline!AfterPublish(e) \in PipelineEvent /\ Pipeline!AfterPublish(e).tries = n
        /\ Pipeline!AfterPublish(e).pc = pc /\ Pipeline!AfterPublish(e).by = v2[e].by
    BY <2>6 DEF PipelineEvent
  <2>8. /\ v2' \in [Items -> PipelineEvent] /\ v2'[e].pc = pc /\ v2'[e].tries = n
        /\ v2'[e].by = v2[e].by /\ \A f \in Items \ {e} : v2'[f] = v2[f]
    BY <2>1, <2>7
  <2>9. n < PublishTries \/ n = PublishTries
    BY WorkspaceAssumption
  <2>10. PipelineFine(v2'[e], v4'[e], e \in v6', e \in v7')
    <3>1. v4[e].state = "none" /\ v4[e].attempts < ReplayAttempts
      BY <1>0, <2>1 DEF PipelineFine
    <3>2. v2'[e].pc = "publishing" => v2'[e].tries < PublishTries
      BY <2>5, <2>8
    <3>3. v2'[e].pc = "replaying" => v2'[e].tries = PublishTries /\ v1'.replay
      BY <2>1, <2>5, <2>8, <2>9
    <3>4. v2'[e].pc = "done" => v2'[e].tries = PublishTries /\ ~v1'.replay
      BY <2>1, <2>5, <2>8, <2>9
    <3>. QED
      BY <2>1, <2>5, <2>8, <3>1, <3>2, <3>3, <3>4 DEF PipelineFine
  <2>. QED
    BY <2>1, <2>2, <2>5, <2>8, <2>10, PipelineSteps
<1>. QED
  BY <1>1, <1>2, <1>3

LEMMA PipelineReplays ==
    ASSUME Pipeline!IInv, NEW e \in Items,
           \/ Pipeline!EnqueueReplay(e) \/ Pipeline!EnqueueReplayFails(e)
           \/ Pipeline!ReplayStarts(e) \/ Pipeline!ReplayPublishes(e) \/ Pipeline!ReplayFails(e)
    PROVE  Pipeline!TypeOK' /\ PipelineLogged' /\ PipelineCounted'
<1>. Pipeline!TypeOK /\ PipelineCounted
  BY DEF Pipeline!IInv, PipelineCounted
<1>. /\ v1 \in [publisher: BOOLEAN, replay: BOOLEAN] /\ v2 \in [Items -> PipelineEvent]
     /\ v4 \in [Items -> PipelineJob] /\ v5 \in {"starting", "on", "off", "never"}
     /\ v6 \cup v7 \subseteq Items
  BY PipelineTypes
<1>0. PipelineFine(v2[e], v4[e], e \in v6, e \in v7)
  BY PipelineIsFine
<1>. "done" \in PipelinePc
  BY DEF PipelinePc
<1>1. CASE Pipeline!EnqueueReplay(e)
  <2>1. v2[e].pc = "replaying" /\ v2' = [v2 EXCEPT ![e].pc = "done"]
        /\ UNCHANGED <<v1, v3, v5, v6, v7>>
    BY <1>1 DEF Pipeline!EnqueueReplay, Pipeline!At
  <2>2. /\ v2' \in [Items -> PipelineEvent] /\ v2'[e].pc = "done" /\ v2'[e].tries = v2[e].tries
        /\ v2'[e].by = v2[e].by /\ \A f \in Items \ {e} : v2'[f] = v2[f]
    BY <2>1, PipelineMoves
  <2>3. v4[e].state = "none"
    BY <1>0, <2>1 DEF PipelineFine
  <2>4. CASE v2[e].by = "api"
    <3>1. v4' = [v4 EXCEPT ![e].state = "waiting"]
      BY <1>1, <2>4 DEF Pipeline!EnqueueReplay
    <3>2. v4' \in [Items -> PipelineJob] /\ v4'[e].state = "waiting"
          /\ v4'[e].attempts = v4[e].attempts /\ \A f \in Items \ {e} : v4'[f] = v4[f]
      BY <3>1 DEF PipelineJob
    <3>3. PipelineFine(v2'[e], v4'[e], e \in v6', e \in v7')
      BY <1>0, <2>1, <2>2, <2>3, <3>2 DEF PipelineFine
    <3>. QED
      BY <2>1, <2>2, <3>2, <3>3, PipelineSteps
  <2>5. CASE v2[e].by # "api"
    <3>1. v4' = v4
      BY <1>1, <2>5 DEF Pipeline!EnqueueReplay
    <3>2. PipelineFine(v2'[e], v4'[e], e \in v6', e \in v7')
      BY <1>0, <2>1, <2>2, <2>3, <2>5, <3>1 DEF PipelineFine
    <3>. QED
      BY <2>1, <2>2, <3>1, <3>2, PipelineSteps
  <2>. QED
    BY <2>4, <2>5
<1>2. CASE Pipeline!EnqueueReplayFails(e)
  <2>1. v2[e].pc = "replaying" /\ v2' = [v2 EXCEPT ![e].pc = "done"] /\ v7' = v7 \cup {e}
        /\ UNCHANGED <<v1, v3, v4, v5, v6>>
    BY <1>2 DEF Pipeline!EnqueueReplayFails, Pipeline!At
  <2>2. /\ v2' \in [Items -> PipelineEvent] /\ v2'[e].pc = "done" /\ v2'[e].tries = v2[e].tries
        /\ \A f \in Items \ {e} : v2'[f] = v2[f]
    BY <2>1, PipelineMoves
  <2>3. PipelineFine(v2'[e], v4'[e], e \in v6', e \in v7')
    BY <1>0, <2>1, <2>2 DEF PipelineFine
  <2>. QED
    BY <2>1, <2>2, <2>3, PipelineSteps
<1>3. CASE Pipeline!ReplayStarts(e)
  <2>1. v4[e].state = "waiting" /\ v4' = [v4 EXCEPT ![e].state = "active", ![e].tries = 0]
        /\ UNCHANGED <<v1, v2, v3, v5, v6, v7>>
    BY <1>3 DEF Pipeline!ReplayStarts
  <2>2. 0 \in 0..(ReplayTries - 1)
    BY WorkspaceAssumption
  <2>3. v4' = [v4 EXCEPT ![e] = [[v4[e] EXCEPT !.state = "active"] EXCEPT !.tries = 0]]
    BY <2>1 DEF PipelineJob
  <2>4. /\ [[v4[e] EXCEPT !.state = "active"] EXCEPT !.tries = 0] \in PipelineJob
        /\ [[v4[e] EXCEPT !.state = "active"] EXCEPT !.tries = 0].state = "active"
        /\ [[v4[e] EXCEPT !.state = "active"] EXCEPT !.tries = 0].attempts = v4[e].attempts
    BY <2>2 DEF PipelineJob
  <2>5. /\ v4' \in [Items -> PipelineJob] /\ v4'[e].state = "active"
        /\ v4'[e].attempts = v4[e].attempts /\ \A f \in Items \ {e} : v4'[f] = v4[f]
    BY <2>3, <2>4
  <2>6. PipelineFine(v2'[e], v4'[e], e \in v6', e \in v7')
    BY <1>0, <2>1, <2>5 DEF PipelineFine
  <2>. QED
    BY <2>1, <2>5, <2>6, PipelineSteps
<1>4. CASE Pipeline!ReplayPublishes(e)
  <2>1. v4[e].state = "active" /\ v4' = [v4 EXCEPT ![e].state = "completed"]
        /\ UNCHANGED <<v1, v2, v3, v5>>
    BY <1>4 DEF Pipeline!ReplayPublishes
  <2>2. e \in v6' \cup v7' /\ v6' \cup v7' \subseteq Items
        /\ \A f \in Items \ {e} : (f \in v6' <=> f \in v6) /\ (f \in v7' <=> f \in v7)
    BY <1>4 DEF Pipeline!ReplayPublishes, Pipeline!Sent
  <2>3. /\ v4' \in [Items -> PipelineJob] /\ v4'[e].state = "completed"
        /\ v4'[e].attempts = v4[e].attempts /\ \A f \in Items \ {e} : v4'[f] = v4[f]
    BY <2>1 DEF PipelineJob
  <2>4. PipelineFine(v2'[e], v4'[e], e \in v6', e \in v7')
    BY <1>0, <2>1, <2>2, <2>3 DEF PipelineFine
  <2>. QED
    BY <2>1, <2>2, <2>3, <2>4, PipelineSteps
<1>5. CASE Pipeline!ReplayFails(e)
  <2>1. v4[e].state = "active" /\ UNCHANGED <<v1, v2, v3, v5>>
    BY <1>5 DEF Pipeline!ReplayFails
  <2>2. v6' \cup v7' \subseteq Items
        /\ \A f \in Items \ {e} : (f \in v6' <=> f \in v6) /\ (f \in v7' <=> f \in v7)
    BY <1>5 DEF Pipeline!ReplayFails, Pipeline!Unconfirmed, Pipeline!Sent
  <2>3. PICK j \in PipelineJob : j = v4[e]
    OBVIOUS
  <2>4. j.tries \in Nat /\ j.attempts \in Nat /\ j.attempts < ReplayAttempts /\ j.state = "active"
    BY <1>0, <2>1, <2>3, WorkspaceAssumption DEF PipelineFine, PipelineJob
  <2>5. CASE j.tries + 1 < ReplayTries
    <3>1. PICK n \in 0..(ReplayTries - 1) : n = j.tries + 1
      BY <2>4, <2>5, WorkspaceAssumption
    <3>2. v4' = [v4 EXCEPT ![e] = [j EXCEPT !.tries = n]]
      BY <1>5, <2>3, <2>5, <3>1 DEF Pipeline!ReplayFails
    <3>3. [j EXCEPT !.tries = n] \in PipelineJob /\ [j EXCEPT !.tries = n].state = "active"
          /\ [j EXCEPT !.tries = n].attempts = j.attempts
      BY <2>4 DEF PipelineJob
    <3>4. /\ v4' \in [Items -> PipelineJob] /\ v4'[e].state = "active"
          /\ v4'[e].attempts = j.attempts /\ \A f \in Items \ {e} : v4'[f] = v4[f]
      BY <3>2, <3>3
    <3>5. v2[e].pc = "done" /\ v2'[e] = v2[e]
      BY <1>0, <2>1 DEF PipelineFine
    <3>6. PipelineFine(v2'[e], v4'[e], e \in v6', e \in v7')
      <4>1. v6 \subseteq v6' /\ v7 \subseteq v7'
        BY <1>5 DEF Pipeline!ReplayFails, Pipeline!Unconfirmed, Pipeline!Sent
      <4>. QED
        BY <1>0, <2>1, <2>4, <3>4, <3>5, <4>1 DEF PipelineFine
    <3>. QED
      BY <2>1, <2>2, <3>4, <3>5, <3>6, PipelineSteps
  <2>6. CASE ~(j.tries + 1 < ReplayTries)
    <3>1. PICK a \in 0..ReplayAttempts : a = j.attempts + 1
      BY <2>4, WorkspaceAssumption
    <3>2. PICK state \in {"waiting", "failed"} :
             state = IF a < ReplayAttempts THEN "waiting" ELSE "failed"
      OBVIOUS
    <3>3. v4' = [v4 EXCEPT ![e] = [j EXCEPT !.tries = 0, !.attempts = a, !.state = state]]
      BY <1>5, <2>3, <2>6, <3>1, <3>2 DEF Pipeline!ReplayFails, PipelineJob
    <3>4. 0 \in 0..(ReplayTries - 1)
      BY WorkspaceAssumption
    <3>5. PICK new : new = [j EXCEPT !.tries = 0, !.attempts = a, !.state = state]
      OBVIOUS
    <3>6. new \in PipelineJob /\ new.state = state /\ new.attempts = a
      BY <3>4, <3>5 DEF PipelineJob
    <3>7. /\ v4' \in [Items -> PipelineJob] /\ v4'[e].state = state
          /\ v4'[e].attempts = a /\ \A f \in Items \ {e} : v4'[f] = v4[f]
      BY <3>3, <3>5, <3>6
    <3>8. v2[e].pc = "done" /\ v2'[e] = v2[e]
      BY <1>0, <2>1 DEF PipelineFine
    <3>9. a < ReplayAttempts \/ a = ReplayAttempts
      BY WorkspaceAssumption
    <3>10. v6 \subseteq v6' /\ v7 \subseteq v7'
      BY <1>5 DEF Pipeline!ReplayFails, Pipeline!Unconfirmed, Pipeline!Sent
    <3>11. PipelineFine(v2'[e], v4'[e], e \in v6', e \in v7')
      <4>1. v4'[e].state \in {"none", "waiting", "active"} => v4'[e].attempts < ReplayAttempts
        BY <3>2, <3>7
      <4>2. v4'[e].state = "failed" => v4'[e].attempts = ReplayAttempts
        BY <3>2, <3>7, <3>9
      <4>. QED
        BY <1>0, <2>1, <2>4, <3>2, <3>7, <3>8, <3>10, <4>1, <4>2 DEF PipelineFine
    <3>. QED
      BY <2>1, <2>2, <3>7, <3>8, <3>11, PipelineSteps
  <2>. QED
    BY <2>5, <2>6
<1>. QED
  BY <1>1, <1>2, <1>3, <1>4, <1>5

LEMMA PipelineDies ==
    ASSUME Pipeline!IInv, NEW p \in Pipeline!Processes,
           NEW halted \in SUBSET {e \in Items : v4[e].state = "active"}, Pipeline!Dies(p, halted)
    PROVE  Pipeline!TypeOK' /\ PipelineLogged' /\ PipelineCounted'
<1>. Pipeline!TypeOK /\ PipelineLogged /\ PipelineCounted
  BY DEF Pipeline!IInv, PipelineLogged, PipelineCounted
<1>. /\ v1 \in [publisher: BOOLEAN, replay: BOOLEAN] /\ v2 \in [Items -> PipelineEvent]
     /\ v3 \in Seq(PipelineRow)
     /\ v4 \in [Items -> PipelineJob] /\ v5 \in {"starting", "on", "off", "never"}
     /\ v6 \cup v7 \subseteq Items
  BY PipelineTypes
<1>0. \A e \in Items : PipelineFine(v2[e], v4[e], e \in v6, e \in v7)
  BY PipelineIsFine
<1>1. PICK cut : cut = {e \in Items : Pipeline!InProgress(e) /\ v2[e].by = p}
  OBVIOUS
<1>2. /\ v2' = [e \in Items |-> IF e \in cut THEN [v2[e] EXCEPT !.pc = "lost"] ELSE v2[e]]
      /\ v4' = [e \in Items |-> IF e \in halted THEN Pipeline!Stalled(v4[e]) ELSE v4[e]]
      /\ v7' = v7 \cup cut \cup {e \in halted : v4[e].stalled}
      /\ v5' \in {"starting", "on", "off", "never"}
      /\ UNCHANGED <<v1, v3, v6>>
  BY <1>1 DEF Pipeline!Dies
<1>3. \A e \in cut : e \in Items /\ v2[e].pc \notin {"new", "done", "lost"}
  BY <1>1 DEF Pipeline!InProgress
<1>4. \A e \in Items : [v2[e] EXCEPT !.pc = "lost"] \in PipelineEvent
                       /\ [v2[e] EXCEPT !.pc = "lost"].pc = "lost"
  BY DEF PipelineEvent, PipelinePc
<1>5. /\ v2' \in [Items -> PipelineEvent] /\ \A e \in cut : v2'[e].pc = "lost"
      /\ \A e \in Items \ cut : v2'[e] = v2[e]
  BY <1>2, <1>3, <1>4
<1>6. ASSUME NEW e \in halted
      PROVE  /\ e \in Items /\ v4[e].state = "active" /\ v4'[e] \in PipelineJob
             /\ v4'[e].attempts = v4[e].attempts
             /\ v4'[e].state = (IF v4[e].stalled THEN "failed" ELSE "waiting")
  <2>1. PICK j \in PipelineJob : j = v4[e] /\ j.state = "active" /\ v4'[e] = Pipeline!Stalled(j)
    BY <1>2
  <2>2. CASE j.stalled
    <3>1. v4'[e] = [j EXCEPT !.state = "failed"]
      BY <2>1, <2>2 DEF Pipeline!Stalled
    <3>. QED
      BY <2>1, <2>2, <3>1 DEF PipelineJob
  <2>3. CASE ~j.stalled
    <3>1. v4'[e] = [j EXCEPT !.state = "waiting", !.stalled = TRUE]
      BY <2>1, <2>3 DEF Pipeline!Stalled
    <3>. QED
      BY <2>1, <2>3, <3>1 DEF PipelineJob
  <2>. QED
    BY <2>2, <2>3
<1>7. v4' \in [Items -> PipelineJob] /\ \A e \in Items \ halted : v4'[e] = v4[e]
  BY <1>2, <1>6
<1>8. v6' \cup v7' \subseteq Items
  BY <1>2, <1>3
<1>9. Pipeline!TypeOK'
  BY <1>2, <1>5, <1>7, <1>8, PipelineTyped
<1>10. \A e \in Items : v2'[e].pc = "numbered" => v2'[e] = v2[e]
  BY <1>5
<1>11. PipelineLogged'
  BY <1>2, <1>10, LogUntouched
<1>12. ASSUME NEW e \in Items PROVE PipelineFine(v2'[e], v4'[e], e \in v6', e \in v7')
  <2>1. PipelineFine(v2[e], v4[e], e \in v6, e \in v7)
    BY <1>0
  <2>2. CASE e \in cut
    <3>1. v4[e].state = "none" /\ e \notin halted
      BY <1>3, <2>1, <2>2 DEF PipelineFine
    <3>2. v4'[e] = v4[e] /\ v2'[e].pc = "lost"
      BY <1>5, <1>7, <2>2, <3>1
    <3>. QED
      BY <2>1, <3>1, <3>2 DEF PipelineFine
  <2>3. CASE e \in halted
    <3>1. v2[e].pc = "done" /\ e \notin cut
      BY <1>3, <1>6, <2>1, <2>3 DEF PipelineFine
    <3>2. v2'[e] = v2[e]
      BY <1>5, <3>1
    <3>3. v4[e].stalled => e \in v7'
      BY <1>2, <2>3
    <3>4. v7 \subseteq v7' /\ v6' = v6 /\ v1' = v1
      BY <1>2
    <3>5. v4'[e].state \in {"failed", "waiting"} /\ (v4'[e].state = "failed" => e \in v7')
      BY <1>6, <2>3, <3>3
    <3>. QED
      BY <1>6, <2>1, <2>3, <3>1, <3>2, <3>4, <3>5 DEF PipelineFine
  <2>4. CASE e \notin cut /\ e \notin halted
    <3>1. v2'[e] = v2[e] /\ v4'[e] = v4[e] /\ v6' = v6 /\ v1' = v1 /\ (e \in v7' <=> e \in v7)
      BY <1>2, <1>5, <1>7, <2>4
    <3>. QED
      BY <2>1, <3>1 DEF PipelineFine
  <2>. QED
    BY <2>2, <2>3, <2>4
<1>13. PipelineCounted'
  BY <1>2, <1>8, <1>12, PipelineStaysFine
<1>. QED
  BY <1>9, <1>11, <1>13

LEMMA NextPipeline ==
    ASSUME Pipeline!IInv, [Pipeline!Next]_(Pipeline!vars)
    PROVE  Pipeline!IInv'
<1>1. SUFFICES Pipeline!TypeOK' /\ PipelineLogged' /\ PipelineCounted'
  BY DEF Pipeline!IInv, PipelineLogged, PipelineCounted
<1>2. ASSUME UNCHANGED <<v1, v2, v3, v4, v6, v7>>, v5' \in {"starting", "on", "off", "never"}
      PROVE  Pipeline!TypeOK' /\ PipelineLogged' /\ PipelineCounted'
  <2>1. Pipeline!TypeOK /\ PipelineLogged /\ PipelineCounted
    BY DEF Pipeline!IInv, PipelineLogged, PipelineCounted
  <2>2. Pipeline!TypeOK'
    BY <1>2, <2>1, PipelineTypes, PipelineTyped
  <2>3. PipelineLogged'
    BY <1>2, <2>1, LogUntouched
  <2>4. v6' \cup v7' \subseteq Items
    BY <1>2, <2>1, PipelineTypes
  <2>5. \A e \in Items : PipelineFine(v2[e], v4[e], e \in v6, e \in v7)
    BY <2>1, PipelineIsFine
  <2>6. \A e \in Items : PipelineFine(v2'[e], v4'[e], e \in v6', e \in v7')
    BY <1>2, <2>5 DEF PipelineFine
  <2>7. PipelineCounted'
    BY <1>2, <2>4, <2>6, PipelineStaysFine
  <2>. QED
    BY <2>2, <2>3, <2>7
<1>3. CASE \/ Pipeline!FirstConnection(TRUE) \/ Pipeline!FirstConnection(FALSE)
           \/ Pipeline!ConnectionLost \/ Pipeline!Reconnected
  BY <1>2, <1>3 DEF Pipeline!FirstConnection, Pipeline!ConnectionLost, Pipeline!Reconnected
<1>4. CASE UNCHANGED Pipeline!vars
  <2>1. Pipeline!TypeOK /\ UNCHANGED <<v1, v2, v3, v4, v5, v6, v7>>
    BY <1>4 DEF Pipeline!IInv, Pipeline!vars
  <2>. QED
    BY <1>2, <2>1 DEF Pipeline!TypeOK
<1>. QED
  BY <1>3, <1>4, PipelineReads, PipelineInserts, PipelinePublishes, PipelineReplays, PipelineDies
     DEF Pipeline!Next

(* What a settled event that nobody heard has been through. *)
LEMMA OutageExplainsLoss == ASSUME Pipeline!IInv PROVE Pipeline!LostOnlyAfterOutage
<1>. Pipeline!TypeOK /\ PipelineCounted
  BY DEF Pipeline!IInv, PipelineCounted
<1>. /\ v1 \in [publisher: BOOLEAN, replay: BOOLEAN] /\ v2 \in [Items -> PipelineEvent]
     /\ v4 \in [Items -> PipelineJob] /\ v6 \cup v7 \subseteq Items
  BY PipelineTypes
<1>1. ASSUME NEW e \in Items, v1.publisher, Pipeline!Settled(e), e \notin v6 \cup v7
      PROVE  Pipeline!Failures(e) >= Pipeline!Endurance(e)
  <2>1. PipelineFine(v2[e], v4[e], e \in v6, e \in v7)
    BY PipelineIsFine
  <2>2. v2[e].pc = "done" /\ v4[e].state \in {"none", "completed", "failed"}
    BY <1>1 DEF Pipeline!Settled, Pipeline!At
  <2>3. v2[e].tries = PublishTries
        /\ (v1.replay /\ v2[e].by = "api" => v4[e].attempts = ReplayAttempts)
    BY <1>1, <2>1, <2>2 DEF PipelineFine
  <2>4. v4[e].attempts \in Nat /\ ReplayTries \in Nat /\ ReplayAttempts \in Nat /\ PublishTries \in Nat
    BY WorkspaceAssumption DEF PipelineJob
  <2>5. ReplayTries * v4[e].attempts \in Nat /\ ReplayTries * ReplayAttempts \in Nat
    BY <2>4
  <2>6. CASE v1.replay /\ v2[e].by = "api"
    <3>1. Pipeline!Endurance(e) = PublishTries + ReplayTries * ReplayAttempts
      BY <2>6 DEF Pipeline!Endurance
    <3>2. Pipeline!Failures(e) = PublishTries + ReplayTries * ReplayAttempts
      BY <2>3, <2>6 DEF Pipeline!Failures
    <3>. QED
      BY <2>4, <2>5, <3>1, <3>2
  <2>7. CASE ~(v1.replay /\ v2[e].by = "api")
    <3>1. Pipeline!Endurance(e) = PublishTries + 0
      BY <2>7 DEF Pipeline!Endurance
    <3>2. Pipeline!Failures(e) = PublishTries + ReplayTries * v4[e].attempts
      BY <2>3 DEF Pipeline!Failures
    <3>. QED
      BY <2>4, <2>5, <3>1, <3>2
  <2>. QED
    BY <2>6, <2>7
<1>2. \A e \in Items : e \in v6 => ~Pipeline!At(e, "new") /\ ~Pipeline!At(e, "numbered")
  BY DEF PipelineCounted, Pipeline!HeardIsLogged
<1>. QED
  BY <1>1, <1>2 DEF Pipeline!LostOnlyAfterOutage

----------------------------------------------------------------------------
(* WebhookIngest *)

(* How often y is an element of the sequence q. *)
Tally(q, y) == Cardinality({i \in DOMAIN q : q[i] = y})

(* Appending an element adds one to its tally and nothing to the others. *)
LEMMA TallyAppend ==
    ASSUME NEW S, NEW q \in Seq(S), NEW x \in S, NEW y
    PROVE  /\ Tally(q, y) \in Nat
           /\ Tally(Append(q, x), y) = Tally(q, y) + (IF x = y THEN 1 ELSE 0)
<1>1. PICK n \in Nat : n = Len(q) /\ DOMAIN q = 1..n
  BY LenProperties
<1>2. PICK T : T = {i \in 1..n : q[i] = y}
  OBVIOUS
<1>3. IsFiniteSet(T) /\ Cardinality(T) \in Nat
  <2>1. IsFiniteSet(1..n)
    BY FS_Interval
  <2>. QED
    BY <1>2, <2>1, FS_Subset, FS_CardinalityType
<1>4. /\ DOMAIN Append(q, x) = 1..(n + 1)
      /\ \A i \in 1..n : Append(q, x)[i] = q[i]
      /\ Append(q, x)[n + 1] = x
  BY <1>1, AppendProperties
<1>5. Tally(q, y) = Cardinality(T)
  BY <1>1, <1>2 DEF Tally
<1>6. CASE x = y
  <2>1. {i \in DOMAIN Append(q, x) : Append(q, x)[i] = y} = T \cup {n + 1}
    BY <1>2, <1>4, <1>6
  <2>2. n + 1 \notin T
    BY <1>2
  <2>3. Cardinality(T \cup {n + 1}) = Cardinality(T) + 1
    BY <1>3, <2>2, FS_AddElement
  <2>. QED
    BY <1>3, <1>5, <1>6, <2>1, <2>3 DEF Tally
<1>7. CASE x # y
  <2>1. {i \in DOMAIN Append(q, x) : Append(q, x)[i] = y} = T
    BY <1>2, <1>4, <1>7
  <2>2. Tally(Append(q, x), y) = Cardinality(T)
    BY <2>1 DEF Tally
  <2>. QED
    BY <1>3, <1>5, <1>7, <2>2
<1>. QED
  BY <1>6, <1>7

LEMMA TallyType == ASSUME NEW S, NEW q \in Seq(S), NEW y PROVE Tally(q, y) \in Nat
<1>1. Len(q) \in Nat /\ DOMAIN q = 1..Len(q)
  BY LenProperties
<1>2. IsFiniteSet(1..Len(q))
  BY <1>1, FS_Interval
<1>3. IsFiniteSet({i \in DOMAIN q : q[i] = y})
  BY <1>1, <1>2, FS_Subset
<1>. QED
  BY <1>3, FS_CardinalityType DEF Tally

IngestHandler == [pc: {"idle", "working"}, session: Items, arrived: 0..MaxRepeats]

IngestRow == [outcome: Ingest!Outcomes, session: Items]

ProcessedRow(s) == [outcome |-> "processed", session |-> s]

(* What the invariant says of a delivery d of this kind, of its events l,  *)
(* its rows a, its handler h and its n answers, when those of u are        *)
(* unaudited.                                                              *)
IngestFine(kind, l, a, h, n, d, u) ==
    /\ kind = "event" =>
          \A s \in Items :
             LET rows == Tally(a, ProcessedRow(s))
                           + (IF h.pc = "working" /\ h.session = s THEN 1 ELSE 0)
             IN  rows <= Tally(l, s) /\ (d \notin u => rows = Tally(l, s))
    /\ LET busy == IF h.pc = "working" THEN 1 ELSE 0
       IN  /\ Len(a) + busy <= h.arrived
           /\ n + busy <= h.arrived
           /\ n <= Len(a) \/ d \in u

LEMMA IngestTypes ==
    Ingest!TypeOK <=> /\ v1 \in [Repos -> [session: Items, owner: Users] \cup {None}]
                      /\ v2 \in [Items -> Users \cup {None}]
                      /\ v3 \in [Deliveries -> Ingest!Payload]
                      /\ v4 \in [Deliveries -> IngestHandler]
                      /\ v5 \in [Deliveries -> Seq(Items)]
                      /\ v6 \in [Deliveries -> Seq(IngestRow)]
                      /\ v7 \in [Deliveries -> 0..MaxRepeats]
                      /\ v8 \subseteq Deliveries
  BY DEF Ingest!TypeOK, IngestHandler, IngestRow

LEMMA IngestTyped ==
    ASSUME v1' \in [Repos -> [session: Items, owner: Users] \cup {None}],
           v2' \in [Items -> Users \cup {None}], v3' \in [Deliveries -> Ingest!Payload],
           v4' \in [Deliveries -> IngestHandler], v5' \in [Deliveries -> Seq(Items)],
           v6' \in [Deliveries -> Seq(IngestRow)], v7' \in [Deliveries -> 0..MaxRepeats],
           v8' \subseteq Deliveries
    PROVE  Ingest!TypeOK'
  BY DEF Ingest!TypeOK, IngestHandler, IngestRow

LEMMA IngestIsFine ==
    (Ingest!RowsWillMatch /\ Ingest!AnswersAreCounted)
       <=> \A d \in Deliveries : IngestFine(v3[d].kind, v5[d], v6[d], v4[d], v7[d], d, v8)
<1>1. \A d \in Deliveries, s \in Items :
         /\ Ingest!Processed(d, s) = Tally(v6[d], ProcessedRow(s))
         /\ Ingest!Logged(d, s) = Tally(v5[d], s)
         /\ Ingest!Working(d, s) = IF v4[d].pc = "working" /\ v4[d].session = s THEN 1 ELSE 0
  BY DEF Ingest!Processed, Ingest!Logged, Ingest!Working, Tally, ProcessedRow,
     Ingest!Cardinality, Cardinality
<1>2. Ingest!RowsWillMatch <=>
        \A d \in Deliveries : v3[d].kind = "event" =>
          \A s \in Items :
             LET rows == Tally(v6[d], ProcessedRow(s))
                           + (IF v4[d].pc = "working" /\ v4[d].session = s THEN 1 ELSE 0)
             IN  rows <= Tally(v5[d], s) /\ (d \notin v8 => rows = Tally(v5[d], s))
  BY <1>1 DEF Ingest!RowsWillMatch
<1>. QED
  BY <1>2 DEF Ingest!AnswersAreCounted, IngestFine

LEMMA IngestStaysFine ==
    ASSUME \A d \in Deliveries : IngestFine(v3'[d].kind, v5'[d], v6'[d], v4'[d], v7'[d], d, v8')
    PROVE  Ingest!RowsWillMatch' /\ Ingest!AnswersAreCounted'
<1>1. \A d \in Deliveries, s \in Items :
         /\ Ingest!Processed(d, s)' = Tally(v6'[d], ProcessedRow(s))
         /\ Ingest!Logged(d, s)' = Tally(v5'[d], s)
         /\ Ingest!Working(d, s)' = IF v4'[d].pc = "working" /\ v4'[d].session = s THEN 1 ELSE 0
  BY DEF Ingest!Processed, Ingest!Logged, Ingest!Working, Tally, ProcessedRow,
     Ingest!Cardinality, Cardinality
<1>2. Ingest!RowsWillMatch'
  BY <1>1 DEF Ingest!RowsWillMatch, IngestFine
<1>3. Ingest!AnswersAreCounted'
  BY DEF Ingest!AnswersAreCounted, IngestFine
<1>. QED
  BY <1>2, <1>3

LEMMA InitIngest == Ingest!Init => Ingest!IInv
<1>. SUFFICES ASSUME Ingest!Init PROVE Ingest!IInv
  OBVIOUS
<1>1. 0 \in 0..MaxRepeats /\ EnvSession \in Items
  BY WorkspaceAssumption
<1>2. Ingest!Idle \in IngestHandler /\ Ingest!Idle.pc = "idle" /\ Ingest!Idle.arrived = 0
  BY <1>1 DEF Ingest!Idle, IngestHandler
<1>3. /\ v1 = [r \in Repos |-> None] /\ v2 = [s \in Items |-> None]
      /\ v3 \in [Deliveries -> Ingest!Payload] /\ v4 = [d \in Deliveries |-> Ingest!Idle]
      /\ v5 = [d \in Deliveries |-> <<>>] /\ v6 = [d \in Deliveries |-> <<>>]
      /\ v7 = [d \in Deliveries |-> 0] /\ v8 = {}
  BY DEF Ingest!Init
<1>4. <<>> \in Seq(Items) /\ <<>> \in Seq(IngestRow)
  OBVIOUS
<1>5. /\ v1 \in [Repos -> [session: Items, owner: Users] \cup {None}]
      /\ v2 \in [Items -> Users \cup {None}] /\ v8 \subseteq Deliveries
  BY <1>3
<1>6. /\ v4 \in [Deliveries -> IngestHandler] /\ v5 \in [Deliveries -> Seq(Items)]
      /\ v6 \in [Deliveries -> Seq(IngestRow)] /\ v7 \in [Deliveries -> 0..MaxRepeats]
  BY <1>1, <1>2, <1>3, <1>4
<1>7. Ingest!TypeOK
  BY <1>3, <1>5, <1>6, IngestTypes
<1>8. \A y : Tally(<<>>, y) = 0
  <2>1. \A y : {i \in DOMAIN <<>> : <<>>[i] = y} = {}
    OBVIOUS
  <2>. QED
    BY <2>1, FS_EmptySet DEF Tally
<1>9. ASSUME NEW d \in Deliveries
      PROVE  IngestFine(v3[d].kind, v5[d], v6[d], v4[d], v7[d], d, v8)
  <2>1. Len(v6[d]) = 0 /\ v5[d] = <<>> /\ v6[d] = <<>> /\ v7[d] = 0
        /\ v4[d].pc = "idle" /\ v4[d].arrived = 0
    BY <1>2, <1>3
  <2>. QED
    BY <1>8, <2>1 DEF IngestFine
<1>. QED
  BY <1>7, <1>9, IngestIsFine DEF Ingest!IInv

(* A step that is about one delivery. *)
LEMMA IngestSteps ==
    ASSUME Ingest!IInv, NEW d \in Deliveries, UNCHANGED <<v1, v2, v3>>,
           v4' \in [Deliveries -> IngestHandler], v5' \in [Deliveries -> Seq(Items)],
           v6' \in [Deliveries -> Seq(IngestRow)], v7' \in [Deliveries -> Nat],
           v8' \in {v8, v8 \cup {d}},
           \A e \in Deliveries \ {d} :
              v4'[e] = v4[e] /\ v5'[e] = v5[e] /\ v6'[e] = v6[e] /\ v7'[e] = v7[e],
           IngestFine(v3[d].kind, v5'[d], v6'[d], v4'[d], v7'[d], d, v8')
    PROVE  Ingest!IInv'
<1>. Ingest!TypeOK /\ Ingest!RowsWillMatch /\ Ingest!AnswersAreCounted
  BY DEF Ingest!IInv
<1>1. \A e \in Deliveries : IngestFine(v3[e].kind, v5[e], v6[e], v4[e], v7[e], e, v8)
  BY IngestIsFine
<1>2. ASSUME NEW e \in Deliveries \ {d}
      PROVE  IngestFine(v3'[e].kind, v5'[e], v6'[e], v4'[e], v7'[e], e, v8')
  <2>1. IngestFine(v3[e].kind, v5[e], v6[e], v4[e], v7[e], e, v8)
    BY <1>1
  <2>2. e \notin v8' <=> e \notin v8
    OBVIOUS
  <2>3. IngestFine(v3[e].kind, v5[e], v6[e], v4[e], v7[e], e, v8')
    BY <2>1, <2>2 DEF IngestFine
  <2>. QED
    BY <2>3
<1>3. \A e \in Deliveries : IngestFine(v3'[e].kind, v5'[e], v6'[e], v4'[e], v7'[e], e, v8')
  BY <1>2
<1>4. v7' \in [Deliveries -> 0..MaxRepeats]
  <2>1. ASSUME NEW e \in Deliveries PROVE v7'[e] \in 0..MaxRepeats
    <3>1. v4'[e].arrived \in 0..MaxRepeats /\ v7'[e] \in Nat /\ MaxRepeats \in Nat
      BY WorkspaceAssumption DEF IngestHandler
    <3>2. IngestFine(v3'[e].kind, v5'[e], v6'[e], v4'[e], v7'[e], e, v8')
      BY <1>3
    <3>3. PICK h, n : h = v4'[e] /\ n = v7'[e]
      OBVIOUS
    <3>4. n + (IF h.pc = "working" THEN 1 ELSE 0) <= h.arrived
      BY <3>2, <3>3 DEF IngestFine
    <3>5. n <= h.arrived
      BY <3>1, <3>3, <3>4
    <3>. QED
      BY <3>1, <3>3, <3>5
  <2>. QED
    BY <2>1
<1>5. Ingest!TypeOK'
  BY <1>4, IngestTypes, IngestTyped
<1>. QED
  BY <1>3, <1>5, IngestStaysFine DEF Ingest!IInv

(* The audit row of a delivery is inserted, or the delivery is unaudited. *)
LEMMA IngestAudits ==
    ASSUME Ingest!TypeOK, NEW d \in Deliveries, NEW o \in Ingest!Outcomes, NEW s \in Items,
           Ingest!TryAudit(d, o, s)
    PROVE  /\ v6' \in [Deliveries -> Seq(IngestRow)] /\ v8' \in {v8, v8 \cup {d}}
           /\ \A e \in Deliveries \ {d} : v6'[e] = v6[e]
           /\ \/ v6'[d] = v6[d] /\ d \in v8'
              \/ /\ v8' = v8 /\ Len(v6'[d]) = Len(v6[d]) + 1
                 /\ \A y : y # [outcome |-> o, session |-> s]
                              => Tally(v6'[d], y) = Tally(v6[d], y)
                 /\ Tally(v6'[d], [outcome |-> o, session |-> s])
                      = Tally(v6[d], [outcome |-> o, session |-> s]) + 1
<1>. v6 \in [Deliveries -> Seq(IngestRow)]
  BY IngestTypes
<1>1. CASE v8' = v8 \cup {d} /\ UNCHANGED v6
  BY <1>1
<1>2. CASE /\ v6' = [v6 EXCEPT ![d] = Append(@, [outcome |-> o, session |-> s])]
           /\ UNCHANGED v8
  <2>1. PICK r \in IngestRow : r = [outcome |-> o, session |-> s]
    BY DEF IngestRow
  <2>2. Append(v6[d], r) \in Seq(IngestRow) /\ Len(Append(v6[d], r)) = Len(v6[d]) + 1
    BY AppendProperties
  <2>3. /\ \A y : y # r => Tally(Append(v6[d], r), y) = Tally(v6[d], y)
        /\ Tally(Append(v6[d], r), r) = Tally(v6[d], r) + 1
    <3>1. ASSUME NEW y, y # r PROVE Tally(Append(v6[d], r), y) = Tally(v6[d], y) + 0
      BY <3>1, TallyAppend
    <3>2. ASSUME NEW y PROVE Tally(v6[d], y) + 0 = Tally(v6[d], y)
      BY TallyType
    <3>. QED
      BY <3>1, <3>2, TallyAppend
  <2>4. v6' \in [Deliveries -> Seq(IngestRow)] /\ v6'[d] = Append(v6[d], r)
        /\ \A e \in Deliveries \ {d} : v6'[e] = v6[e]
    BY <1>2, <2>1, <2>2
  <2>. QED
    BY <1>2, <2>1, <2>2, <2>3, <2>4
<1>. QED
  BY <1>1, <1>2 DEF Ingest!TryAudit

(* The session a delivery is routed to is a session. *)
LEMMA IngestRoutes ==
    ASSUME Ingest!TypeOK, NEW d \in Deliveries
    PROVE  Ingest!ResolveIngestSession(d) \in Items
<1>1. v3[d].repo \in Repos \cup {None}
  BY IngestTypes DEF Ingest!Payload
<1>2. ASSUME v3[d].repo # None, v1[v3[d].repo] # None
      PROVE  v1[v3[d].repo].session \in Items
  BY <1>1, <1>2, IngestTypes
<1>. QED
  BY <1>2, WorkspaceAssumption DEF Ingest!ResolveIngestSession

(* A delivery whose kind logs nothing here, or a row of another outcome: the *)
(* counts stay, the arrival is counted.                                    *)
LEMMA IngestTurnedAway ==
    ASSUME NEW k, NEW l \in Seq(Items), NEW a \in Seq(IngestRow), NEW b \in Seq(IngestRow),
           NEW h \in IngestHandler, NEW g \in IngestHandler, NEW n \in Nat, NEW m \in {n, n + 1},
           NEW d, NEW u, NEW w, IngestFine(k, l, a, h, n, d, u),
           h.pc = "idle", g.pc = "idle", g.arrived = h.arrived + 1,
           \/ b = a /\ d \in w
           \/ /\ w = u /\ Len(b) = Len(a) + 1
              /\ k = "event" =>
                    \A s \in Items : Tally(b, ProcessedRow(s)) = Tally(a, ProcessedRow(s))
    PROVE  IngestFine(k, l, b, g, m, d, w)
<1>1. /\ Len(a) \in Nat /\ Len(b) \in Nat /\ h.arrived \in Nat /\ g.arrived \in Nat
      /\ \A s \in Items : /\ Tally(l, s) \in Nat
                          /\ Tally(a, ProcessedRow(s)) \in Nat
                          /\ Tally(b, ProcessedRow(s)) \in Nat
  <2>1. Len(a) \in Nat /\ Len(b) \in Nat
    BY LenProperties
  <2>2. h.arrived \in Nat /\ g.arrived \in Nat
    BY WorkspaceAssumption DEF IngestHandler
  <2>3. \A y : Tally(l, y) \in Nat /\ Tally(a, y) \in Nat /\ Tally(b, y) \in Nat
    BY TallyType
  <2>. QED
    BY <2>1, <2>2, <2>3
<1>2. Len(a) <= h.arrived /\ n <= h.arrived /\ (n <= Len(a) \/ d \in u)
  BY <1>1 DEF IngestFine
<1>3. ASSUME k = "event", NEW s \in Items
      PROVE  /\ Tally(b, ProcessedRow(s)) <= Tally(l, s)
             /\ d \notin w => Tally(b, ProcessedRow(s)) = Tally(l, s)
  BY <1>1, <1>3 DEF IngestFine
<1>. QED
  BY <1>1, <1>2, <1>3 DEF IngestFine

(* The event of a delivery is logged, and its handler is at work. *)
LEMMA IngestAccepted ==
    ASSUME NEW k, NEW l \in Seq(Items), NEW a \in Seq(IngestRow), NEW h \in IngestHandler,
           NEW g \in IngestHandler, NEW n \in Nat, NEW d, NEW u, NEW t \in Items,
           IngestFine(k, l, a, h, n, d, u), h.pc = "idle",
           g.pc = "working", g.session = t, g.arrived = h.arrived + 1,
           NEW j, j = IF k = "event" THEN Append(l, t) ELSE l
    PROVE  IngestFine(k, j, a, g, n, d, u)
<1>1. Len(a) \in Nat /\ h.arrived \in Nat /\ g.arrived \in Nat
  BY LenProperties, WorkspaceAssumption DEF IngestHandler
<1>2. Len(a) <= h.arrived /\ n <= h.arrived /\ (n <= Len(a) \/ d \in u)
  BY <1>1 DEF IngestFine
<1>3. ASSUME k = "event", NEW s \in Items
      PROVE  LET rows == Tally(a, ProcessedRow(s)) + (IF g.session = s THEN 1 ELSE 0)
             IN  rows <= Tally(j, s) /\ (d \notin u => rows = Tally(j, s))
  <2>1. Tally(a, ProcessedRow(s)) \in Nat /\ Tally(l, s) \in Nat
    BY TallyType
  <2>2. Tally(j, s) = Tally(l, s) + (IF t = s THEN 1 ELSE 0)
    BY <1>3, TallyAppend
  <2>3. /\ Tally(a, ProcessedRow(s)) <= Tally(l, s)
        /\ d \notin u => Tally(a, ProcessedRow(s)) = Tally(l, s)
    BY <1>3, <2>1 DEF IngestFine
  <2>. QED
    BY <2>1, <2>2, <2>3
<1>. QED
  BY <1>1, <1>2, <1>3 DEF IngestFine

(* The row of a handler at work is written, or is lost. *)
LEMMA IngestAnswered ==
    ASSUME NEW k, NEW l \in Seq(Items), NEW a \in Seq(IngestRow), NEW b \in Seq(IngestRow),
           NEW h \in IngestHandler, NEW g \in IngestHandler, NEW n \in Nat, NEW m \in {n, n + 1},
           NEW d, NEW u, NEW w, IngestFine(k, l, a, h, n, d, u),
           h.pc = "working", g.pc = "idle", g.arrived = h.arrived,
           \/ b = a /\ d \in w
           \/ /\ w = u /\ Len(b) = Len(a) + 1
              /\ \A y : y # ProcessedRow(h.session) => Tally(b, y) = Tally(a, y)
              /\ Tally(b, ProcessedRow(h.session)) = Tally(a, ProcessedRow(h.session)) + 1
    PROVE  IngestFine(k, l, b, g, m, d, w)
<1>1. /\ Len(a) \in Nat /\ Len(b) \in Nat /\ h.arrived \in Nat /\ h.session \in Items
      /\ \A y : Tally(l, y) \in Nat /\ Tally(a, y) \in Nat /\ Tally(b, y) \in Nat
  <2>1. Len(a) \in Nat /\ Len(b) \in Nat
    BY LenProperties
  <2>2. \A y : Tally(l, y) \in Nat /\ Tally(a, y) \in Nat /\ Tally(b, y) \in Nat
    BY TallyType
  <2>. QED
    BY <2>1, <2>2, WorkspaceAssumption DEF IngestHandler
<1>2. Len(a) + 1 <= h.arrived /\ n + 1 <= h.arrived /\ (n <= Len(a) \/ d \in u)
  BY <1>1 DEF IngestFine
<1>3. ASSUME k = "event", NEW s \in Items
      PROVE  /\ Tally(b, ProcessedRow(s)) <= Tally(l, s)
             /\ d \notin w => Tally(b, ProcessedRow(s)) = Tally(l, s)
  <2>1. CASE h.session = s
    <3>1. /\ Tally(a, ProcessedRow(s)) + 1 <= Tally(l, s)
          /\ d \notin u => Tally(a, ProcessedRow(s)) + 1 = Tally(l, s)
      BY <1>1, <1>3, <2>1 DEF IngestFine
    <3>. QED
      BY <1>1, <2>1, <3>1
  <2>2. CASE h.session # s
    <3>1. /\ Tally(a, ProcessedRow(s)) <= Tally(l, s)
          /\ d \notin u => Tally(a, ProcessedRow(s)) = Tally(l, s)
      BY <1>1, <1>3, <2>2 DEF IngestFine
    <3>2. ProcessedRow(s) # ProcessedRow(h.session)
      BY <2>2 DEF ProcessedRow
    <3>. QED
      BY <1>1, <3>1, <3>2
  <2>. QED
    BY <2>1, <2>2
<1>. QED
  BY <1>1, <1>2, <1>3 DEF IngestFine

LEMMA NextIngest ==
    ASSUME Ingest!IInv, [Ingest!Next]_(Ingest!vars)
    PROVE  Ingest!IInv'
<1>. Ingest!TypeOK /\ Ingest!RowsWillMatch /\ Ingest!AnswersAreCounted
  BY DEF Ingest!IInv
<1>. /\ v1 \in [Repos -> [session: Items, owner: Users] \cup {None}]
     /\ v2 \in [Items -> Users \cup {None}] /\ v3 \in [Deliveries -> Ingest!Payload]
     /\ v4 \in [Deliveries -> IngestHandler] /\ v5 \in [Deliveries -> Seq(Items)]
     /\ v6 \in [Deliveries -> Seq(IngestRow)] /\ v7 \in [Deliveries -> 0..MaxRepeats]
     /\ v8 \subseteq Deliveries
  BY IngestTypes
<1>. MaxRepeats \in Nat /\ EnvSession \in Items
  BY WorkspaceAssumption
<1>1. ASSUME v1' \in [Repos -> [session: Items, owner: Users] \cup {None}],
             v2' \in [Items -> Users \cup {None}], UNCHANGED <<v3, v4, v5, v6, v7, v8>>
      PROVE  Ingest!IInv'
  <2>1. Ingest!TypeOK'
    BY <1>1, IngestTyped
  <2>2. \A d \in Deliveries : IngestFine(v3'[d].kind, v5'[d], v6'[d], v4'[d], v7'[d], d, v8')
    BY <1>1, IngestIsFine
  <2>. QED
    BY <2>1, <2>2, IngestStaysFine DEF Ingest!IInv
<1>2. ASSUME NEW u \in Users, NEW r \in Repos, Ingest!Remove(u, r) PROVE Ingest!IInv'
  BY <1>1, <1>2 DEF Ingest!Remove
<1>3. ASSUME NEW u \in Users, NEW r \in Repos, NEW s \in Items, Ingest!Register(u, r, s)
      PROVE  Ingest!IInv'
  BY <1>1, <1>3 DEF Ingest!Register
<1>4. ASSUME NEW u \in Users, NEW s \in Items, Ingest!Claim(u, s) PROVE Ingest!IInv'
  BY <1>1, <1>4 DEF Ingest!Claim
<1>5. ASSUME NEW d \in Deliveries, Ingest!Arrives(d)
      PROVE  /\ v4[d].pc = "idle" /\ v4[d].arrived \in Nat
             /\ v4[d].arrived + 1 \in 0..MaxRepeats /\ v7[d] \in Nat
             /\ [v4[d] EXCEPT !.arrived = v4[d].arrived + 1] \in IngestHandler
             /\ [v4[d] EXCEPT !.arrived = v4[d].arrived + 1].pc = "idle"
             /\ [v4[d] EXCEPT !.arrived = v4[d].arrived + 1].arrived = v4[d].arrived + 1
  <2>1. PICK h \in IngestHandler : h = v4[d]
    OBVIOUS
  <2>2. h.pc = "idle" /\ h.arrived \in Nat /\ h.arrived < MaxRepeats
    BY <1>5, <2>1 DEF Ingest!Arrives, IngestHandler
  <2>3. PICK n \in 0..MaxRepeats : n = h.arrived + 1
    BY <2>2
  <2>4. [h EXCEPT !.arrived = n] \in IngestHandler /\ [h EXCEPT !.arrived = n].pc = "idle"
        /\ [h EXCEPT !.arrived = n].arrived = n
    BY <2>2 DEF IngestHandler
  <2>. QED
    BY <2>1, <2>2, <2>3, <2>4
<1>6. \A d \in Deliveries : IngestFine(v3[d].kind, v5[d], v6[d], v4[d], v7[d], d, v8)
  BY IngestIsFine
<1>7. \A d \in Deliveries : Len(v6[d]) \in Nat /\ v7[d] \in Nat /\ v4[d].arrived \in Nat
  BY LenProperties DEF IngestHandler
<1>8. ASSUME NEW d \in Deliveries, NEW o \in {"rejected_ip", "rejected_signature"},
             Ingest!Reject(d, o)
      PROVE  Ingest!IInv'
  <2>1. Ingest!TryAudit(d, o, EnvSession) /\ UNCHANGED <<v1, v2, v3, v5, v7>>
        /\ v4' = [v4 EXCEPT ![d].arrived = v4[d].arrived + 1] /\ Ingest!Arrives(d)
    BY <1>8 DEF Ingest!Reject
  <2>2. PICK h : h = [v4[d] EXCEPT !.arrived = v4[d].arrived + 1]
    OBVIOUS
  <2>3. h \in IngestHandler /\ h.pc = "idle" /\ h.arrived = v4[d].arrived + 1
    BY <1>5, <2>1, <2>2
  <2>4. v4' \in [Deliveries -> IngestHandler] /\ v4'[d] = h
        /\ \A e \in Deliveries \ {d} : v4'[e] = v4[e]
    BY <2>1, <2>2, <2>3
  <2>5. \A s \in Items : [outcome |-> o, session |-> EnvSession] # ProcessedRow(s)
    BY DEF ProcessedRow
  <2>6. v4[d].pc = "idle" /\ o \in Ingest!Outcomes
    BY <1>5, <2>1 DEF Ingest!Outcomes
  <2>7. /\ v6' \in [Deliveries -> Seq(IngestRow)] /\ v8' \in {v8, v8 \cup {d}}
        /\ \A e \in Deliveries \ {d} : v6'[e] = v6[e]
        /\ \/ v6'[d] = v6[d] /\ d \in v8'
           \/ /\ v8' = v8 /\ Len(v6'[d]) = Len(v6[d]) + 1
              /\ \A s \in Items : Tally(v6'[d], ProcessedRow(s)) = Tally(v6[d], ProcessedRow(s))
    BY <2>1, <2>5, <2>6, IngestAudits
  <2>8. v7'[d] = v7[d] /\ v5'[d] = v5[d] /\ v7' \in [Deliveries -> Nat]
    BY <1>7, <2>1
  <2>9. IngestFine(v3[d].kind, v5'[d], v6'[d], v4'[d], v7'[d], d, v8')
    BY <1>6, <1>7, <2>3, <2>4, <2>6, <2>7, <2>8, IngestTurnedAway
  <2>. QED
    BY <2>1, <2>4, <2>7, <2>8, <2>9, IngestSteps
<1>9. ASSUME NEW d \in Deliveries, Ingest!Ignore(d) PROVE Ingest!IInv'
  <2>1. PICK s \in Items : Ingest!TryAudit(d, "ignored_event", s)
    BY <1>9, IngestRoutes DEF Ingest!Ignore
  <2>2. /\ Ingest!Arrives(d) /\ v3[d].kind = "other" /\ UNCHANGED <<v1, v2, v3, v5>>
        /\ v4' = [v4 EXCEPT ![d].arrived = v4[d].arrived + 1]
        /\ v7' = [v7 EXCEPT ![d] = v7[d] + 1]
    BY <1>9 DEF Ingest!Ignore
  <2>3. PICK h : h = [v4[d] EXCEPT !.arrived = v4[d].arrived + 1]
    OBVIOUS
  <2>4. h \in IngestHandler /\ h.pc = "idle" /\ h.arrived = v4[d].arrived + 1 /\ v4[d].pc = "idle"
    BY <1>5, <2>2, <2>3
  <2>5. v4' \in [Deliveries -> IngestHandler] /\ v4'[d] = h
        /\ \A e \in Deliveries \ {d} : v4'[e] = v4[e]
    BY <2>2, <2>3, <2>4
  <2>6. "ignored_event" \in Ingest!Outcomes
    BY DEF Ingest!Outcomes
  <2>7. /\ v6' \in [Deliveries -> Seq(IngestRow)] /\ v8' \in {v8, v8 \cup {d}}
        /\ \A e \in Deliveries \ {d} : v6'[e] = v6[e]
        /\ \/ v6'[d] = v6[d] /\ d \in v8'
           \/ v8' = v8 /\ Len(v6'[d]) = Len(v6[d]) + 1
    BY <2>1, <2>6, IngestAudits
  <2>8. /\ v7'[d] = v7[d] + 1 /\ v5'[d] = v5[d] /\ v7' \in [Deliveries -> Nat]
        /\ \A e \in Deliveries \ {d} : v7'[e] = v7[e]
    BY <1>7, <2>2
  <2>9. IngestFine(v3[d].kind, v5'[d], v6'[d], v4'[d], v7'[d], d, v8')
    <3>1. \/ v6'[d] = v6[d] /\ d \in v8'
          \/ /\ v8' = v8 /\ Len(v6'[d]) = Len(v6[d]) + 1
             /\ v3[d].kind = "event" =>
                   \A t \in Items : Tally(v6'[d], ProcessedRow(t)) = Tally(v6[d], ProcessedRow(t))
      BY <2>2, <2>7
    <3>2. PICK a, b \in Seq(IngestRow) : a = v6[d] /\ b = v6'[d]
      BY <2>7
    <3>3. IngestFine(v3[d].kind, v5[d], a, v4[d], v7[d], d, v8)
      BY <1>6, <3>2
    <3>4. IngestFine(v3[d].kind, v5[d], b, h, v7[d] + 1, d, v8')
      BY <1>7, <2>4, <3>1, <3>2, <3>3, IngestTurnedAway
    <3>. QED
      BY <2>5, <2>8, <3>2, <3>4
  <2>. QED
    BY <2>2, <2>5, <2>7, <2>8, <2>9, IngestSteps
<1>10. ASSUME NEW d \in Deliveries, Ingest!Accept(d) PROVE Ingest!IInv'
  <2>1. PICK s \in Items : s = Ingest!ResolveIngestSession(d)
    BY IngestRoutes
  <2>2. PICK h : h = [pc |-> "working", session |-> s, arrived |-> v4[d].arrived + 1]
    OBVIOUS
  <2>3. /\ Ingest!Arrives(d) /\ v4' = [v4 EXCEPT ![d] = h]
        /\ v5' = IF v3[d].kind = "event" THEN [v5 EXCEPT ![d] = Append(v5[d], s)] ELSE v5
        /\ UNCHANGED <<v1, v2, v3, v6, v7, v8>>
    BY <1>10, <2>1, <2>2 DEF Ingest!Accept
  <2>4. h \in IngestHandler /\ v4[d].pc = "idle"
    BY <1>5, <2>2, <2>3 DEF IngestHandler
  <2>5. v4' \in [Deliveries -> IngestHandler] /\ v4'[d] = h
        /\ \A e \in Deliveries \ {d} : v4'[e] = v4[e]
    BY <2>3, <2>4
  <2>6. Append(v5[d], s) \in Seq(Items)
    BY AppendProperties
  <2>7. /\ v5' \in [Deliveries -> Seq(Items)] /\ \A e \in Deliveries \ {d} : v5'[e] = v5[e]
        /\ v5'[d] = IF v3[d].kind = "event" THEN Append(v5[d], s) ELSE v5[d]
    BY <2>3, <2>6
  <2>8. IngestFine(v3[d].kind, v5'[d], v6[d], h, v7[d], d, v8)
    BY <1>6, <1>7, <2>2, <2>4, <2>7, IngestAccepted
  <2>9. v7 \in [Deliveries -> Nat]
    BY <1>7
  <2>. QED
    BY <2>3, <2>5, <2>7, <2>8, <2>9, IngestSteps
<1>11. ASSUME NEW d \in Deliveries, v4[d].pc = "working"
       PROVE  /\ Ingest!Finished(d) \in IngestHandler /\ Ingest!Finished(d).pc = "idle"
              /\ Ingest!Finished(d).arrived = v4[d].arrived
  <2>1. Ingest!Finished(d) = [pc |-> "idle", session |-> EnvSession, arrived |-> v4[d].arrived]
    <3>1. PICK n : n = v4[d].arrived
      OBVIOUS
    <3>2. Ingest!Finished(d) = [Ingest!Idle EXCEPT !.arrived = n]
      BY <3>1 DEF Ingest!Finished
    <3>. QED
      BY <3>1, <3>2 DEF Ingest!Idle
  <2>. QED
    BY <2>1 DEF IngestHandler
<1>12. ASSUME NEW d \in Deliveries, Ingest!Answer(d) PROVE Ingest!IInv'
  <2>1. /\ v4[d].pc = "working" /\ Ingest!TryAudit(d, "processed", v4[d].session)
        /\ v7' = [v7 EXCEPT ![d] = v7[d] + 1] /\ v4' = [v4 EXCEPT ![d] = Ingest!Finished(d)]
        /\ UNCHANGED <<v1, v2, v3, v5>>
    BY <1>12 DEF Ingest!Answer
  <2>2. PICK h : h = Ingest!Finished(d)
    OBVIOUS
  <2>3. h \in IngestHandler /\ h.pc = "idle" /\ h.arrived = v4[d].arrived
    BY <1>11, <2>1, <2>2
  <2>4. v4' \in [Deliveries -> IngestHandler] /\ v4'[d] = h
        /\ \A e \in Deliveries \ {d} : v4'[e] = v4[e]
    BY <2>1, <2>2, <2>3
  <2>5. "processed" \in Ingest!Outcomes /\ v4[d].session \in Items
    BY DEF Ingest!Outcomes, IngestHandler
  <2>6. /\ v6' \in [Deliveries -> Seq(IngestRow)] /\ v8' \in {v8, v8 \cup {d}}
        /\ \A e \in Deliveries \ {d} : v6'[e] = v6[e]
        /\ \/ v6'[d] = v6[d] /\ d \in v8'
           \/ /\ v8' = v8 /\ Len(v6'[d]) = Len(v6[d]) + 1
              /\ \A y : y # ProcessedRow(v4[d].session) => Tally(v6'[d], y) = Tally(v6[d], y)
              /\ Tally(v6'[d], ProcessedRow(v4[d].session))
                   = Tally(v6[d], ProcessedRow(v4[d].session)) + 1
    BY <2>1, <2>5, IngestAudits DEF ProcessedRow
  <2>7. /\ v7'[d] = v7[d] + 1 /\ v5'[d] = v5[d] /\ v7' \in [Deliveries -> Nat]
        /\ \A e \in Deliveries \ {d} : v7'[e] = v7[e]
    BY <1>7, <2>1
  <2>8. IngestFine(v3[d].kind, v5'[d], v6'[d], v4'[d], v7'[d], d, v8')
    <3>1. PICK a, b \in Seq(IngestRow) : a = v6[d] /\ b = v6'[d]
      BY <2>6
    <3>2. \/ b = a /\ d \in v8'
          \/ /\ v8' = v8 /\ Len(b) = Len(a) + 1
             /\ \A y : y # ProcessedRow(v4[d].session) => Tally(b, y) = Tally(a, y)
             /\ Tally(b, ProcessedRow(v4[d].session)) = Tally(a, ProcessedRow(v4[d].session)) + 1
      BY <2>6, <3>1
    <3>3. IngestFine(v3[d].kind, v5[d], a, v4[d], v7[d], d, v8)
      BY <1>6, <3>1
    <3>4. IngestFine(v3[d].kind, v5[d], b, h, v7[d] + 1, d, v8')
      BY <1>7, <2>1, <2>3, <3>2, <3>3, IngestAnswered
    <3>. QED
      BY <2>4, <2>7, <3>1, <3>4
  <2>. QED
    BY <2>1, <2>4, <2>6, <2>7, <2>8, IngestSteps
<1>13. ASSUME NEW d \in Deliveries, Ingest!HandlerFails(d) PROVE Ingest!IInv'
  <2>1. /\ v4[d].pc = "working" /\ v4' = [v4 EXCEPT ![d] = Ingest!Finished(d)]
        /\ v8' = v8 \cup {d} /\ UNCHANGED <<v1, v2, v3, v5, v6, v7>>
    BY <1>13 DEF Ingest!HandlerFails
  <2>2. PICK h : h = Ingest!Finished(d)
    OBVIOUS
  <2>3. h \in IngestHandler /\ h.pc = "idle" /\ h.arrived = v4[d].arrived
    BY <1>11, <2>1, <2>2
  <2>4. v4' \in [Deliveries -> IngestHandler] /\ v4'[d] = h
        /\ \A e \in Deliveries \ {d} : v4'[e] = v4[e]
    BY <2>1, <2>2, <2>3
  <2>5. d \in v8' /\ v7 \in [Deliveries -> Nat]
    BY <1>7, <2>1
  <2>6. IngestFine(v3[d].kind, v5[d], v6[d], h, v7[d], d, v8')
    BY <1>6, <1>7, <2>1, <2>3, <2>5, IngestAnswered
  <2>. QED
    BY <2>1, <2>4, <2>5, <2>6, IngestSteps
<1>14. CASE UNCHANGED Ingest!vars
  BY <1>1, <1>14 DEF Ingest!vars
<1>. QED
  BY <1>2, <1>3, <1>4, <1>8, <1>9, <1>10, <1>12, <1>13, <1>14 DEF Ingest!Next

(* What the audit table says of an answered delivery and of a logged event. *)
LEMMA AuditFollowsLog == ASSUME Ingest!IInv PROVE Ingest!AuditMatchesLog
<1>. Ingest!TypeOK /\ Ingest!RowsWillMatch /\ Ingest!AnswersAreCounted
  BY DEF Ingest!IInv
<1>1. \A d \in Deliveries : Len(v6[d]) \in Nat /\ v4[d].arrived \in Nat /\ v7[d] \in Nat
                           /\ v4[d] \in IngestHandler
  BY IngestTypes, LenProperties, WorkspaceAssumption DEF IngestHandler
<1>2. ASSUME NEW d \in Deliveries
      PROVE  Len(v6[d]) <= v4[d].arrived /\ (v7[d] <= Len(v6[d]) \/ d \in v8)
  <2>1. PICK busy \in {0, 1} : busy = IF v4[d].pc = "working" THEN 1 ELSE 0
    OBVIOUS
  <2>2. Len(v6[d]) + busy <= v4[d].arrived /\ (v7[d] <= Len(v6[d]) \/ d \in v8)
    BY <2>1 DEF Ingest!AnswersAreCounted
  <2>. QED
    BY <1>1, <2>2
<1>3. ASSUME NEW d \in Deliveries, v3[d].kind = "event", NEW s \in Items
      PROVE  /\ Ingest!Processed(d, s) <= Ingest!Logged(d, s)
             /\ v4[d].pc = "idle" /\ d \notin v8 => Ingest!Processed(d, s) = Ingest!Logged(d, s)
  <2>1. Ingest!Processed(d, s) \in Nat /\ Ingest!Logged(d, s) \in Nat
    <3>1. v6[d] \in Seq(IngestRow) /\ v5[d] \in Seq(Items)
      BY IngestTypes
    <3>2. Tally(v6[d], ProcessedRow(s)) \in Nat /\ Tally(v5[d], s) \in Nat
      BY <3>1, TallyType
    <3>. QED
      BY <3>2 DEF Ingest!Processed, Ingest!Logged, Tally, ProcessedRow, Ingest!Cardinality, Cardinality
  <2>2. /\ Ingest!Processed(d, s) + Ingest!Working(d, s) <= Ingest!Logged(d, s)
        /\ d \notin v8 => Ingest!Processed(d, s) + Ingest!Working(d, s) = Ingest!Logged(d, s)
    BY <1>3 DEF Ingest!RowsWillMatch
  <2>3. Ingest!Working(d, s) \in {0, 1} /\ (v4[d].pc = "idle" => Ingest!Working(d, s) = 0)
    BY DEF Ingest!Working
  <2>. QED
    BY <2>1, <2>2, <2>3
<1>. QED
  BY <1>2, <1>3 DEF Ingest!AuditMatchesLog


----------------------------------------------------------------------------
(* What holds of every behaviour *)

(* Whatever patches and pushes overlap: a screen that has the version of   *)
(* the row shows what the row holds.                                       *)
THEOREM VersionsName == Spec => []VersionNamesContent
<1>. DEFINE IInv == part = "state" => State!IInv
<1>1. Init => IInv
  BY PartInit, InitState
<1>2. IInv /\ [Next]_vars => IInv'
  BY PartNext, NextState
<1>3. IInv => VersionNamesContent
  BY DEF State!IInv, VersionNamesContent
<1>. QED
  BY <1>1, <1>2, <1>3, PTL DEF Spec

(* The delta of the push announced last is in the row, if nothing          *)
(* disturbed it and no push is under way.                                  *)
THEOREM DeltaSettles == Spec => []SettledStateShowsLastDelta
<1>. DEFINE IInv == part = "state" => State!IInv
<1>1. Init => IInv
  BY PartInit, InitState
<1>2. IInv /\ [Next]_vars => IInv'
  BY PartNext, NextState
<1>3. IInv => SettledStateShowsLastDelta
  BY DEF State!IInv, State!LastDeltaIsComing, State!SettledStateShowsLastDelta,
     SettledStateShowsLastDelta
<1>. QED
  BY <1>1, <1>2, <1>3, PTL DEF Spec

(* The gate opens, and the definition of done is reached, only after a     *)
(* spec was approved while the last validation had passed.                 *)
THEOREM GatesAreEarned == Spec => []GateWasEarned
<1>. DEFINE IInv == part = "contract" => Contract!Earned /\ Contract!ConcernsAreRaised
<1>1. Init => IInv
  BY PartInit, InitContract
<1>2. IInv /\ [Next]_vars => IInv'
  BY PartNext, NextContract
<1>3. IInv => GateWasEarned
  BY DEF Contract!Earned, GateWasEarned
<1>. QED
  BY <1>1, <1>2, <1>3, PTL DEF Spec

(* A ping leaves no concern of the session without a notification younger  *)
(* than the cooldown.                                                      *)
THEOREM ConcernsAreHeard == Spec => []ConcernsAreRaised
<1>. DEFINE IInv == part = "contract" => Contract!Earned /\ Contract!ConcernsAreRaised
<1>1. Init => IInv
  BY PartInit, InitContract
<1>2. IInv /\ [Next]_vars => IInv'
  BY PartNext, NextContract
<1>3. IInv => ConcernsAreRaised
  BY DEF ConcernsAreRaised
<1>. QED
  BY <1>1, <1>2, <1>3, PTL DEF Spec

(* However evaluations of an artifact overlap, fail or are cut off: the    *)
(* feedback its row holds is that of the notice its owner got last, unless *)
(* the request that stored it is about to announce it or ended before it   *)
(* could.                                                                  *)
THEOREM FeedbackIsAnnounced == Spec => []FeedbackIsTheOneAnnounced
<1>. DEFINE IInv == part = "artifact" => Artifact!IInv
<1>1. Init => IInv
  BY PartInit, InitArtifact
<1>2. IInv /\ [Next]_vars => IInv'
  BY PartNext, NextArtifact
<1>3. IInv => FeedbackIsTheOneAnnounced
  BY DEF FeedbackIsTheOneAnnounced, Artifact!IInv
<1>. QED
  BY <1>1, <1>2, <1>3, PTL DEF Spec

(* No request is served with a token that was spent before it came,        *)
(* unless Redis was silent when the list was asked.                        *)
THEOREM SpentTokensAreDead == Spec => []SpentTokensServeNobody
<1>. DEFINE IInv == part = "account" => Account!IInv
<1>1. Init => IInv
  BY PartInit, InitAccount
<1>2. IInv /\ [Next]_vars => IInv'
  BY PartNext, NextAccount
<1>3. IInv => SpentTokensServeNobody
  BY DEF Account!IInv, SpentTokensServeNobody
<1>. QED
  BY <1>1, <1>2, <1>3, PTL DEF Spec

(* Between its requests the browser holds a cookie that was not spent,     *)
(* unless a refresh or a logout was cut off or overlapped another.         *)
THEOREM CookiesRefresh == Spec => []CookieCanBeRefreshed
<1>. DEFINE IInv == part = "account" => Account!IInv
<1>1. Init => IInv
  BY PartInit, InitAccount
<1>2. IInv /\ [Next]_vars => IInv'
  BY PartNext, NextAccount
<1>3. IInv => CookieCanBeRefreshed
  BY AccountCookie DEF CookieCanBeRefreshed
<1>. QED
  BY <1>1, <1>2, <1>3, PTL DEF Spec

(* An event that is settled and neither heard nor sent to nobody failed as *)
(* often as its process tries.                                             *)
THEOREM LossesAreOutages == Spec => []LostOnlyAfterOutage
<1>. DEFINE IInv == part = "pipeline" => Pipeline!IInv
<1>1. Init => IInv
  BY PartInit, InitPipeline
<1>2. IInv /\ [Next]_vars => IInv'
  BY PartNext, NextPipeline
<1>3. IInv => LostOnlyAfterOutage
  BY OutageExplainsLoss DEF LostOnlyAfterOutage
<1>. QED
  BY <1>1, <1>2, <1>3, PTL DEF Spec

(* The number the log gives an event is greater than the versions its      *)
(* process logged before, though it is read before the row is inserted.    *)
THEOREM VersionsIncrease == Spec => []NumberedVersionsIncrease
<1>. DEFINE IInv == part = "pipeline" => Pipeline!IInv
<1>1. Init => IInv
  BY PartInit, InitPipeline
<1>2. IInv /\ [Next]_vars => IInv'
  BY PartNext, NextPipeline
<1>3. IInv => NumberedVersionsIncrease
  BY DEF Pipeline!IInv, NumberedVersionsIncrease
<1>. QED
  BY <1>1, <1>2, <1>3, PTL DEF Spec

(* The processed rows of a delivery name the sessions its events were      *)
(* logged in, whatever became of its route, unless it was cut off.         *)
THEOREM AuditTellsTheLog == Spec => []AuditMatchesLog
<1>. DEFINE IInv == part = "ingest" => Ingest!IInv
<1>1. Init => IInv
  BY PartInit, InitIngest
<1>2. IInv /\ [Next]_vars => IInv'
  BY PartNext, NextIngest
<1>3. IInv => AuditMatchesLog
  BY AuditFollowsLog DEF AuditMatchesLog
<1>. QED
  BY <1>1, <1>2, <1>3, PTL DEF Spec
==============================================================================
