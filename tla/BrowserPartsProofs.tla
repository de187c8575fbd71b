------------------------- MODULE BrowserPartsProofs -------------------------
(***************************************************************************)
(* The components of the browser, and of the browser with the API, that    *)
(* share no step with one another: for each that its type and its safety   *)
(* invariants hold of every behaviour of its own, with any number of tabs, *)
(* loops, images, notifications and so on.                                 *)
(***************************************************************************)
EXTENDS ApiPartsProofs, FunctionTheorems

----------------------------------------------------------------------------
(* ChatImages *)

LEMMA InitImage == Image!Init => Image!IInv
BY DEF Image!Init, Image!IInv, Image!TypeOK, Image!RowsComeFirst, Image!References

LEMMA NextImage ==
    ASSUME Image!IInv, [Image!Next]_(Image!vars)
    PROVE  Image!IInv'
<1>. USE DEF Image!IInv, Image!TypeOK, Image!RowsComeFirst, Image!References
<1>1. ASSUME NEW i \in Items, NEW accepted \in BOOLEAN, Image!Attaches(i, accepted)
      PROVE  Image!IInv'
  BY <1>1 DEF Image!Attaches
<1>2. ASSUME NEW i \in Items, Image!FileWritten(i) PROVE Image!IInv'
  BY <1>2 DEF Image!FileWritten
<1>3. ASSUME NEW i \in Items, Image!RowInserted(i) PROVE Image!IInv'
  BY <1>3 DEF Image!RowInserted
<1>4. ASSUME NEW i \in Items, Image!UploadAnswered(i) PROVE Image!IInv'
  BY <1>4 DEF Image!UploadAnswered
<1>5. ASSUME NEW i \in Items, Image!UploadFails(i) PROVE Image!IInv'
  BY <1>5 DEF Image!UploadFails
<1>6. ASSUME NEW i \in Items, Image!LinkExpires(i) PROVE Image!IInv'
  BY <1>6 DEF Image!LinkExpires
<1>7. ASSUME NEW i \in Items, Image!FileLost(i) PROVE Image!IInv'
  BY <1>7 DEF Image!FileLost
<1>8. CASE Image!TokenChanges \/ Image!Asks \/ Image!Resolved \/ Image!Answered
  BY <1>8 DEF Image!TokenChanges, Image!Asks, Image!Resolved, Image!Answered
<1>9. CASE UNCHANGED Image!vars
  BY <1>9 DEF Image!vars
<1>. QED
  BY <1>1, <1>2, <1>3, <1>4, <1>5, <1>6, <1>7, <1>8, <1>9 DEF Image!Next

LEMMA ImagesAreStored == ASSUME Image!IInv PROVE Image!ReferencesAreStored
BY DEF Image!IInv, Image!RowsComeFirst, Image!ReferencesAreStored, Image!Viewed, Image!Fetched

----------------------------------------------------------------------------
(* LearnerGates *)

LEMMA InitLearner == Learner!Init => Learner!IInv
<1>. SUFFICES ASSUME Learner!Init PROVE Learner!IInv
  OBVIOUS
<1>1. Learner!TypeOK
  <2>1. 0 \in 0..MaxConversions
    BY WorkspaceAssumption
  <2>. QED
    BY <2>1 DEF Learner!Init, Learner!TypeOK, Learner!GateType, Learner!NoGate, Learner!NoSpec,
       Learner!NotAsked, Learner!NoResult, Learner!Drafts, Learner!Results
<1>. QED
  BY <1>1 DEF Learner!Init, Learner!IInv, Learner!RequestIsCoherent, Learner!Request,
     Learner!ScreenOpensWithServer, Learner!NoGate, Learner!NotAsked

(* What the screen makes of an answer, and what it keeps. *)
LEMMA LearnerShows ==
    ASSUME Learner!TypeOK, NEW g \in Learner!GateType, Learner!Shows(g)
    PROVE  /\ v2'.gate \in Learner!GateType /\ v3'.contract \in Learner!GateType
           /\ v2'.gate.result = g.result /\ v2'.gate.approved = g.approved
           /\ v3'.contract = g /\ v3'.spec = v3.spec
           /\ v2'.request = Learner!NotAsked
           /\ v2' = [gate |-> v2'.gate, request |-> v2'.request]
           /\ v3' \in [spec: [version: 0..MaxConversions, approved: BOOLEAN],
                       contract: Learner!GateType]
<1>1. v2.gate.draft \in Learner!Drafts
  BY DEF Learner!TypeOK, Learner!GateType
<1>2. PICK d \in Learner!Drafts : d = v2.gate.draft
  BY <1>1
<1>3. v2' = [gate |-> [g EXCEPT !.draft = d], request |-> Learner!NotAsked]
  BY <1>2 DEF Learner!Shows, Learner!Gate
<1>4. [g EXCEPT !.draft = d] \in Learner!GateType
      /\ [g EXCEPT !.draft = d].result = g.result
      /\ [g EXCEPT !.draft = d].approved = g.approved
  BY DEF Learner!GateType
<1>5. v3' = [v3 EXCEPT !.contract = g]
  BY DEF Learner!Shows
<1>6. v3' \in [spec: [version: 0..MaxConversions, approved: BOOLEAN],
               contract: Learner!GateType] /\ v3'.contract = g /\ v3'.spec = v3.spec
  BY <1>5 DEF Learner!TypeOK
<1>. QED
  BY <1>3, <1>4, <1>6

LEMMA NextLearner ==
    ASSUME Learner!IInv, [Learner!Next]_(Learner!vars)
    PROVE  Learner!IInv'
<1>. Learner!TypeOK /\ Learner!RequestIsCoherent /\ Learner!ScreenOpensWithServer
  BY DEF Learner!IInv
<1>. USE DEF Learner!IInv, Learner!ScreenOpensWithServer, Learner!RequestIsCoherent,
         Learner!Request, Learner!Gate
<1>. Learner!NotAsked \in [op: {"none", "validate", "approve"}, draft: Learner!Drafts,
                           result: Learner!Results,
                           answer: Learner!Results \cup {"approved", "refused"}]
     /\ Learner!NotAsked.op = "none" /\ Learner!NotAsked.answer = "none"
  BY DEF Learner!NotAsked, Learner!NoResult, Learner!Drafts, Learner!Results
<1>1. CASE Learner!Converts
  BY <1>1 DEF Learner!Converts, Learner!TypeOK
<1>2. CASE Learner!ConversionArrives
  <2>1. v4' = v4 + 1 /\ v4 + 1 \in 0..MaxConversions
    BY <1>2, WorkspaceAssumption DEF Learner!ConversionArrives, Learner!TypeOK
  <2>2. v3' = [v3 EXCEPT !.spec = [version |-> v4', approved |-> FALSE]]
        /\ v1' = [v1 EXCEPT !.converting = FALSE, !.version = v4', !.approved = FALSE]
        /\ UNCHANGED <<v2, v5, v6>>
    BY <1>2 DEF Learner!ConversionArrives
  <2>3. Learner!TypeOK' /\ v3'.contract = v3.contract
    BY <2>1, <2>2 DEF Learner!TypeOK
  <2>. QED
    BY <2>2, <2>3
<1>3. CASE Learner!Approves
  BY <1>3 DEF Learner!Approves, Learner!TypeOK
<1>4. CASE Learner!Loads
  <2>1. v1' \in [version: 0..MaxConversions, approved: BOOLEAN, converting: BOOLEAN,
                 approving: 0..MaxConversions]
    BY <1>4, WorkspaceAssumption DEF Learner!Loads, Learner!TypeOK
  <2>2. v2' = [gate |-> v3.contract, request |-> Learner!NotAsked]
        /\ UNCHANGED <<v3, v4, v5, v6>>
    BY <1>4 DEF Learner!Loads
  <2>3. v2'.gate = v3'.contract /\ v2'.request = Learner!NotAsked
    BY <2>2
  <2>4. Learner!TypeOK'
    BY <2>1, <2>2, <2>3 DEF Learner!TypeOK
  <2>. QED
    BY <2>2, <2>3, <2>4
<1>5. ASSUME NEW served \in BOOLEAN, Learner!ApprovalArrives(served) PROVE Learner!IInv'
  <2>1. PICK b \in BOOLEAN : v5' = [v5 EXCEPT !.spec = b]
    BY <1>5 DEF Learner!ApprovalArrives, Learner!TypeOK
  <2>2. PICK n \in 0..MaxConversions : n = v1.approving
    BY DEF Learner!TypeOK
  <2>3. v3' = [v3 EXCEPT !.spec = [version |-> n, approved |-> TRUE]]
        /\ v1' = [v1 EXCEPT !.approving = 0, !.approved = TRUE]
        /\ UNCHANGED <<v2, v4, v6>>
    BY <1>5, <2>2 DEF Learner!ApprovalArrives
  <2>4. Learner!TypeOK' /\ v3'.contract = v3.contract /\ v5'.approved = v5.approved
    <3>1. v5' \in [spec: BOOLEAN, validation: Learner!Results, approved: BOOLEAN]
          /\ v5'.approved = v5.approved
      BY <2>1 DEF Learner!TypeOK
    <3>2. [version |-> n, approved |-> TRUE] \in [version: 0..MaxConversions, approved: BOOLEAN]
      BY <2>2
    <3>3. v3' \in [spec: [version: 0..MaxConversions, approved: BOOLEAN],
                   contract: Learner!GateType] /\ v3'.contract = v3.contract
      BY <2>3, <3>2 DEF Learner!TypeOK
    <3>4. v1' \in [version: 0..MaxConversions, approved: BOOLEAN, converting: BOOLEAN,
                   approving: 0..MaxConversions]
      <4>1. 0 \in 0..MaxConversions
        BY WorkspaceAssumption
      <4>2. v1' = [v1 EXCEPT !.approving = 0, !.approved = TRUE]
            /\ v1 \in [version: 0..MaxConversions, approved: BOOLEAN, converting: BOOLEAN,
                       approving: 0..MaxConversions]
        BY <2>3 DEF Learner!TypeOK
      <4>. QED
        BY <4>1, <4>2
    <3>. QED
      BY <2>3, <3>1, <3>3, <3>4 DEF Learner!TypeOK
  <2>. QED
    BY <2>3, <2>4
<1>6. ASSUME NEW d \in Learner!Drafts, Learner!Edits(d) PROVE Learner!IInv'
  <2>1. v2' = [v2 EXCEPT !.gate.draft = d] /\ UNCHANGED <<v1, v3, v4, v5, v6>>
    BY <1>6 DEF Learner!Edits
  <2>2. Learner!TypeOK' /\ v2'.request = v2.request /\ v2'.gate.result = v2.gate.result
        /\ v2'.gate.approved = v2.gate.approved
    BY <2>1 DEF Learner!TypeOK, Learner!GateType
  <2>. QED
    BY <2>1, <2>2
<1>7. ASSUME NEW op \in {"validate", "approve"}, Learner!Asks(op) PROVE Learner!IInv'
  <2>1. PICK d \in Learner!Drafts, r \in Learner!Results : d = v2.gate.draft /\ r = v2.gate.result
    BY DEF Learner!TypeOK, Learner!GateType
  <2>2. v2' = [v2 EXCEPT !.request = [op |-> op, draft |-> d, result |-> r, answer |-> "none"]]
        /\ (op = "approve" => r = "passed")
        /\ UNCHANGED <<v1, v3, v4, v5, v6>>
    BY <1>7, <2>1 DEF Learner!Asks
  <2>3. Learner!TypeOK' /\ v2'.gate = v2.gate /\ v2'.request.op = op
        /\ v2'.request.answer = "none" /\ v2'.request.result = r
    BY <2>2 DEF Learner!TypeOK, Learner!Results, Learner!NoResult
  <2>. QED
    BY <2>2, <2>3
<1>8. ASSUME NEW a \in Learner!Results \cup {"approved", "refused"},
             v2' = [v2 EXCEPT !.request.answer = a], v2.request.op # "none",
             v2.request.op = "validate" => a # "approved",
             v2.request.op = "approve" => a \in {"approved", "refused"},
             a = "approved" => v5'.approved,
             v5' \in [spec: BOOLEAN, validation: Learner!Results, approved: BOOLEAN],
             v5.approved => v5'.approved,
             UNCHANGED <<v1, v3, v4, v6>>
      PROVE  Learner!IInv'
  <2>1. Learner!TypeOK' /\ v2'.gate = v2.gate /\ v2'.request.op = v2.request.op
        /\ v2'.request.answer = a /\ v2'.request.result = v2.request.result
    BY <1>8 DEF Learner!TypeOK
  <2>. QED
    BY <1>8, <2>1
<1>9. CASE Learner!Serves
  <2>1. Learner!Outcome(v2.request.draft) \in {"passed", "failed"}
    BY DEF Learner!Outcome
  <2>2. PICK o \in {"passed", "failed"} : o = Learner!Outcome(v2.request.draft)
    BY <2>1
  <2>3. CASE v2.request.op = "validate"
    <3>1. v5' = [v5 EXCEPT !.validation = o] /\ v2' = [v2 EXCEPT !.request.answer = o]
          /\ UNCHANGED <<v1, v3, v4, v6>>
      BY <1>9, <2>2, <2>3 DEF Learner!Serves
    <3>2. v5' \in [spec: BOOLEAN, validation: Learner!Results, approved: BOOLEAN]
          /\ v5'.approved = v5.approved /\ o \in Learner!Results
      BY <3>1 DEF Learner!TypeOK, Learner!Results
    <3>. QED
      BY <1>8, <2>3, <3>1, <3>2
  <2>4. CASE v2.request.op # "validate" /\ v5.spec /\ v5.validation = "passed"
    <3>1. v5' = [v5 EXCEPT !.approved = TRUE] /\ v2' = [v2 EXCEPT !.request.answer = "approved"]
          /\ UNCHANGED <<v1, v3, v4, v6>> /\ v2.request.op # "none"
      BY <1>9, <2>4 DEF Learner!Serves
    <3>2. v5' \in [spec: BOOLEAN, validation: Learner!Results, approved: BOOLEAN]
          /\ v5'.approved
      BY <3>1 DEF Learner!TypeOK
    <3>. QED
      BY <1>8, <2>4, <3>1, <3>2
  <2>5. CASE v2.request.op # "validate" /\ ~(v5.spec /\ v5.validation = "passed")
    <3>1. v5' = v5 /\ v2' = [v2 EXCEPT !.request.answer = "refused"]
          /\ UNCHANGED <<v1, v3, v4, v6>> /\ v2.request.op # "none"
      BY <1>9, <2>5 DEF Learner!Serves
    <3>. QED
      BY <1>8, <3>1 DEF Learner!TypeOK
  <2>. QED
    BY <2>3, <2>4, <2>5
<1>10. CASE Learner!Refuses
  <2>1. v5' = v5 /\ v2' = [v2 EXCEPT !.request.answer = "refused"]
        /\ UNCHANGED <<v1, v3, v4, v6>> /\ v2.request.op # "none"
    BY <1>10 DEF Learner!Refuses
  <2>. QED
    BY <1>8, <2>1 DEF Learner!TypeOK
<1>11. ASSUME NEW g \in Learner!GateType, Learner!Shows(g), UNCHANGED <<v1, v4, v5>>,
              v6' \in BOOLEAN, v6 => v6',
              g.approved => g.result = "passed" /\ (v5.approved \/ v6')
       PROVE  Learner!IInv'
  <2>1. /\ v2'.gate \in Learner!GateType
        /\ v2'.gate.result = g.result /\ v2'.gate.approved = g.approved
        /\ v3'.contract = g
        /\ v2'.request = Learner!NotAsked
        /\ v2' = [gate |-> v2'.gate, request |-> v2'.request]
        /\ v3' \in [spec: [version: 0..MaxConversions, approved: BOOLEAN],
                    contract: Learner!GateType]
    BY <1>11, LearnerShows
  <2>2. Learner!TypeOK'
    BY <1>11, <2>1 DEF Learner!TypeOK
  <2>. QED
    BY <1>11, <2>1, <2>2
<1>12. ASSUME NEW a \in Learner!Results
       PROVE  /\ Learner!Concluded(v2.request.op, a) \in Learner!GateType \/ v2.request.op = "approve"
              /\ Learner!Concluded(v2.request.op, a).approved <=> v2.request.op = "approve"
  BY DEF Learner!TypeOK, Learner!Concluded, Learner!GateType
<1>13. ASSUME NEW a, v2.request.op = "approve"
       PROVE  /\ Learner!Concluded(v2.request.op, a) \in Learner!GateType
              /\ Learner!Concluded(v2.request.op, a).result = "passed"
  BY <1>13 DEF Learner!TypeOK, Learner!Concluded, Learner!GateType
<1>14. CASE Learner!AnswerArrives
  <2>1. CASE v2.request.answer = "refused"
    <3>1. v2' = [v2 EXCEPT !.request = Learner!NotAsked] /\ UNCHANGED <<v1, v3, v4, v5, v6>>
      BY <1>14, <2>1 DEF Learner!AnswerArrives
    <3>2. Learner!TypeOK' /\ v2'.gate = v2.gate /\ v2'.request = Learner!NotAsked
      BY <3>1 DEF Learner!TypeOK
    <3>. QED
      BY <3>1, <3>2
  <2>2. CASE v2.request.answer # "refused"
    <3>1. Learner!Shows(Learner!Concluded(v2.request.op, v2.request.answer))
          /\ UNCHANGED <<v1, v4, v5, v6>> /\ v2.request.answer # "none"
      BY <1>14, <2>2 DEF Learner!AnswerArrives
    <3>2. CASE v2.request.op = "approve"
      <4>1. v5.approved
        BY <2>2, <3>1, <3>2
      <4>2. Learner!Concluded(v2.request.op, v2.request.answer) \in Learner!GateType
            /\ Learner!Concluded(v2.request.op, v2.request.answer).result = "passed"
        BY <1>13, <3>2
      <4>. QED
        BY <1>11, <3>1, <4>1, <4>2 DEF Learner!TypeOK
    <3>3. CASE v2.request.op # "approve"
      <4>1. v2.request.answer \in Learner!Results
        BY <2>2, <3>1, <3>3 DEF Learner!TypeOK
      <4>2. Learner!Concluded(v2.request.op, v2.request.answer) \in Learner!GateType
            /\ ~Learner!Concluded(v2.request.op, v2.request.answer).approved
        BY <1>12, <3>3, <4>1
      <4>. QED
        BY <1>11, <3>1, <4>2 DEF Learner!TypeOK
    <3>. QED
      BY <3>2, <3>3
  <2>. QED
    BY <2>1, <2>2
<1>15. CASE Learner!AnswerMadeUp
  <2>1. Learner!Shows(Learner!Concluded(v2.request.op, Learner!Outcome(v2.request.draft)))
        /\ UNCHANGED <<v1, v4, v5>> /\ v6' = TRUE
    BY <1>15 DEF Learner!AnswerMadeUp
  <2>2. Learner!Outcome(v2.request.draft) \in Learner!Results
    BY DEF Learner!Outcome, Learner!Results
  <2>3. PICK g : g = Learner!Concluded(v2.request.op, Learner!Outcome(v2.request.draft))
    OBVIOUS
  <2>4. g \in Learner!GateType /\ (g.approved => g.result = "passed")
    BY <1>12, <1>13, <2>2, <2>3
  <2>. QED
    BY <1>11, <2>1, <2>3, <2>4
<1>16. ASSUME NEW o \in {"passed", "failed"}, Learner!ValidatedElsewhere(o) PROVE Learner!IInv'
  <2>1. v5' = [v5 EXCEPT !.validation = o] /\ UNCHANGED <<v1, v2, v3, v4, v6>>
    BY <1>16 DEF Learner!ValidatedElsewhere
  <2>2. Learner!TypeOK' /\ v5'.approved = v5.approved
    BY <2>1 DEF Learner!TypeOK, Learner!Results
  <2>. QED
    BY <2>1, <2>2
<1>17. CASE UNCHANGED Learner!vars
  BY <1>17 DEF Learner!vars, Learner!TypeOK
<1>. QED
  BY <1>1, <1>2, <1>3, <1>4, <1>5, <1>6, <1>7, <1>9, <1>10, <1>14, <1>15, <1>16, <1>17
     DEF Learner!Next

----------------------------------------------------------------------------
(* PrScreen *)

LEMMA ScreenConstants ==
    /\ Screen!Idle \in Screen!Snapshot /\ Screen!Refusal \in Screen!Snapshot
    /\ Screen!Nothing \in Screen!Snapshot
    /\ Screen!Idle.version = 1 /\ Screen!Idle.phase = "idle"
    /\ Screen!Refusal.version = 0 /\ Screen!Nothing.version = 0
    /\ Screen!Idle # Screen!Nothing /\ Screen!Refusal # Screen!Nothing
    /\ Screen!NoRequest \in [op: Screen!Ops \cup {"none"}, base: Screen!Snapshot,
                             answer: Screen!Snapshot]
    /\ Screen!NoRequest.op = "none" /\ Screen!NoRequest.answer = Screen!Nothing
    /\ Screen!NoFetch \in [going: BOOLEAN, answer: Screen!Snapshot]
    /\ Screen!NoFetch.answer = Screen!Nothing
<1>1. 1 \in 0..MaxVersion /\ 0 \in 0..MaxVersion
  BY WorkspaceAssumption
<1>2. Screen!Idle \in Screen!Snapshot /\ Screen!Refusal \in Screen!Snapshot
      /\ Screen!Nothing \in Screen!Snapshot
  BY <1>1 DEF Screen!Idle, Screen!Refusal, Screen!Nothing, Screen!Snapshot, Screen!Comments
<1>3. Screen!Idle.version = 1 /\ Screen!Refusal.version = 0 /\ Screen!Nothing.version = 0
      /\ Screen!Idle.phase = "idle" /\ Screen!Refusal.phase = "refused"
      /\ Screen!Nothing.phase = "nothing"
  BY DEF Screen!Idle, Screen!Refusal, Screen!Nothing
<1>4. Screen!Idle # Screen!Nothing /\ Screen!Refusal # Screen!Nothing
  BY <1>3
<1>5. Screen!NoRequest.op = "none" /\ Screen!NoRequest.answer = Screen!Nothing
      /\ Screen!NoFetch.answer = Screen!Nothing
  BY DEF Screen!NoRequest, Screen!NoFetch
<1>6. Screen!NoRequest \in [op: Screen!Ops \cup {"none"}, base: Screen!Snapshot,
                            answer: Screen!Snapshot]
  BY <1>2 DEF Screen!NoRequest
<1>7. Screen!NoFetch \in [going: BOOLEAN, answer: Screen!Snapshot]
  BY <1>2 DEF Screen!NoFetch
<1>. QED
  BY <1>2, <1>3, <1>4, <1>5, <1>6, <1>7

LEMMA InitScreen == Screen!Init => Screen!IInv
BY ScreenConstants DEF Screen!Init, Screen!IInv, Screen!TypeOK, Screen!ShownIsStored,
   Screen!ServerIsAhead

(* What is made of a snapshot is a snapshot, one version on. *)
LEMMA MovedOn ==
    ASSUME NEW s \in Screen!Snapshot, NEW op \in Screen!Ops, s.version < MaxVersion,
           NEW p \in Screen!Pending(op, s)
    PROVE  /\ Screen!Moved(op, s, p) \in Screen!Snapshot
           /\ Screen!Moved(op, s, p).version = s.version + 1
           /\ Screen!Moved(op, s, p).version >= 1
<1>1. s.version \in 0..MaxVersion /\ s.round \in 0..2 /\ s.pending \in 0..1
      /\ s.phase \in {"idle", "open", "approved", "refused", "nothing"}
  BY DEF Screen!Snapshot, Screen!Comments
<1>2. s.version + 1 \in 0..MaxVersion /\ s.version + 1 >= 1
  BY <1>1, WorkspaceAssumption
<1>3. p \in 0..1
  BY <1>1 DEF Screen!Pending, Screen!Comments
<1>4. Screen!Moved(op, s, p) =
        [version |-> s.version + 1, round |-> Screen!Moved(op, s, p).round,
         phase |-> Screen!Moved(op, s, p).phase, pending |-> Screen!Moved(op, s, p).pending]
  BY DEF Screen!Moved
<1>5. Screen!Moved(op, s, p).round \in 0..2
  BY <1>1 DEF Screen!Moved
<1>6. Screen!Moved(op, s, p).phase \in {"idle", "open", "approved", "refused", "nothing"}
  BY <1>1 DEF Screen!Moved
<1>7. Screen!Moved(op, s, p).pending \in 0..1
  BY <1>1, <1>3 DEF Screen!Moved, Screen!Comments
<1>8. Screen!Moved(op, s, p).version = s.version + 1
  BY DEF Screen!Moved
<1>9. Screen!Moved(op, s, p) \in Screen!Snapshot
  BY <1>2, <1>4, <1>5, <1>6, <1>7 DEF Screen!Snapshot, Screen!Comments
<1>. QED
  BY <1>2, <1>8, <1>9

LEMMA NextScreen ==
    ASSUME Screen!IInv, [Screen!Next]_(Screen!vars)
    PROVE  Screen!IInv' /\ Screen!ScreenMovesOn
<1>. Screen!TypeOK /\ v1.version >= 1 /\ Screen!ShownIsStored /\ Screen!ServerIsAhead
  BY DEF Screen!IInv
<1>. DEFINE Requested == [op: Screen!Ops \cup {"none"}, base: Screen!Snapshot,
                          answer: Screen!Snapshot]
            Fetch == [going: BOOLEAN, answer: Screen!Snapshot]
<1>. v1 \in Screen!Snapshot /\ v2 \in [Items -> Screen!Snapshot]
     /\ v3 \in [Items -> Screen!Snapshot] /\ v4 \in [Items -> Requested]
     /\ v5 \in [Items -> Fetch] /\ v6 \subseteq Items
  BY DEF Screen!TypeOK
<1>0. \A s \in Screen!Snapshot : s.version \in Nat
  BY WorkspaceAssumption DEF Screen!Snapshot
<1>. HIDE DEF Requested, Fetch
<1>1. ASSUME UNCHANGED <<v2, v3>>, v6 \subseteq v6', v6' \subseteq Items,
             v1' \in Screen!Snapshot, v1'.version >= v1.version,
             v4' \in [Items -> Requested], v5' \in [Items -> Fetch],
             \A t \in Items \ v6' :
                /\ v5'[t].answer.version <= v1'.version
                /\ \/ v4'[t].answer \in {Screen!Nothing, Screen!Refusal}
                   \/ v4'[t].op # "none" /\ v4'[t].answer = v1'
      PROVE  Screen!IInv' /\ Screen!ScreenMovesOn
  <2>1. \A t \in Items \ v6' : v2'[t].version <= v1'.version
    BY <1>0, <1>1 DEF Screen!ServerIsAhead
  <2>2. Screen!TypeOK'
    BY <1>1 DEF Screen!TypeOK, Requested, Fetch
  <2>3. v1'.version >= 1
    BY <1>0, <1>1
  <2>4. Screen!ShownIsStored'
    BY <1>1 DEF Screen!ShownIsStored
  <2>5. Screen!ServerIsAhead'
    BY <1>1, <2>1 DEF Screen!ServerIsAhead
  <2>6. Screen!ScreenMovesOn
    BY <1>0, <1>1 DEF Screen!ScreenMovesOn
  <2>. QED
    BY <2>2, <2>3, <2>4, <2>5, <2>6 DEF Screen!IInv
<1>2. ASSUME NEW t \in Items, NEW s \in Screen!Snapshot,
             v2' = [v2 EXCEPT ![t] = s],
             v3' \in [Items -> Screen!Snapshot],
             v3'[t] = s \/ (v3'[t] = Screen!Nothing /\ s = Screen!Idle),
             UNCHANGED v1, v6 \subseteq v6', v6' \subseteq Items,
             v4' \in [Items -> Requested], v5' \in [Items -> Fetch],
             \A o \in Items \ {t} : v3'[o] = v3[o] /\ v4'[o] = v4[o] /\ v5'[o] = v5[o],
             t \notin v6' =>
                /\ s.version <= v1.version
                /\ v5'[t].answer.version <= v1.version
                /\ \/ v4'[t].answer \in {Screen!Nothing, Screen!Refusal}
                   \/ v4'[t].op # "none" /\ v4'[t].answer = v1
                /\ Screen!Refusal \notin {v2[t], s} => s.version >= v2[t].version
      PROVE  Screen!IInv' /\ Screen!ScreenMovesOn
  <2>1. v2'[t] = s /\ \A o \in Items \ {t} : v2'[o] = v2[o]
    BY <1>2
  <2>2. v2' \in [Items -> Screen!Snapshot]
    BY <1>2
  <2>3. Screen!TypeOK'
    BY <1>2, <2>2 DEF Screen!TypeOK, Requested, Fetch
  <2>4. v1'.version >= 1
    BY <1>2
  <2>5. Screen!ShownIsStored'
    BY <1>2, <2>1 DEF Screen!ShownIsStored
  <2>6. Screen!ServerIsAhead'
    <3>1. SUFFICES ASSUME NEW o \in Items \ v6'
                   PROVE  /\ v2'[o].version <= v1'.version
                          /\ v5'[o].answer.version <= v1'.version
                          /\ \/ v4'[o].answer \in {Screen!Nothing, Screen!Refusal}
                             \/ v4'[o].op # "none" /\ v4'[o].answer = v1'
      BY DEF Screen!ServerIsAhead
    <3>2. CASE o = t
      BY <1>2, <2>1, <3>2
    <3>3. CASE o # t
      <4>1. o \in Items \ v6
        BY <1>2
      <4>2. v2'[o] = v2[o] /\ v4'[o] = v4[o] /\ v5'[o] = v5[o] /\ v1' = v1
        BY <1>2, <2>1, <3>3
      <4>. QED
        BY <4>1, <4>2 DEF Screen!ServerIsAhead
    <3>. QED
      BY <3>2, <3>3
  <2>7. Screen!ScreenMovesOn
    <3>1. \A o \in Items \ {t} : v2'[o].version >= v2[o].version
      BY <1>0, <2>1
    <3>. QED
      BY <1>2, <2>1, <3>1 DEF Screen!ScreenMovesOn
  <2>. QED
    BY <2>3, <2>4, <2>5, <2>6, <2>7 DEF Screen!IInv
<1>3. ASSUME NEW t \in Items, NEW op \in Screen!Ops, Screen!Sends(t, op)
      PROVE  Screen!IInv' /\ Screen!ScreenMovesOn
  <2>1. PICK s \in Screen!Snapshot : s = v2[t]
    OBVIOUS
  <2>2. v4' = [v4 EXCEPT ![t] = [op |-> op, base |-> s, answer |-> Screen!Nothing]]
        /\ UNCHANGED <<v1, v2, v3, v5, v6>>
    BY <1>3, <2>1 DEF Screen!Sends
  <2>3. v4' \in [Items -> Requested]
    BY <2>2, ScreenConstants DEF Requested
  <2>4. v4'[t].answer = Screen!Nothing /\ \A o \in Items \ {t} : v4'[o] = v4[o]
    BY <2>2
  <2>. QED
    BY <1>0, <1>1, <2>2, <2>3, <2>4 DEF Screen!ServerIsAhead
<1>4. ASSUME NEW t \in Items, NEW a \in Screen!Snapshot, Screen!Answers(t, a)
      PROVE  /\ v4' \in [Items -> Requested]
             /\ v4'[t].answer = a /\ v4'[t].op = v4[t].op
             /\ \A o \in Items \ {t} : v4'[o] = v4[o]
  BY <1>4 DEF Screen!Answers, Requested
<1>5. ASSUME NEW t \in Items, Screen!Serves(t)
      PROVE  Screen!IInv' /\ Screen!ScreenMovesOn
  <2>1. v4[t].op \in Screen!Ops
    BY <1>5 DEF Screen!Serves, Screen!Waiting, Requested
  <2>2. PICK op \in Screen!Ops : op = v4[t].op
    BY <2>1
  <2>3. PICK p \in Screen!Pending(op, v1) : v1' = Screen!Moved(op, v1, p)
    BY <1>5, <2>2 DEF Screen!Serves
  <2>4. v1.version < MaxVersion /\ Screen!Answers(t, v1')
        /\ v6' = v6 \cup {o \in Items \ {t} : v4[o].op # "none"} /\ UNCHANGED <<v2, v3, v5>>
    BY <1>5 DEF Screen!Serves
  <2>5. v1' \in Screen!Snapshot /\ v1'.version = v1.version + 1
    BY <2>3, <2>4, MovedOn
  <2>6. /\ v4' \in [Items -> Requested]
        /\ v4'[t].answer = v1' /\ v4'[t].op = v4[t].op
        /\ \A o \in Items \ {t} : v4'[o] = v4[o]
    BY <1>4, <2>4, <2>5
  <2>7. v4[t].op # "none"
    BY <2>1 DEF Screen!Ops
  <2>8. \A o \in Items \ v6' :
           /\ v5'[o].answer.version <= v1'.version
           /\ \/ v4'[o].answer \in {Screen!Nothing, Screen!Refusal}
              \/ v4'[o].op # "none" /\ v4'[o].answer = v1'
    <3>1. SUFFICES ASSUME NEW o \in Items \ v6'
                   PROVE  /\ v5'[o].answer.version <= v1'.version
                          /\ \/ v4'[o].answer \in {Screen!Nothing, Screen!Refusal}
                             \/ v4'[o].op # "none" /\ v4'[o].answer = v1'
      OBVIOUS
    <3>2. o \notin v6 /\ (o = t \/ v4[o].op = "none")
      BY <2>4
    <3>3. v5[o].answer.version <= v1.version
          /\ (v4[o].answer \in {Screen!Nothing, Screen!Refusal} \/ v4[o].op # "none")
      BY <3>2 DEF Screen!ServerIsAhead
    <3>4. v5[o].answer \in Screen!Snapshot
      BY DEF Fetch
    <3>5. v5'[o].answer.version <= v1'.version
      BY <1>0, <2>4, <2>5, <3>3, <3>4
    <3>. QED
      BY <2>6, <2>7, <3>2, <3>3, <3>5
  <2>. QED
    BY <1>0, <1>1, <2>4, <2>5, <2>6, <2>8
<1>6. ASSUME NEW t \in Items, Screen!Refuses(t)
      PROVE  Screen!IInv' /\ Screen!ScreenMovesOn
  <2>1. PICK a \in {v1, Screen!Refusal} : Screen!Answers(t, a)
    BY <1>6 DEF Screen!Refuses
  <2>2. v4[t].op # "none" /\ UNCHANGED <<v1, v2, v3, v5, v6>>
    BY <1>6 DEF Screen!Refuses, Screen!Waiting
  <2>3. a \in Screen!Snapshot
    BY ScreenConstants
  <2>4. /\ v4' \in [Items -> Requested]
        /\ v4'[t].answer = a /\ v4'[t].op = v4[t].op
        /\ \A o \in Items \ {t} : v4'[o] = v4[o]
    BY <1>4, <2>1, <2>3
  <2>. QED
    BY <1>0, <1>1, <2>2, <2>4 DEF Screen!ServerIsAhead
<1>7. ASSUME NEW t \in Items, Screen!Arrives(t)
      PROVE  Screen!IInv' /\ Screen!ScreenMovesOn
  <2>1. PICK s \in Screen!Snapshot : s = v4[t].answer
    BY DEF Requested
  <2>2. s # Screen!Nothing /\ v2' = [v2 EXCEPT ![t] = s] /\ v3' = [v3 EXCEPT ![t] = s]
        /\ v4' = [v4 EXCEPT ![t] = Screen!NoRequest] /\ UNCHANGED <<v1, v5, v6>>
    BY <1>7, <2>1 DEF Screen!Arrives, Screen!Saves
  <2>3. v4' \in [Items -> Requested]
    BY <2>2, ScreenConstants DEF Requested
  <2>4. v4'[t].answer = Screen!Nothing /\ \A o \in Items \ {t} : v4'[o] = v4[o]
    BY <2>2, ScreenConstants
  <2>5. ASSUME t \notin v6
        PROVE  s.version <= v1.version
               /\ (Screen!Refusal \notin {v2[t], s} => s.version >= v2[t].version)
    <3>1. s = Screen!Refusal \/ s = v1
      BY <2>1, <2>2, <2>5 DEF Screen!ServerIsAhead
    <3>2. v2[t].version <= v1.version
      BY <2>5 DEF Screen!ServerIsAhead
    <3>. QED
      BY <1>0, <3>1, <3>2, ScreenConstants
  <2>6. v3'[t] = s /\ v3' \in [Items -> Screen!Snapshot] /\ \A o \in Items \ {t} : v3'[o] = v3[o]
    BY <2>2
  <2>7. t \notin v6 => v5[t].answer.version <= v1.version
    BY DEF Screen!ServerIsAhead
  <2>. QED
    BY <1>2, <2>2, <2>3, <2>4, <2>5, <2>6, <2>7
<1>8. ASSUME NEW t \in Items, Screen!MadeUp(t)
      PROVE  Screen!IInv' /\ Screen!ScreenMovesOn
  <2>1. v4[t].op \in Screen!Ops /\ v4[t].base \in Screen!Snapshot
    BY <1>8 DEF Screen!MadeUp, Requested
  <2>2. PICK op \in Screen!Ops, b \in Screen!Snapshot : op = v4[t].op /\ b = v4[t].base
    BY <2>1
  <2>3. PICK p \in Screen!Pending(op, b) : Screen!Saves(t, Screen!Moved(op, b, p))
    BY <1>8, <2>2 DEF Screen!MadeUp
  <2>4. b.version < MaxVersion /\ v4' = [v4 EXCEPT ![t] = Screen!NoRequest]
        /\ v6' = v6 \cup {t} /\ UNCHANGED <<v1, v5>>
    BY <1>8, <2>2 DEF Screen!MadeUp
  <2>5. PICK s \in Screen!Snapshot : s = Screen!Moved(op, b, p)
    BY <2>4, MovedOn
  <2>6. v2' = [v2 EXCEPT ![t] = s] /\ v3' = [v3 EXCEPT ![t] = s]
    BY <2>3, <2>5 DEF Screen!Saves
  <2>7. v4' \in [Items -> Requested]
    BY <2>4, ScreenConstants DEF Requested
  <2>8. v4'[t].answer = Screen!Nothing /\ \A o \in Items \ {t} : v4'[o] = v4[o]
    BY <2>4, ScreenConstants
  <2>9. v3'[t] = s /\ v3' \in [Items -> Screen!Snapshot] /\ \A o \in Items \ {t} : v3'[o] = v3[o]
    BY <2>6
  <2>. QED
    BY <1>2, <2>4, <2>6, <2>7, <2>8, <2>9
<1>9. ASSUME NEW t \in Items, Screen!Loads(t)
      PROVE  Screen!IInv' /\ Screen!ScreenMovesOn
  <2>1. PICK s \in Screen!Snapshot : s = IF v3[t] = Screen!Nothing THEN Screen!Idle ELSE v3[t]
    BY ScreenConstants
  <2>2. v2' = [v2 EXCEPT ![t] = s] /\ UNCHANGED <<v1, v3, v6>>
        /\ v4' = [v4 EXCEPT ![t] = Screen!NoRequest]
        /\ v5' = [v5 EXCEPT ![t] = [going |-> TRUE, answer |-> Screen!Nothing]]
    BY <1>9, <2>1 DEF Screen!Loads
  <2>3. v4' \in [Items -> Requested] /\ v5' \in [Items -> Fetch]
    BY <2>2, ScreenConstants DEF Requested, Fetch
  <2>4. v4'[t].answer = Screen!Nothing /\ v5'[t].answer = Screen!Nothing
        /\ \A o \in Items \ {t} : v4'[o] = v4[o] /\ v5'[o] = v5[o]
    BY <2>2, ScreenConstants
  <2>5. s = v3[t] \/ (v3[t] = Screen!Nothing /\ s = Screen!Idle)
    BY <2>1
  <2>6. s.version <= v1.version \/ s = v2[t]
    BY <1>0, <2>5, ScreenConstants DEF Screen!ShownIsStored
  <2>7. ASSUME t \notin v6 PROVE s.version <= v1.version
    BY <2>6, <2>7 DEF Screen!ServerIsAhead
  <2>8. s.version >= v2[t].version
    <3>1. CASE v3[t] = Screen!Nothing
      <4>1. s = Screen!Idle /\ (v2[t] = Screen!Nothing \/ v2[t] = Screen!Idle)
        BY <2>1, <3>1 DEF Screen!ShownIsStored
      <4>. QED
        BY <4>1, ScreenConstants
    <3>2. CASE v3[t] # Screen!Nothing
      <4>1. s = v2[t]
        BY <2>1, <3>2 DEF Screen!ShownIsStored
      <4>. QED
        BY <1>0, <4>1
    <3>. QED
      BY <3>1, <3>2
  <2>9. v5'[t].answer.version <= v1.version
    BY <1>0, <2>4, ScreenConstants
  <2>. QED
    BY <1>2, <2>2, <2>3, <2>4, <2>5, <2>7, <2>8, <2>9
<1>10. ASSUME NEW t \in Items, Screen!FetchServed(t)
       PROVE  Screen!IInv' /\ Screen!ScreenMovesOn
  <2>1. v5' = [v5 EXCEPT ![t].answer = v1] /\ UNCHANGED <<v1, v2, v3, v4, v6>>
    BY <1>10 DEF Screen!FetchServed
  <2>2. v5' \in [Items -> Fetch] /\ v5'[t].answer = v1 /\ \A o \in Items \ {t} : v5'[o] = v5[o]
    BY <2>1 DEF Fetch
  <2>. QED
    BY <1>0, <1>1, <2>1, <2>2 DEF Screen!ServerIsAhead
<1>11. ASSUME NEW t \in Items, Screen!FetchArrives(t)
       PROVE  Screen!IInv' /\ Screen!ScreenMovesOn
  <2>1. PICK s \in Screen!Snapshot : s = v5[t].answer
    BY DEF Fetch
  <2>2. v5' = [v5 EXCEPT ![t] = Screen!NoFetch] /\ UNCHANGED <<v1, v4, v6>>
    BY <1>11 DEF Screen!FetchArrives
  <2>3. v5' \in [Items -> Fetch] /\ v5'[t].answer = Screen!Nothing
        /\ \A o \in Items \ {t} : v5'[o] = v5[o]
    BY <2>2, ScreenConstants DEF Fetch
  <2>4. CASE s.version < v2[t].version
    <3>1. UNCHANGED <<v2, v3>>
      BY <1>11, <2>1, <2>4 DEF Screen!FetchArrives
    <3>2. \A o \in Items \ v6 : v5'[o].answer.version <= v1.version
      BY <1>0, <2>3, ScreenConstants DEF Screen!ServerIsAhead
    <3>. QED
      BY <1>0, <1>1, <2>2, <2>3, <3>1, <3>2 DEF Screen!ServerIsAhead
  <2>5. CASE ~(s.version < v2[t].version)
    <3>1. v2' = [v2 EXCEPT ![t] = s] /\ v3' = [v3 EXCEPT ![t] = s]
      BY <1>11, <2>1, <2>5 DEF Screen!FetchArrives, Screen!Saves
    <3>2. s.version >= v2[t].version
      BY <1>0, <2>5
    <3>3. t \notin v6 => s.version <= v1.version
      BY <2>1 DEF Screen!ServerIsAhead
    <3>4. v3'[t] = s /\ v3' \in [Items -> Screen!Snapshot]
          /\ \A o \in Items \ {t} : v3'[o] = v3[o]
      BY <3>1
    <3>5. v5'[t].answer.version <= v1.version
      BY <1>0, <2>3, ScreenConstants
    <3>6. t \notin v6 => (v4[t].answer \in {Screen!Nothing, Screen!Refusal}
                            \/ (v4[t].op # "none" /\ v4[t].answer = v1))
      BY DEF Screen!ServerIsAhead
    <3>. QED
      BY <1>2, <2>2, <2>3, <3>1, <3>2, <3>3, <3>4, <3>5, <3>6
  <2>. QED
    BY <2>4, <2>5
<1>12. CASE UNCHANGED Screen!vars
  <2>1. UNCHANGED <<v1, v2, v3, v4, v5, v6>>
    BY <1>12 DEF Screen!vars
  <2>. QED
    BY <1>0, <1>1, <2>1 DEF Screen!ServerIsAhead
<1>. QED
  BY <1>3, <1>5, <1>6, <1>7, <1>8, <1>9, <1>10, <1>11, <1>12 DEF Screen!Next

----------------------------------------------------------------------------
(* RetroReports *)

LEMMA InitReport == Report!Init => Report!IInv
<1>. SUFFICES ASSUME Report!Init PROVE Report!IInv
  OBVIOUS
<1>1. <<>> \in Seq(1..MaxReports) /\ Report!ToSet(<<>>) = {}
  BY DEF Report!ToSet
<1>2. 0 \in 0..MaxReports
  BY WorkspaceAssumption
<1>3. v2 \in [Items -> [pc: {"none", "sent", "publishing"}, report: 0..MaxReports]]
      /\ \A t \in Items : v2[t].pc = "none"
  BY <1>2 DEF Report!Init, Report!NotAsked
<1>4. v3 \in [Items -> [going: BOOLEAN, got: BOOLEAN, list: Seq(1..MaxReports)]]
      /\ \A t \in Items : v3[t].list = <<>>
  BY <1>1 DEF Report!Init, Report!NoFetch
<1>5. v1 = <<>> /\ v4 = [t \in Items |-> <<>>] /\ v5 = [t \in Items |-> <<>>]
  BY DEF Report!Init
<1>6. v4 \in [Items -> Seq(1..MaxReports)] /\ v5 \in [Items -> Seq(1..MaxReports)]
      /\ \A t \in Items : v4[t] = <<>> /\ v5[t] = <<>>
  BY <1>1, <1>5
<1>. QED
  BY <1>1, <1>3, <1>4, <1>5, <1>6 DEF Report!IInv, Report!TypeOK, Report!ReportsAreStored,
     Report!AnswersAreStored

(* A report put at the head of a list. *)
LEMMA AtTheHead ==
    ASSUME NEW s \in Seq(1..MaxReports), NEW n \in 1..MaxReports
    PROVE  /\ <<n>> \o s \in Seq(1..MaxReports)
           /\ Report!ToSet(<<n>> \o s) = {n} \cup Report!ToSet(s)
<1>1. <<n>> \in Seq(1..MaxReports) /\ Len(<<n>>) = 1 /\ <<n>>[1] = n
  OBVIOUS
<1>2. <<n>> \o s \in Seq(1..MaxReports) /\ Len(<<n>> \o s) = 1 + Len(s)
      /\ \A i \in 1..(1 + Len(s)) : (<<n>> \o s)[i] = IF i = 1 THEN n ELSE s[i - 1]
  BY <1>1, ConcatProperties
<1>3. DOMAIN (<<n>> \o s) = 1..(1 + Len(s)) /\ DOMAIN s = 1..Len(s) /\ Len(s) \in Nat
  BY <1>2, LenProperties
<1>4. ASSUME NEW x \in Report!ToSet(<<n>> \o s) PROVE x \in {n} \cup Report!ToSet(s)
  <2>1. PICK i \in 1..(1 + Len(s)) : x = IF i = 1 THEN n ELSE s[i - 1]
    BY <1>2, <1>3, <1>4 DEF Report!ToSet
  <2>2. i = 1 \/ i - 1 \in 1..Len(s)
    BY <1>3
  <2>. QED
    BY <1>3, <2>1, <2>2 DEF Report!ToSet
<1>5. ASSUME NEW x \in Report!ToSet(s) PROVE x \in Report!ToSet(<<n>> \o s)
  <2>1. PICK i \in 1..Len(s) : x = s[i]
    BY <1>3 DEF Report!ToSet
  <2>2. i + 1 \in 1..(1 + Len(s)) /\ (<<n>> \o s)[i + 1] = x
    BY <1>2, <1>3, <2>1
  <2>. QED
    BY <1>3, <2>2 DEF Report!ToSet
<1>6. n \in Report!ToSet(<<n>> \o s)
  <2>1. 1 \in 1..(1 + Len(s)) /\ (<<n>> \o s)[1] = n
    BY <1>2, <1>3
  <2>. QED
    BY <1>3, <2>1 DEF Report!ToSet
<1>. QED
  BY <1>2, <1>4, <1>5, <1>6

LEMMA NextReport ==
    ASSUME Report!IInv, [Report!Next]_(Report!vars)
    PROVE  Report!IInv'
<1>. DEFINE List == Seq(1..MaxReports)
            Generate == [pc: {"none", "sent", "publishing"}, report: 0..MaxReports]
            Fetch == [going: BOOLEAN, got: BOOLEAN, list: List]
<1>. /\ v1 \in List /\ v2 \in [Items -> Generate] /\ v3 \in [Items -> Fetch]
     /\ v4 \in [Items -> List] /\ v5 \in [Items -> List]
     /\ \A t \in Items :
           /\ Report!ToSet(v4[t]) \subseteq Report!ToSet(v1) /\ v5[t] = v4[t]
           /\ v2[t].pc = "publishing" => v2[t].report \in Report!ToSet(v1)
           /\ Report!ToSet(v3[t].list) \subseteq Report!ToSet(v1)
  BY DEF Report!IInv, Report!TypeOK, Report!ReportsAreStored, Report!AnswersAreStored
<1>0. <<>> \in List /\ Report!ToSet(<<>>) = {} /\ \A s \in List : Report!ToSet(s) \subseteq 1..MaxReports
  <2>1. <<>> \in List /\ Report!ToSet(<<>>) = {}
    BY DEF Report!ToSet
  <2>2. ASSUME NEW s \in List PROVE Report!ToSet(s) \subseteq 1..MaxReports
    <3>1. DOMAIN s = 1..Len(s) /\ s \in [1..Len(s) -> 1..MaxReports]
      BY LenProperties
    <3>. QED
      BY <3>1 DEF Report!ToSet
  <2>. QED
    BY <2>1, <2>2
<1>. HIDE DEF List, Generate, Fetch
<1>1. ASSUME v1' \in List, v2' \in [Items -> Generate], v3' \in [Items -> Fetch],
             v4' \in [Items -> List], v5' \in [Items -> List],
             \A t \in Items :
                /\ Report!ToSet(v4'[t]) \subseteq Report!ToSet(v1') /\ v5'[t] = v4'[t]
                /\ v2'[t].pc = "publishing" => v2'[t].report \in Report!ToSet(v1')
                /\ Report!ToSet(v3'[t].list) \subseteq Report!ToSet(v1')
      PROVE  Report!IInv'
  BY <1>1 DEF Report!IInv, Report!TypeOK, Report!ReportsAreStored, Report!AnswersAreStored,
     List, Generate, Fetch
<1>2. ASSUME NEW t \in Items, v2' = [v2 EXCEPT ![t] = Report!NotAsked]
      PROVE  /\ v2' \in [Items -> Generate] /\ v2'[t].pc = "none"
             /\ \A o \in Items \ {t} : v2'[o] = v2[o]
  <2>1. 0 \in 0..MaxReports
    BY WorkspaceAssumption
  <2>2. Report!NotAsked \in Generate /\ Report!NotAsked.pc = "none"
    BY <2>1 DEF Generate, Report!NotAsked
  <2>. QED
    BY <1>2, <2>2
<1>3. ASSUME NEW t \in Items, NEW g \in BOOLEAN, v3' = [v3 EXCEPT ![t] = [Report!NoFetch EXCEPT !.going = g]]
      PROVE  /\ v3' \in [Items -> Fetch] /\ v3'[t].list = <<>>
             /\ \A o \in Items \ {t} : v3'[o] = v3[o]
  <2>1. [Report!NoFetch EXCEPT !.going = g] \in Fetch
        /\ [Report!NoFetch EXCEPT !.going = g].list = <<>>
    BY <1>0 DEF Fetch, Report!NoFetch
  <2>. QED
    BY <1>3, <2>1
<1>4. ASSUME NEW t \in Items, Report!Asks(t) PROVE Report!IInv'
  <2>1. v2' = [v2 EXCEPT ![t].pc = "sent"] /\ UNCHANGED <<v1, v3, v4, v5>>
    BY <1>4 DEF Report!Asks
  <2>2. v2' \in [Items -> Generate] /\ v2'[t].pc = "sent"
        /\ \A o \in Items \ {t} : v2'[o] = v2[o]
    BY <2>1 DEF Generate
  <2>. QED
    BY <1>1, <2>1, <2>2
<1>5. ASSUME NEW t \in Items, Report!Generates(t) PROVE Report!IInv'
  <2>1. PICK n \in Nat : n = Len(v1) + 1
    BY LenProperties DEF List
  <2>2. n \in 1..MaxReports
    BY <1>5, <2>1, LenProperties DEF Report!Generates, List
  <2>3. v1' = <<n>> \o v1 /\ v2' = [v2 EXCEPT ![t] = [pc |-> "publishing", report |-> n]]
        /\ UNCHANGED <<v3, v4, v5>>
    BY <1>5, <2>1 DEF Report!Generates
  <2>4. v1' \in List /\ Report!ToSet(v1') = {n} \cup Report!ToSet(v1)
    BY <2>2, <2>3, AtTheHead DEF List
  <2>5. v2' \in [Items -> Generate] /\ v2'[t].report = n
        /\ \A o \in Items \ {t} : v2'[o] = v2[o]
    BY <2>2, <2>3 DEF Generate
  <2>. QED
    BY <1>1, <2>3, <2>4, <2>5
<1>6. ASSUME NEW t \in Items, Report!ReportArrives(t) PROVE Report!IInv'
  <2>1. PICK n \in Report!ToSet(v1) : n = v2[t].report
    BY <1>6 DEF Report!ReportArrives
  <2>2. PICK s \in List : s = v4[t]
    OBVIOUS
  <2>3. PICK l \in List : l = <<n>> \o s /\ Report!ToSet(l) = {n} \cup Report!ToSet(s)
    BY <1>0, <2>1, AtTheHead DEF List
  <2>4. v4' = [v4 EXCEPT ![t] = l]
    BY <1>6, <2>1, <2>2, <2>3 DEF Report!ReportArrives
  <2>5. v5' = [v5 EXCEPT ![t] = l]
    BY <1>6, <2>4 DEF Report!ReportArrives
  <2>6. v2' = [v2 EXCEPT ![t] = Report!NotAsked] /\ UNCHANGED <<v1, v3>>
    BY <1>6 DEF Report!ReportArrives
  <2>7. v4' \in [Items -> List] /\ v5' \in [Items -> List] /\ v4'[t] = l /\ v5'[t] = l
        /\ \A o \in Items \ {t} : v4'[o] = v4[o] /\ v5'[o] = v5[o]
    BY <2>4, <2>5
  <2>8. Report!ToSet(l) \subseteq Report!ToSet(v1)
    BY <2>2, <2>3
  <2>. QED
    BY <1>1, <1>2, <2>6, <2>7, <2>8
<1>7. ASSUME NEW t \in Items, Report!ReportFails(t) PROVE Report!IInv'
  <2>1. v2' = [v2 EXCEPT ![t] = Report!NotAsked] /\ UNCHANGED <<v1, v3, v4, v5>>
    BY <1>7 DEF Report!ReportFails
  <2>. QED
    BY <1>1, <1>2, <2>1
<1>8. ASSUME NEW t \in Items, Report!Loads(t) PROVE Report!IInv'
  <2>1. v4' = [v4 EXCEPT ![t] = v5[t]] /\ v2' = [v2 EXCEPT ![t] = Report!NotAsked]
        /\ v3' = [v3 EXCEPT ![t] = [Report!NoFetch EXCEPT !.going = TRUE]]
        /\ UNCHANGED <<v1, v5>>
    BY <1>8 DEF Report!Loads
  <2>2. v4' = v4
    BY <2>1
  <2>3. v3' \in [Items -> Fetch] /\ v3'[t].list = <<>> /\ \A o \in Items \ {t} : v3'[o] = v3[o]
    BY <1>3, <2>1
  <2>4. v2' \in [Items -> Generate] /\ v2'[t].pc = "none" /\ \A o \in Items \ {t} : v2'[o] = v2[o]
    BY <1>2, <2>1
  <2>. QED
    BY <1>0, <1>1, <2>1, <2>2, <2>3, <2>4
<1>9. ASSUME NEW t \in Items, Report!FetchServed(t) PROVE Report!IInv'
  <2>1. v3' = [v3 EXCEPT ![t].got = TRUE, ![t].list = v1] /\ UNCHANGED <<v1, v2, v4, v5>>
    BY <1>9 DEF Report!FetchServed
  <2>2. v3' = [v3 EXCEPT ![t] = [[v3[t] EXCEPT !.got = TRUE] EXCEPT !.list = v1]]
    BY <2>1 DEF Fetch
  <2>3. [[v3[t] EXCEPT !.got = TRUE] EXCEPT !.list = v1] \in Fetch
        /\ [[v3[t] EXCEPT !.got = TRUE] EXCEPT !.list = v1].list = v1
    BY DEF Fetch
  <2>4. v3' \in [Items -> Fetch] /\ v3'[t].list = v1 /\ \A o \in Items \ {t} : v3'[o] = v3[o]
    BY <2>2, <2>3
  <2>. QED
    BY <1>1, <2>1, <2>4
<1>10. ASSUME NEW t \in Items, v3' = [v3 EXCEPT ![t] = Report!NoFetch]
       PROVE  v3' \in [Items -> Fetch] /\ v3'[t].list = <<>> /\ \A o \in Items \ {t} : v3'[o] = v3[o]
  <2>1. Report!NoFetch \in Fetch /\ Report!NoFetch.list = <<>>
    BY <1>0 DEF Fetch, Report!NoFetch
  <2>. QED
    BY <1>10, <2>1
<1>11. ASSUME NEW t \in Items, Report!FetchArrives(t) PROVE Report!IInv'
  <2>1. PICK l \in List : l = v3[t].list
    BY DEF Fetch
  <2>2. v3' = [v3 EXCEPT ![t] = Report!NoFetch] /\ UNCHANGED <<v1, v2>>
    BY <1>11 DEF Report!FetchArrives
  <2>3. v3' \in [Items -> Fetch] /\ v3'[t].list = <<>> /\ \A o \in Items \ {t} : v3'[o] = v3[o]
    BY <1>10, <2>2
  <2>4. CASE l = <<>>
    <3>1. UNCHANGED <<v4, v5>>
      BY <1>11, <2>1, <2>4 DEF Report!FetchArrives
    <3>. QED
      BY <1>0, <1>1, <2>2, <2>3, <3>1
  <2>5. CASE l # <<>>
    <3>1. v4' = [v4 EXCEPT ![t] = l] /\ v5' = [v5 EXCEPT ![t] = l]
      BY <1>11, <2>1, <2>5 DEF Report!FetchArrives
    <3>2. v4' \in [Items -> List] /\ v5' \in [Items -> List] /\ v4'[t] = l /\ v5'[t] = l
          /\ \A o \in Items \ {t} : v4'[o] = v4[o] /\ v5'[o] = v5[o]
      BY <3>1
    <3>. QED
      BY <1>0, <1>1, <2>1, <2>2, <2>3, <3>2
  <2>. QED
    BY <2>4, <2>5
<1>12. ASSUME NEW t \in Items, Report!FetchFails(t) PROVE Report!IInv'
  <2>1. v3' = [v3 EXCEPT ![t] = Report!NoFetch] /\ UNCHANGED <<v1, v2, v4, v5>>
    BY <1>12 DEF Report!FetchFails
  <2>2. v3' \in [Items -> Fetch] /\ v3'[t].list = <<>> /\ \A o \in Items \ {t} : v3'[o] = v3[o]
    BY <1>10, <2>1
  <2>. QED
    BY <1>0, <1>1, <2>1, <2>2
<1>13. CASE UNCHANGED Report!vars
  BY <1>1, <1>13 DEF Report!vars
<1>. QED
  BY <1>4, <1>5, <1>6, <1>7, <1>8, <1>9, <1>11, <1>12, <1>13 DEF Report!Next

----------------------------------------------------------------------------
(* AutoRun *)

LEMMA InitRun == Run!Init => Run!IInv
BY DEF Run!Init, Run!IInv, Run!TypeOK, Run!StopIsHeeded, Run!Idle

LEMMA NextRun ==
    ASSUME Run!IInv, [Run!Next]_(Run!vars)
    PROVE  Run!IInv'
<1>. DEFINE Pc == {"idle", "create", "look", "close"} \cup Run!Posts \cup Run!Rests \cup Run!Waits
            Loop == [pc: Pc, session: Items \cup {None}]
            Gate == {"none", "A", "B", "C", "DONE"}
            Heeded(p, n) == n <= 1 /\ (n = 1 => p \in {"intro", "restIntro", "idle"})
<1>. /\ v1 \in [Items -> Loop] /\ v2 \in [Items -> Gate] /\ v3 \in Items \cup {None}
     /\ v8 \in Run!Posts \cup {"none"} /\ v9 \in [Items -> Nat]
     /\ v6 => \A l \in Items : Heeded(v1[l].pc, v9[l])
  BY DEF Run!IInv, Run!TypeOK, Run!StopIsHeeded
<1>0. ASSUME v1' \in [Items -> Loop], v2' \in [Items -> Gate], v3' \in Items \cup {None},
             v8' \in Run!Posts \cup {"none"}, v9' \in [Items -> Nat],
             v6' => \A l \in Items : Heeded(v1'[l].pc, v9'[l])
      PROVE  Run!IInv'
  BY <1>0 DEF Run!IInv, Run!TypeOK, Run!StopIsHeeded
<1>1. Run!Idle \in Loop /\ Run!Idle.pc = "idle"
  BY DEF Run!Idle
<1>2. /\ \A p \in Run!Posts : Run!AfterCall[p] \in Run!Rests
      /\ \A p \in Run!Rests : Run!AfterRest[p] \in {"verify"} \cup Run!Waits
      /\ \A p \in Run!Waits : Run!AfterWait[p] \in {"look", "ready", "finish", "close"}
      /\ \A p \in Run!Posts : Run!Leaves[p] \in Gate
      /\ Run!AfterCall["intro"] = "restIntro" /\ Run!AfterRest["restFinished"] = "waitDONE"
      /\ Run!AfterWait["waitDONE"] = "close"
  BY DEF Run!Posts, Run!Rests, Run!Waits, Run!AfterCall, Run!AfterRest, Run!AfterWait, Run!Leaves
<1>. HIDE DEF Loop, Gate
<1>3. ASSUME NEW session, NEW step \in Run!Posts, NEW ok \in BOOLEAN, Run!Served(session, step, ok)
      PROVE  v2' \in [Items -> Gate]
  <2>1. PICK g \in Gate : g = Run!Leaves[step]
    BY <1>2
  <2>2. CASE ok
    BY <1>3, <2>1, <2>2 DEF Run!Served
  <2>3. CASE ~ok
    BY <1>3, <2>3 DEF Run!Served
  <2>. QED
    BY <2>2, <2>3
<1>4. ASSUME NEW l \in Items, Run!Ends(l), v2' \in [Items -> Gate], v3' = v3
      PROVE  Run!IInv'
  <2>1. v1' \in [Items -> Loop] /\ v1'[l].pc = "idle" /\ \A m \in Items \ {l} : v1'[m] = v1[m]
    BY <1>1, <1>4 DEF Run!Ends
  <2>2. UNCHANGED <<v6, v8, v9>>
    BY <1>4 DEF Run!Ends
  <2>. QED
    BY <1>0, <1>4, <2>1, <2>2
<1>5. ASSUME NEW l \in Items, NEW pc \in Pc, Run!Goes(l, pc), v2' \in [Items -> Gate], v3' = v3,
             v6 /\ pc \in Run!Posts => pc = "intro" /\ v1[l].pc = "look",
             v6 /\ v1[l].pc \in {"intro", "restIntro", "idle"} => pc \in {"restIntro", "idle"}
      PROVE  Run!IInv'
  <2>1. v1' = [v1 EXCEPT ![l].pc = pc] /\ UNCHANGED <<v6, v8>>
    BY <1>5 DEF Run!Goes
  <2>2. v1' \in [Items -> Loop] /\ v1'[l].pc = pc /\ \A m \in Items \ {l} : v1'[m] = v1[m]
    BY <2>1 DEF Loop
  <2>3. v9' \in [Items -> Nat] /\ \A m \in Items \ {l} : v9'[m] = v9[m]
    BY <1>5 DEF Run!Goes
  <2>4. ASSUME v6 PROVE Heeded(pc, v9'[l])
    <3>1. Heeded(v1[l].pc, v9[l])
      BY <2>4
    <3>2. CASE pc \in Run!Posts
      <4>1. v9[l] = 0 /\ v9'[l] = v9[l] + 1
        BY <1>5, <2>4, <3>1, <3>2 DEF Run!Goes
      <4>. QED
        BY <1>5, <2>4, <3>2, <4>1
    <3>3. CASE pc \notin Run!Posts
      <4>1. v9' = v9
        BY <1>5, <3>3 DEF Run!Goes
      <4>. QED
        BY <1>5, <2>4, <3>1, <4>1
    <3>. QED
      BY <3>2, <3>3
  <2>. QED
    BY <1>0, <1>5, <2>1, <2>2, <2>3, <2>4
<1>6. CASE Run!Stop
  BY <1>0, <1>6 DEF Run!Stop
<1>7. ASSUME NEW step \in Run!Posts, Run!ManualCalls(step) PROVE Run!IInv'
  BY <1>0, <1>7 DEF Run!ManualCalls
<1>8. CASE Run!ManualAnswered
  <2>1. v2' \in [Items -> Gate]
    BY <1>3, <1>8 DEF Run!ManualAnswered
  <2>. QED
    BY <1>0, <1>8, <2>1 DEF Run!ManualAnswered
<1>9. ASSUME NEW l \in Items, Run!Start(l) PROVE Run!IInv'
  <2>1. [pc |-> IF v3 = None THEN "create" ELSE "waitA", session |-> v3] \in Loop
    BY DEF Loop, Run!Waits
  <2>2. v1' \in [Items -> Loop]
    BY <1>9, <2>1 DEF Run!Start
  <2>3. v9' \in [Items -> Nat] /\ ~v6' /\ UNCHANGED <<v2, v3, v8>>
    BY <1>9 DEF Run!Start
  <2>. QED
    BY <1>0, <2>2, <2>3
<1>10. ASSUME NEW l \in Items, Run!Created(l) PROVE Run!IInv'
  <2>1. v1[l].pc = "create" /\ v1' = [v1 EXCEPT ![l] = [pc |-> "restCreated", session |-> l]]
        /\ UNCHANGED <<v6, v8, v9>> /\ v3' = l
    BY <1>10 DEF Run!Created
  <2>2. [pc |-> "restCreated", session |-> l] \in Loop
    BY DEF Loop, Run!Rests
  <2>3. v1' \in [Items -> Loop] /\ v1'[l].pc = "restCreated" /\ \A m \in Items \ {l} : v1'[m] = v1[m]
    BY <2>1, <2>2
  <2>4. v2' \in [Items -> Gate]
    BY <1>10 DEF Run!Created, Gate
  <2>. QED
    BY <1>0, <2>1, <2>3, <2>4
<1>11. ASSUME NEW l \in Items, Run!CallAnswered(l) PROVE Run!IInv'
  <2>1. PICK step \in Run!Posts : step = v1[l].pc
    BY <1>11 DEF Run!CallAnswered
  <2>2. PICK ok \in BOOLEAN : /\ Run!Served(v1[l].session, step, ok)
                              /\ IF ok THEN Run!Goes(l, Run!AfterCall[step]) ELSE Run!Ends(l)
    BY <1>11, <2>1 DEF Run!CallAnswered
  <2>3. v3' = v3 /\ v2' \in [Items -> Gate]
    BY <1>3, <1>11, <2>2 DEF Run!CallAnswered
  <2>4. Run!AfterCall[step] \in Run!Rests /\ Run!AfterCall[step] \notin Run!Posts
        /\ (step = "intro" => Run!AfterCall[step] = "restIntro")
    BY <1>2 DEF Run!Rests, Run!Posts
  <2>5. step \notin {"restIntro", "idle"}
    BY DEF Run!Posts
  <2>. QED
    BY <1>4, <1>5, <2>1, <2>2, <2>3, <2>4, <2>5
<1>12. ASSUME NEW l \in Items, Run!RestOver(l) PROVE Run!IInv'
  <2>1. PICK rest \in Run!Rests : rest = v1[l].pc
    BY <1>12 DEF Run!RestOver
  <2>2. v3' = v3 /\ v2' \in [Items -> Gate]
    BY <1>12 DEF Run!RestOver
  <2>3. Run!Ends(l) \/ (Run!Goes(l, Run!AfterRest[rest]) /\ (v6 => rest = "restFinished"))
    BY <1>12, <2>1 DEF Run!RestOver
  <2>4. Run!AfterRest[rest] \in Pc /\ (rest = "restFinished" => Run!AfterRest[rest] = "waitDONE")
    BY <1>2 DEF Run!Posts
  <2>5. "waitDONE" \notin Run!Posts
    BY DEF Run!Posts
  <2>. QED
    BY <1>4, <1>5, <2>1, <2>2, <2>3, <2>4, <2>5
<1>13. ASSUME NEW l \in Items, Run!WaitSees(l) PROVE Run!IInv'
  <2>1. PICK wait \in Run!Waits : wait = v1[l].pc
    BY <1>13 DEF Run!WaitSees
  <2>2. v3' = v3 /\ v2' \in [Items -> Gate]
    BY <1>13 DEF Run!WaitSees
  <2>3. Run!Ends(l) \/ (Run!Goes(l, Run!AfterWait[wait]) /\ (v6 => wait = "waitDONE"))
    BY <1>13, <2>1 DEF Run!WaitSees
  <2>4. Run!AfterWait[wait] \in Pc /\ (wait = "waitDONE" => Run!AfterWait[wait] = "close")
    BY <1>2 DEF Run!Posts
  <2>5. "close" \notin Run!Posts
    BY DEF Run!Posts
  <2>. QED
    BY <1>4, <1>5, <2>1, <2>2, <2>3, <2>4, <2>5
<1>14. ASSUME NEW l \in Items, Run!WaitGivesUp(l) PROVE Run!IInv'
  <2>1. v3' = v3 /\ v2' \in [Items -> Gate]
    BY <1>14 DEF Run!WaitGivesUp
  <2>2. Run!Ends(l) \/ (Run!Goes(l, "close") /\ v1[l].pc = "waitDONE")
    BY <1>14 DEF Run!WaitGivesUp
  <2>3. "close" \notin Run!Posts
    BY DEF Run!Posts
  <2>. QED
    BY <1>4, <1>5, <2>1, <2>2, <2>3
<1>15. ASSUME NEW l \in Items, Run!Looks(l) PROVE Run!IInv'
  <2>1. v1[l].pc = "look" /\ v3' = v3 /\ v2' \in [Items -> Gate]
    BY <1>15 DEF Run!Looks
  <2>2. Run!Ends(l) \/ Run!Goes(l, "intro") \/ Run!Goes(l, "waitB")
    BY <1>15 DEF Run!Looks
  <2>3. "waitB" \notin Run!Posts /\ "waitB" \in Pc /\ "intro" \in Pc
    BY DEF Run!Posts, Run!Waits
  <2>. QED
    BY <1>4, <1>5, <2>1, <2>2, <2>3
<1>16. ASSUME NEW l \in Items, Run!AnswerLost(l) PROVE Run!IInv'
  <2>1. PICK step \in Run!Posts : step = v1[l].pc
    BY <1>16 DEF Run!AnswerLost
  <2>2. v3' = v3 /\ Run!Ends(l) /\ v2' \in [Items -> Gate]
    BY <1>3, <1>16, <2>1 DEF Run!AnswerLost
  <2>. QED
    BY <1>4, <2>2
<1>17. ASSUME NEW l \in Items, Run!LoopEnds(l) PROVE Run!IInv'
  BY <1>4, <1>17 DEF Run!LoopEnds
<1>18. CASE UNCHANGED Run!vars
  BY <1>0, <1>18 DEF Run!vars
<1>. QED
  BY <1>6, <1>7, <1>8, <1>9, <1>10, <1>11, <1>12, <1>13, <1>14, <1>15, <1>16, <1>17, <1>18
     DEF Run!Next

----------------------------------------------------------------------------
(* ChatNotices *)

(* SetToSeq lists every element of a finite set once. *)
LEMMA NoticesInSequence ==
    ASSUME NEW S, IsFiniteSet(S)
    PROVE  /\ Notice!SetToSeq(S) \in Seq(S)
           /\ {Notice!SetToSeq(S)[i] : i \in DOMAIN Notice!SetToSeq(S)} = S
           /\ \A i, j \in DOMAIN Notice!SetToSeq(S) :
                 Notice!SetToSeq(S)[i] = Notice!SetToSeq(S)[j] => i = j
<1>1. Cardinality(S) \in Nat /\ ExistsBijection(1..Cardinality(S), S)
  BY FS_CardinalityType
<1>2. PICK f \in Bijection(1..Cardinality(S), S) : TRUE
  BY <1>1 DEF ExistsBijection
<1>3. f \in [1..Cardinality(S) -> S] /\ \A a, b \in 1..Cardinality(S) : f[a] = f[b] => a = b
  BY <1>2, Fun_BijectionProperties
<1>4. Notice!Cardinality(S) = Cardinality(S)
  BY DEF Notice!Cardinality, Cardinality
<1>5. Notice!IsInjective(f)
  BY <1>3 DEF Notice!IsInjective
<1>6. PICK g : g = Notice!SetToSeq(S)
  OBVIOUS
<1>7. g \in [1..Cardinality(S) -> S] /\ Notice!IsInjective(g)
  BY <1>3, <1>4, <1>5, <1>6 DEF Notice!SetToSeq
<1>8. DOMAIN g = 1..Cardinality(S) /\ \A i, j \in DOMAIN g : g[i] = g[j] => i = j
  BY <1>7 DEF Notice!IsInjective
<1>9. g \in Injection(1..Cardinality(S), S)
  BY <1>7, <1>8, Fun_IsInj
<1>10. Cardinality(1..Cardinality(S)) = Cardinality(S)
  BY <1>1, FS_Interval
<1>11. g \in Surjection(1..Cardinality(S), S)
  BY <1>9, <1>10, FS_Injection
<1>12. \A x \in S : \E i \in 1..Cardinality(S) : g[i] = x
  BY <1>11 DEF Surjection
<1>13. g \in Seq(S)
  BY <1>1, <1>7, SeqDef
<1>14. {g[i] : i \in DOMAIN g} = S
  BY <1>7, <1>8, <1>12
<1>. QED
  BY <1>6, <1>8, <1>13, <1>14

LEMMA InitNotice == Notice!Init => Notice!IInv
<1>. SUFFICES ASSUME Notice!Init PROVE Notice!IInv
  OBVIOUS
<1>1. <<>> \in Seq(Items) /\ DOMAIN <<>> = {}
  OBVIOUS
<1>2. IsFiniteSet({}) /\ Notice!IsFiniteSet({})
  BY FS_EmptySet DEF Notice!IsFiniteSet, IsFiniteSet
<1>3. v5 \in [Requests -> [going: BOOLEAN, got: BOOLEAN, list: SUBSET Items, cancelled: BOOLEAN]]
      /\ \A p \in Requests : v5[p].list = {}
  BY DEF Notice!Init, Notice!Free
<1>. QED
  BY <1>1, <1>2, <1>3 DEF Notice!Init, Notice!IInv, Notice!TypeOK, Notice!NotesAreShownOnce,
     Notice!Shown

Elements(s) == {s[i] : i \in DOMAIN s}

Distinct(s) == \A i, j \in DOMAIN s : s[i] = s[j] => i = j

(* What is put behind the messages of a room. *)
LEMMA RoomGrows ==
    ASSUME NEW room \in Seq(Items), NEW S \in SUBSET Items, NEW longer,
           longer = room \o Notice!SetToSeq(S), IsFiniteSet(S),
           Distinct(room), Elements(room) \cap S = {}
    PROVE  longer \in Seq(Items) /\ Elements(longer) = Elements(room) \cup S /\ Distinct(longer)
<1>. USE DEF Elements, Distinct
<1>1. PICK new \in Seq(S) :
         /\ new = Notice!SetToSeq(S) /\ {new[i] : i \in DOMAIN new} = S
         /\ \A i, j \in DOMAIN new : new[i] = new[j] => i = j
  BY NoticesInSequence
<1>2. new \in Seq(Items)
  BY SeqMonotonic
<1>3. DOMAIN room = 1..Len(room) /\ DOMAIN new = 1..Len(new)
      /\ Len(room) \in Nat /\ Len(new) \in Nat
  BY LenProperties
<1>4. /\ longer \in Seq(Items) /\ Len(longer) = Len(room) + Len(new)
      /\ \A i \in 1..(Len(room) + Len(new)) :
            longer[i] = IF i <= Len(room) THEN room[i] ELSE new[i - Len(room)]
  BY <1>1, <1>2, ConcatProperties
<1>5. DOMAIN longer = 1..(Len(room) + Len(new))
  BY <1>4, LenProperties
<1>6. ASSUME NEW i \in DOMAIN longer
      PROVE  \/ i \in DOMAIN room /\ longer[i] = room[i]
             \/ i - Len(room) \in DOMAIN new /\ longer[i] = new[i - Len(room)]
  BY <1>3, <1>4, <1>5
<1>7. ASSUME NEW x \in Elements(longer) PROVE x \in Elements(room) \cup S
  BY <1>1, <1>6
<1>8. ASSUME NEW x \in Elements(room) PROVE x \in Elements(longer)
  <2>1. PICK i \in 1..Len(room) : x = room[i]
    BY <1>3
  <2>2. i \in DOMAIN longer /\ longer[i] = x
    BY <1>3, <1>4, <1>5, <2>1
  <2>. QED
    BY <2>2
<1>9. ASSUME NEW x \in S PROVE x \in Elements(longer)
  <2>1. PICK i \in 1..Len(new) : x = new[i]
    BY <1>1, <1>3
  <2>2. i + Len(room) \in DOMAIN longer /\ ~(i + Len(room) <= Len(room))
        /\ (i + Len(room)) - Len(room) = i
    BY <1>3, <1>5
  <2>3. longer[i + Len(room)] = x
    BY <1>4, <1>5, <2>1, <2>2
  <2>. QED
    BY <2>2, <2>3
<1>10. ASSUME NEW i \in DOMAIN longer, NEW j \in DOMAIN longer, longer[i] = longer[j]
       PROVE  i = j
  <2>1. i \in Int /\ j \in Int
    BY <1>3, <1>5
  <2>2. CASE i \in DOMAIN room /\ longer[i] = room[i] /\ j \in DOMAIN room /\ longer[j] = room[j]
    BY <1>10, <2>2
  <2>3. CASE /\ i - Len(room) \in DOMAIN new /\ longer[i] = new[i - Len(room)]
             /\ j - Len(room) \in DOMAIN new /\ longer[j] = new[j - Len(room)]
    <3>1. i - Len(room) = j - Len(room)
      BY <1>1, <1>10, <2>3
    <3>. QED
      BY <1>3, <2>1, <3>1
  <2>4. \A a \in DOMAIN room, b \in DOMAIN new : room[a] # new[b]
    BY <1>1
  <2>. QED
    BY <1>6, <1>10, <2>2, <2>3, <2>4
<1>. QED
  BY <1>4, <1>7, <1>8, <1>9, <1>10

LEMMA NextNotice ==
    ASSUME Notice!IInv, [Notice!Next]_(Notice!vars)
    PROVE  Notice!IInv'
<1>. DEFINE Pull == [going: BOOLEAN, got: BOOLEAN, list: SUBSET Items, cancelled: BOOLEAN]
            Brought == {v6[i] : i \in DOMAIN v6}
<1>. /\ v1 \subseteq Items /\ v3 \subseteq v1 /\ v7 \subseteq v3
     /\ v2 \in BOOLEAN /\ v4 \in BOOLEAN /\ v6 \in Seq(Items) /\ v5 \in [Requests -> Pull]
     /\ Notice!IsFiniteSet(v1) /\ \A p \in Requests : v5[p].list \subseteq v1
     /\ (~v2 => v6 = <<>> /\ v3 = {})
     /\ Brought = v3 \ v7 /\ \A i, j \in DOMAIN v6 : v6[i] = v6[j] => i = j
  BY DEF Notice!IInv, Notice!TypeOK, Notice!NotesAreShownOnce, Notice!Shown
<1>. Notice!Free \in Pull /\ Notice!Free.list = {}
  BY DEF Notice!Free
<1>1. ASSUME v1' \subseteq Items, v3' \subseteq v1', v7' \subseteq v3',
             v2' \in BOOLEAN, v4' \in BOOLEAN, v6' \in Seq(Items), v5' \in [Requests -> Pull],
             Notice!IsFiniteSet(v1'), \A p \in Requests : v5'[p].list \subseteq v1',
             ~v2' => v6' = <<>> /\ v3' = {},
             Brought' = v3' \ v7', \A i, j \in DOMAIN v6' : v6'[i] = v6'[j] => i = j
      PROVE  Notice!IInv'
  BY <1>1 DEF Notice!IInv, Notice!TypeOK, Notice!NotesAreShownOnce, Notice!Shown
<1>2. IsFiniteSet(v1)
  BY DEF Notice!IsFiniteSet, IsFiniteSet
<1>. HIDE DEF Pull, Brought
<1>3. ASSUME UNCHANGED v6 PROVE Brought' = Brought
  BY <1>3 DEF Brought
<1>4. ASSUME NEW n \in Items, Notice!NoteSent(n) PROVE Notice!IInv'
  <2>1. v1' = v1 \cup {n} /\ UNCHANGED <<v2, v3, v4, v5, v6, v7>>
    BY <1>4 DEF Notice!NoteSent
  <2>2. IsFiniteSet(v1 \cup {n})
    BY <1>2, FS_AddElement
  <2>3. Notice!IsFiniteSet(v1 \cup {n})
    BY <2>2 DEF Notice!IsFiniteSet, IsFiniteSet
  <2>. QED
    BY <1>1, <1>3, <2>1, <2>3
<1>5. CASE Notice!LoadsRoles
  <2>1. v4' = TRUE /\ v6' = <<>> /\ v7' = v7 \cup Brought
        /\ v5' = [p \in Requests |-> [v5[p] EXCEPT !.cancelled = v5[p].going]]
        /\ UNCHANGED <<v1, v2, v3>>
    BY <1>5 DEF Notice!LoadsRoles, Notice!Shown, Brought
  <2>2. <<>> \in Seq(Items) /\ DOMAIN <<>> = {}
    OBVIOUS
  <2>3. Brought' = {}
    BY <2>1, <2>2 DEF Brought
  <2>4. \A p \in Requests : [v5[p] EXCEPT !.cancelled = v5[p].going] \in Pull
                            /\ [v5[p] EXCEPT !.cancelled = v5[p].going].list = v5[p].list
    BY DEF Pull
  <2>5. v5' \in [Requests -> Pull] /\ \A p \in Requests : v5'[p].list = v5[p].list
    BY <2>1, <2>4
  <2>. QED
    BY <1>1, <2>1, <2>2, <2>3, <2>5
<1>6. ASSUME NEW p \in Requests, Notice!PullBegins(p) PROVE Notice!IInv'
  <2>1. v5' = [v5 EXCEPT ![p] = [Notice!Free EXCEPT !.going = TRUE]]
        /\ UNCHANGED <<v1, v2, v3, v4, v6, v7>>
    BY <1>6 DEF Notice!PullBegins
  <2>2. [Notice!Free EXCEPT !.going = TRUE] \in Pull
        /\ [Notice!Free EXCEPT !.going = TRUE].list = {}
    BY DEF Pull
  <2>3. v5' \in [Requests -> Pull] /\ v5'[p].list = {} /\ \A q \in Requests \ {p} : v5'[q] = v5[q]
    BY <2>1, <2>2
  <2>. QED
    BY <1>1, <1>3, <2>1, <2>3
<1>7. ASSUME NEW p \in Requests, Notice!PullServed(p) PROVE Notice!IInv'
  <2>1. v5' = [v5 EXCEPT ![p].got = TRUE, ![p].list = v1] /\ UNCHANGED <<v1, v2, v3, v4, v6, v7>>
    BY <1>7 DEF Notice!PullServed
  <2>2. v5' = [v5 EXCEPT ![p] = [[v5[p] EXCEPT !.got = TRUE] EXCEPT !.list = v1]]
    BY <2>1 DEF Pull
  <2>3. [[v5[p] EXCEPT !.got = TRUE] EXCEPT !.list = v1] \in Pull
        /\ [[v5[p] EXCEPT !.got = TRUE] EXCEPT !.list = v1].list = v1
    BY DEF Pull
  <2>4. v5' \in [Requests -> Pull] /\ v5'[p].list = v1 /\ \A q \in Requests \ {p} : v5'[q] = v5[q]
    BY <2>2, <2>3
  <2>. QED
    BY <1>1, <1>3, <2>1, <2>4
<1>8. ASSUME NEW p \in Requests, v5' = [v5 EXCEPT ![p] = Notice!Free]
      PROVE  v5' \in [Requests -> Pull] /\ \A q \in Requests : v5'[q].list \subseteq v1
  BY <1>8
<1>9. ASSUME NEW p \in Requests, Notice!PullFails(p) PROVE Notice!IInv'
  BY <1>1, <1>3, <1>8, <1>9 DEF Notice!PullFails
<1>10. ASSUME NEW list \in SUBSET v1, Notice!Merged(list), UNCHANGED <<v1, v4>>,
              v5' \in [Requests -> Pull], \A q \in Requests : v5'[q].list \subseteq v1
       PROVE  Notice!IInv'
  <2>1. CASE ~v2
    <3>1. v6' = v6 \o Notice!SetToSeq(list \cap Discussions) /\ v2' = TRUE
          /\ v3' = v3 \cup list /\ v7' = v7 \cup (list \ Discussions)
      BY <1>10, <2>1 DEF Notice!Merged
    <3>2. Brought = {} /\ v3 = {} /\ v7 = {}
      BY <2>1
    <3>3. IsFiniteSet(list \cap Discussions)
      BY <1>2, FS_Subset
    <3>4. PICK S \in SUBSET Items : S = list \cap Discussions
      OBVIOUS
    <3>5. /\ v6' \in Seq(Items) /\ Brought' = Brought \cup S
          /\ \A i, j \in DOMAIN v6' : v6'[i] = v6'[j] => i = j
      <4>1. PICK r, l : r \in Seq(Items) /\ r = v6 /\ l = v6'
        OBVIOUS
      <4>2. Distinct(r) /\ Elements(r) = Brought /\ Elements(r) \cap S = {}
            /\ l = r \o Notice!SetToSeq(S) /\ IsFiniteSet(S)
        BY <3>1, <3>2, <3>3, <3>4, <4>1 DEF Brought, Distinct, Elements
      <4>3. l \in Seq(Items) /\ Elements(l) = Elements(r) \cup S /\ Distinct(l)
        BY <4>1, <4>2, RoomGrows
      <4>4. Elements(l) = Brought' /\ \A i, j \in DOMAIN v6' : v6'[i] = v6'[j] => i = j
        BY <4>1, <4>3 DEF Brought, Distinct, Elements
      <4>. QED
        BY <4>1, <4>2, <4>3, <4>4
    <3>. QED
      BY <1>1, <1>10, <3>1, <3>2, <3>4, <3>5
  <2>2. CASE v2
    <3>1. v6' = v6 \o Notice!SetToSeq(list \ v3) /\ v3' = v3 \cup list /\ UNCHANGED <<v2, v7>>
      BY <1>10, <2>2 DEF Notice!Merged
    <3>2. IsFiniteSet(list \ v3)
      BY <1>2, FS_Subset
    <3>3. PICK S \in SUBSET Items : S = list \ v3
      OBVIOUS
    <3>4. Brought \cap S = {}
      BY <3>3
    <3>5. /\ v6' \in Seq(Items) /\ Brought' = Brought \cup S
          /\ \A i, j \in DOMAIN v6' : v6'[i] = v6'[j] => i = j
      <4>1. PICK r, l : r \in Seq(Items) /\ r = v6 /\ l = v6'
        OBVIOUS
      <4>2. Distinct(r) /\ Elements(r) = Brought /\ Elements(r) \cap S = {}
            /\ l = r \o Notice!SetToSeq(S) /\ IsFiniteSet(S)
        BY <3>1, <3>2, <3>3, <3>4, <4>1 DEF Brought, Distinct, Elements
      <4>3. l \in Seq(Items) /\ Elements(l) = Elements(r) \cup S /\ Distinct(l)
        BY <4>1, <4>2, RoomGrows
      <4>4. Elements(l) = Brought' /\ \A i, j \in DOMAIN v6' : v6'[i] = v6'[j] => i = j
        BY <4>1, <4>3 DEF Brought, Distinct, Elements
      <4>. QED
        BY <4>1, <4>2, <4>3, <4>4
    <3>. QED
      BY <1>1, <1>10, <2>2, <3>1, <3>3, <3>5
  <2>. QED
    BY <2>1, <2>2
<1>11. ASSUME NEW p \in Requests, Notice!PullArrives(p) PROVE Notice!IInv'
  <2>1. v5' = [v5 EXCEPT ![p] = Notice!Free] /\ UNCHANGED <<v1, v4>>
    BY <1>11 DEF Notice!PullArrives
  <2>2. CASE v5[p].cancelled
    <3>1. UNCHANGED <<v2, v3, v6, v7>>
      BY <1>11, <2>2 DEF Notice!PullArrives
    <3>. QED
      BY <1>1, <1>3, <1>8, <2>1, <3>1
  <2>3. CASE ~v5[p].cancelled
    <3>1. Notice!Merged(v5[p].list)
      BY <1>11, <2>3 DEF Notice!PullArrives
    <3>. QED
      BY <1>8, <1>10, <2>1, <3>1
  <2>. QED
    BY <2>2, <2>3
<1>12. CASE UNCHANGED Notice!vars
  BY <1>1, <1>3, <1>12 DEF Notice!vars
<1>. QED
  BY <1>4, <1>5, <1>6, <1>7, <1>9, <1>11, <1>12 DEF Notice!Next


----------------------------------------------------------------------------
(* What holds of every behaviour *)

(* The index says of an unbroken snapshot what its file says, in whatever  *)
(* order approvals write the two; and an image the chat refers to is one   *)
(* the API has stored.                                                     *)
THEOREM IndexAndImages == Spec => []IndexFollowsFile
<1>. DEFINE IInv == /\ part = "vfs" => Vfs!IInv
                    /\ part = "image" => Image!IInv
<1>1. Init => IInv
  BY PartInit, InitVfs, InitImage
<1>2. IInv /\ [Next]_vars => IInv'
  BY PartNext, NextVfs, NextImage
<1>3. IInv => IndexFollowsFile
  BY VfsIndexFollows, ImagesAreStored DEF IndexFollowsFile
<1>. QED
  BY <1>1, <1>2, <1>3, PTL DEF Spec

(* After a stop a loop makes at most the call it was about to make.        *)
THEOREM StopsAreHeeded == Spec => []StopIsHeeded
<1>. DEFINE IInv == part = "run" => Run!IInv
<1>1. Init => IInv
  BY PartInit, InitRun
<1>2. IInv /\ [Next]_vars => IInv'
  BY PartNext, NextRun
<1>3. IInv => StopIsHeeded
  BY DEF Run!IInv, StopIsHeeded
<1>. QED
  BY <1>1, <1>2, <1>3, PTL DEF Spec

(* The screen has the contract gate open only if the server opened it, or  *)
(* an answer was made up; and a tab shows and keeps reports of the API.    *)
THEOREM ScreensFollowServer == Spec => []ScreenOpensWithServer
<1>. DEFINE IInv == /\ part = "learner" => Learner!IInv
                    /\ part = "report" => Report!IInv
<1>1. Init => IInv
  BY PartInit, InitLearner, InitReport
<1>2. IInv /\ [Next]_vars => IInv'
  BY PartNext, NextLearner, NextReport
<1>3. IInv => ScreenOpensWithServer
  BY DEF Learner!IInv, Report!IInv, ScreenOpensWithServer
<1>. QED
  BY <1>1, <1>2, <1>3, PTL DEF Spec

(* However pulls overlap, are cancelled or fail, the room shows what they  *)
(* brought, each notification once.                                        *)
THEOREM NotesOnce == Spec => []NotesAreShownOnce
<1>. DEFINE IInv == part = "notice" => Notice!IInv
<1>1. Init => IInv
  BY PartInit, InitNotice
<1>2. IInv /\ [Next]_vars => IInv'
  BY PartNext, NextNotice
<1>3. IInv => NotesAreShownOnce
  BY DEF Notice!IInv, NotesAreShownOnce
<1>. QED
  BY <1>1, <1>2, <1>3, PTL DEF Spec

(* However answers and fetches overtake each other: a tab's pull request   *)
(* does not fall back to an older version, unless the server refused it,   *)
(* another tab overtook its request or an answer was made up.              *)
THEOREM ScreensMoveOn == Spec => ScreenNeverFallsBack
<1>. DEFINE IInv == part = "screen" => Screen!IInv
<1>1. Init => IInv
  BY PartInit, InitScreen
<1>2. IInv /\ [Next]_vars => IInv' /\ (part = "screen" => Screen!ScreenMovesOn)
  BY PartNext, NextScreen
<1>. QED
  BY <1>1, <1>2, PTL DEF Spec, ScreenNeverFallsBack
==============================================================================
