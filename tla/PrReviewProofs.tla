--------------------------- MODULE PrReviewProofs ---------------------------
(***************************************************************************)
(* Proofs about PrReview, for every set of users and every bound: versions *)
(* name contents, one user writes, every version is announced, and rounds  *)
(* follow one another as ReviewRounds promises.                            *)
(***************************************************************************)
EXTENDS PrReview, FiniteSetTheorems, TLAPS

(* What makes VersionNamesContent inductive: no client is ahead of the row. *)
Versioned ==
    /\ pr = [version |-> pr.version, round |-> pr.round, phase |-> pr.phase,
             comments |-> pr.comments]
    /\ pr.version \in Nat
    /\ DOMAIN seen = Users
    /\ \A u \in Users : seen[u].version \in Nat /\ seen[u].version <= pr.version

IInv == Versioned /\ VersionNamesContent

(* A snapshot of the next version is stored, and at most the client that   *)
(* asked for it shows it.                                                  *)
Step(next) ==
    /\ pr' = next
    /\ next = [version |-> pr.version + 1, round |-> next.round, phase |-> next.phase,
               comments |-> next.comments]
    /\ \E u \in Users : seen' = [seen EXCEPT ![u] = next] \/ seen' = seen

----------------------------------------------------------------------------
(* Every writing request stores a snapshot of the next version. *)

LEMMA StepKeeps ==
    ASSUME IInv, NEW next, Step(next)
    PROVE  IInv'
<1>1. PICK u \in Users : seen' = [seen EXCEPT ![u] = next] \/ seen' = seen
  BY DEF Step
<1>2. pr' = next /\ next.version = pr.version + 1
  BY DEF Step
<1>3. DOMAIN seen' = Users
  BY <1>1 DEF IInv, Versioned
<1>4. ASSUME NEW v \in Users
      PROVE  seen'[v] = next \/ seen'[v] = seen[v]
  BY <1>1 DEF IInv, Versioned
<1>5. Versioned'
  <2>1. pr' = [version |-> pr'.version, round |-> pr'.round, phase |-> pr'.phase,
               comments |-> pr'.comments]
    BY <1>2 DEF Step
  <2>2. pr'.version \in Nat
    BY <1>2 DEF IInv, Versioned
  <2>3. \A v \in Users : seen'[v].version \in Nat /\ seen'[v].version <= pr'.version
    BY <1>2, <1>4 DEF IInv, Versioned
  <2>. QED
    BY <1>3, <2>1, <2>2, <2>3 DEF Versioned
<1>6. VersionNamesContent'
  BY <1>2, <1>4 DEF IInv, Versioned, VersionNamesContent
<1>. QED
  BY <1>5, <1>6 DEF IInv

LEMMA SaveKeeps ==
    ASSUME IInv, NEW u \in Users, NEW round, NEW phase, NEW comments, NEW type,
           SaveAndPublish(u, Advanced(round, phase, comments), type)
    PROVE  IInv'
<1>1. Step(Advanced(round, phase, comments))
  BY DEF SaveAndPublish, Step, Advanced
<1>. QED
  BY <1>1, StepKeeps

LEMMA WritesKeep ==
    ASSUME IInv, NEW u \in Users,
           Submit(u) \/ PatchComment(u) \/ ReReview(u) \/ FinalApprove(u)
    PROVE  IInv'
<1>1. CASE Submit(u)
  BY <1>1, SaveKeeps DEF Submit
<1>2. CASE PatchComment(u)
  BY <1>2, SaveKeeps DEF PatchComment
<1>3. CASE ReReview(u)
  BY <1>3, SaveKeeps DEF ReReview
<1>4. CASE FinalApprove(u)
  BY <1>4, SaveKeeps DEF FinalApprove
<1>. QED
  BY <1>1, <1>2, <1>3, <1>4

----------------------------------------------------------------------------
(* The invariant holds at the start and is kept by every step. *)

LEMMA InitIInv == Init => IInv
BY DEF Init, IInv, Versioned, VersionNamesContent, IdlePr

LEMMA NextIInv ==
    ASSUME IInv, [Next]_vars
    PROVE  IInv'
<1>1. ASSUME NEW u \in Users, Get(u)
      PROVE  IInv'
  <2>1. pr' = pr /\ seen' = [seen EXCEPT ![u] = pr]
    BY <1>1 DEF Get
  <2>2. \A v \in Users : seen'[v] = pr \/ seen'[v] = seen[v]
    BY <2>1 DEF IInv, Versioned
  <2>3. Versioned'
    BY <2>1, <2>2 DEF IInv, Versioned
  <2>4. VersionNamesContent'
    BY <2>1, <2>2 DEF IInv, VersionNamesContent
  <2>. QED
    BY <2>3, <2>4 DEF IInv
<1>2. ASSUME UNCHANGED <<pr, seen>>
      PROVE  IInv'
  BY <1>2 DEF IInv, Versioned, VersionNamesContent
<1>3. ASSUME NEW u \in Users, SaveElsewhere(u) \/ VfsEvent(u)
      PROVE  IInv'
  BY <1>2, <1>3 DEF SaveElsewhere, VfsEvent
<1>4. CASE WebhookEvent
  BY <1>2, <1>4 DEF WebhookEvent
<1>5. CASE UNCHANGED vars
  BY <1>2, <1>5 DEF vars
<1>. QED
  BY <1>1, <1>3, <1>4, <1>5, WritesKeep DEF Next

(* A version names one snapshot: whatever the requests, a client whose     *)
(* version matches the row's shows what is stored.                         *)
THEOREM VersionsNameContents == Spec => []VersionNamesContent
<1>1. IInv => VersionNamesContent
  BY DEF IInv
<1>. QED
  BY <1>1, InitIInv, NextIInv, PTL DEF Spec

----------------------------------------------------------------------------
(* Ownership *)

(* Inductive together: nobody has written a row that nobody owns. *)
Claimed == OneAuthor /\ (owner = None => authors = {})

LEMMA ClaimKeeps ==
    ASSUME Claimed, NEW u \in Users, MayAccess(u),
           owner' = IF owner = None THEN u ELSE owner, authors' = authors \cup {u}
    PROVE  Claimed'
<1>1. owner' = u
  BY DEF MayAccess
<1>2. authors' \subseteq {u}
  BY DEF Claimed, OneAuthor, MayAccess
<1>. QED
  BY <1>1, <1>2, PrReviewAssumption DEF Claimed, OneAuthor

LEMMA NextClaimed ==
    ASSUME Claimed, [Next]_vars
    PROVE  Claimed'
<1>1. ASSUME NEW u \in Users,
             Submit(u) \/ PatchComment(u) \/ ReReview(u) \/ FinalApprove(u)
      PROVE  Claimed'
  BY <1>1, ClaimKeeps
     DEF Submit, PatchComment, ReReview, FinalApprove, Request, SaveAndPublish
<1>2. ASSUME NEW u \in Users, SaveElsewhere(u)
      PROVE  Claimed'
  BY <1>2, ClaimKeeps DEF SaveElsewhere
<1>3. ASSUME UNCHANGED <<owner, authors>>
      PROVE  Claimed'
  BY <1>3 DEF Claimed, OneAuthor
<1>4. ASSUME NEW u \in Users, Get(u) \/ VfsEvent(u)
      PROVE  Claimed'
  BY <1>3, <1>4 DEF Get, VfsEvent
<1>5. CASE WebhookEvent
  BY <1>3, <1>5 DEF WebhookEvent
<1>6. CASE UNCHANGED vars
  BY <1>3, <1>6 DEF vars
<1>. QED
  BY <1>1, <1>2, <1>4, <1>5, <1>6 DEF Next

(* Whoever writes a session first is the only one who ever writes to it,   *)
(* for any number of users.                                                *)
THEOREM OneWriter == Spec => []OneAuthor
<1>1. Init => Claimed
  BY DEF Init, Claimed, OneAuthor
<1>2. Claimed => OneAuthor
  BY DEF Claimed
<1>. QED
  BY <1>1, <1>2, NextClaimed, PTL DEF Spec

----------------------------------------------------------------------------
(* Types *)

(* The four requests that write a snapshot store one of these. *)
LEMMA NextSnapshot ==
    ASSUME TypeOK, pr.version < MaxVersion,
           NEW round \in 0..2, NEW phase \in {"idle", "open", "approved"},
           NEW comments \in UNION {[ids -> Status] : ids \in {{}, {"c1", "c2"}, {"c3", "c4"}}}
    PROVE  /\ Advanced(round, phase, comments) \in Snapshot
           /\ Advanced(round, phase, comments).version = pr.version + 1
BY PrReviewAssumption DEF TypeOK, Snapshot, Advanced

LEMMA SaveTyped ==
    ASSUME TypeOK, NEW u \in Users, NEW next \in Snapshot, next.version = pr.version + 1,
           NEW type \in PrEventTypes,
           SaveAndPublish(u, next, type), answered' \subseteq CommentId
    PROVE  TypeOK'
<1>1. next.version \in 1..MaxVersion
  BY DEF Snapshot
<1>2. CASE log' = Logged(type, next.version, "user") /\ seen' = [seen EXCEPT ![u] = next]
           /\ UNCHANGED unlogged
  <2>1. log'.prs \subseteq [type: PrEventTypes, version: 1..MaxVersion, by: {"user", "github"}]
    BY <1>1, <1>2 DEF TypeOK, Logged
  <2>2. log'.top \in 0..MaxVersion
    BY <1>1, <1>2 DEF TypeOK, Logged
  <2>. QED
    BY <1>2, <2>1, <2>2 DEF TypeOK, SaveAndPublish
<1>3. CASE unlogged' = unlogged \cup {next.version} /\ UNCHANGED <<log, seen>>
  BY <1>1, <1>3 DEF TypeOK, SaveAndPublish
<1>. QED
  BY <1>2, <1>3 DEF SaveAndPublish

LEMMA PatchedTyped ==
    ASSUME TypeOK, NEW c \in CommentId, NEW st \in Status
    PROVE  Patched(c, st) \in UNION {[ids -> Status] : ids \in {{}, {"c1", "c2"}, {"c3", "c4"}}}
<1>1. PICK ids \in {{}, {"c1", "c2"}, {"c3", "c4"}} : pr.comments \in [ids -> Status]
  BY DEF TypeOK, Snapshot
<1>2. Patched(c, st) \in [ids -> Status]
  BY <1>1 DEF Patched
<1>. QED
  BY <1>2

LEMMA WritesTyped ==
    ASSUME TypeOK, NEW u \in Users,
           Submit(u) \/ PatchComment(u) \/ ReReview(u) \/ FinalApprove(u)
    PROVE  TypeOK'
<1>. pr.round \in 0..2 /\ pr.phase \in {"idle", "open", "approved"}
     /\ pr.comments \in UNION {[ids -> Status] : ids \in {{}, {"c1", "c2"}, {"c3", "c4"}}}
     /\ answered \subseteq CommentId
  BY DEF TypeOK, Snapshot
<1>1. CASE Submit(u)
  <2>1. AllPending({"c1", "c2"}) \in [{"c1", "c2"} -> Status]
    BY DEF AllPending, Status
  <2>. QED
    BY <1>1, <2>1, NextSnapshot, SaveTyped DEF Submit, Request, PrEventTypes
<1>2. CASE PatchComment(u)
  <2>1. PICK c \in CommentId, st \in Status :
          /\ SaveAndPublish(u, Advanced(pr.round, pr.phase, Patched(c, st)), "PR_UPDATED")
          /\ answered' = IF c \in DOMAIN pr.comments /\ st # "pending"
                         THEN answered \cup {c} ELSE answered
    BY <1>2 DEF PatchComment
  <2>2. answered' \subseteq CommentId
    BY <2>1
  <2>3. pr.version < MaxVersion
    BY <1>2 DEF PatchComment, Request
  <2>. QED
    BY <2>1, <2>2, <2>3, PatchedTyped, NextSnapshot, SaveTyped DEF PrEventTypes
<1>3. CASE ReReview(u)
  <2>1. AllPending({"c3", "c4"}) \in [{"c3", "c4"} -> Status]
    BY DEF AllPending, Status
  <2>. QED
    BY <1>3, <2>1, NextSnapshot, SaveTyped DEF ReReview, Request, PrEventTypes
<1>4. CASE FinalApprove(u)
  BY <1>4, NextSnapshot, SaveTyped DEF FinalApprove, Request, PrEventTypes
<1>. QED
  BY <1>1, <1>2, <1>3, <1>4

LEMMA InitTyped == Init => TypeOK
<1>. SUFFICES ASSUME Init PROVE TypeOK
  OBVIOUS
<1>1. IdlePr \in Snapshot
  <2>1. <<>> \in [{} -> Status]
    OBVIOUS
  <2>. QED
    BY <2>1, PrReviewAssumption DEF IdlePr, Snapshot
<1>. QED
  BY <1>1, PrReviewAssumption DEF Init, TypeOK

LEMMA NextTyped ==
    ASSUME TypeOK, [Next]_vars
    PROVE  TypeOK'
<1>1. ASSUME NEW u \in Users, Get(u)
      PROVE  TypeOK'
  BY <1>1 DEF Get, TypeOK, Snapshot
<1>2. pr.version \in 0..MaxVersion /\ LoggedAtVersion.top \in 0..MaxVersion
      /\ LoggedAtVersion.prs = log.prs
  BY DEF TypeOK, Snapshot, LoggedAtVersion
<1>3. ASSUME NEW u \in Users, SaveElsewhere(u)
      PROVE  TypeOK'
  BY <1>2, <1>3 DEF SaveElsewhere, TypeOK
<1>4. ASSUME NEW u \in Users, VfsEvent(u)
      PROVE  TypeOK'
  BY <1>2, <1>4 DEF VfsEvent, TypeOK
<1>5. CASE WebhookEvent
  <2>1. PICK type \in PrEventTypes \cup {"other"} : log' = Logged(type, log.top + 1, "github")
    BY <1>5 DEF WebhookEvent
  <2>2. log.top + 1 \in 1..MaxVersion
    BY <1>5, PrReviewAssumption DEF WebhookEvent, TypeOK
  <2>3. log'.top = log.top + 1
    BY <2>1, <2>2 DEF Logged, TypeOK
  <2>4. log'.prs \subseteq [type: PrEventTypes, version: 1..MaxVersion, by: {"user", "github"}]
    BY <2>1, <2>2 DEF Logged, TypeOK
  <2>. QED
    BY <1>5, <2>2, <2>3, <2>4 DEF WebhookEvent, TypeOK
<1>6. CASE UNCHANGED vars
  BY <1>6 DEF vars, TypeOK
<1>. QED
  BY <1>1, <1>3, <1>4, <1>5, <1>6, WritesTyped DEF Next

(* Row, screens and log keep their types, whatever clients ask. *)
THEOREM ReviewTyped == Spec => []TypeOK
BY InitTyped, NextTyped, PTL DEF Spec


----------------------------------------------------------------------------
(* Announcements.  Inductive together: no event and no failure of the      *)
(* review is of a version that the row has not reached, and no event of    *)
(* GitHub of one that the log has not reached.                             *)

ByUser(v) == {e \in log.prs : e.by = "user" /\ e.version = v}

ByGithub == {e \in log.prs : e.by = "github"}

Announced ==
    /\ TypeOK
    /\ \A e \in log.prs : e.by = "user" => e.version <= pr.version
    /\ \A v \in unlogged : v <= pr.version
    /\ \A e \in ByGithub : e.version <= log.top
    /\ EveryVersionAnnounced

LEMMA AnnouncedParts ==
    EveryVersionAnnounced <=>
        /\ \A v \in 2..pr.version : Cardinality(ByUser(v)) = IF v \in unlogged THEN 0 ELSE 1
        /\ \A e, f \in ByGithub : e.version = f.version => e = f
BY DEF EveryVersionAnnounced, ByUser, ByGithub

LEMMA SaveAnnounces ==
    ASSUME Announced, NEW u \in Users, NEW next, next.version = pr.version + 1,
           NEW type \in PrEventTypes,
           SaveAndPublish(u, next, type), TypeOK'
    PROVE  Announced'
<1>. DEFINE new == [type |-> type, version |-> next.version, by |-> "user"]
<1>1. pr.version \in Nat /\ pr'.version = pr.version + 1 /\ next.version = pr.version + 1
  BY PrReviewAssumption DEF Announced, TypeOK, Snapshot, SaveAndPublish
<1>2. \A e \in log.prs : e.version \in Nat /\ (e.by = "user" => e.version <= pr.version)
  BY DEF Announced, TypeOK
<1>3. \A v \in unlogged : v \in Nat /\ v <= pr.version
  BY DEF Announced, TypeOK
<1>4. ByUser(next.version) = {}
  BY <1>1, <1>2 DEF ByUser
<1>5. next.version \notin unlogged
  BY <1>1, <1>3
<1>6. ASSUME NEW v \in 2..pr.version
      PROVE  Cardinality(ByUser(v)) = IF v \in unlogged THEN 0 ELSE 1
  BY <1>6, AnnouncedParts DEF Announced
<1>7. CASE log' = Logged(type, next.version, "user") /\ unlogged' = unlogged
  <2>1. log'.prs = log.prs \cup {new}
    BY <1>7 DEF Logged
  <2>2. \A e \in log'.prs : e.by = "user" => e.version <= pr'.version
    BY <1>1, <1>2, <2>1
  <2>3. \A v \in unlogged' : v <= pr'.version
    BY <1>1, <1>3, <1>7
  <2>4. ByGithub' = ByGithub
    BY <2>1 DEF ByGithub
  <2>5. \A e \in ByGithub' : e.version <= log'.top
    <3>1. log.top \in Nat /\ log'.top \in Nat /\ log.top <= log'.top
      BY <1>1, <1>7 DEF Logged, Announced, TypeOK
    <3>2. \A e \in ByGithub : e.version \in Nat /\ e.version <= log.top
      BY <1>2 DEF Announced, ByGithub
    <3>. QED
      BY <2>4, <3>1, <3>2
  <2>6. ASSUME NEW v \in 2..pr'.version
        PROVE  Cardinality(ByUser(v)') = IF v \in unlogged' THEN 0 ELSE 1
    <3>1. CASE v = next.version
      <4>1. ByUser(v)' = {new}
        BY <1>4, <2>1, <3>1 DEF ByUser
      <4>. QED
        BY <1>5, <1>7, <3>1, <4>1, FS_Singleton
    <3>2. CASE v # next.version
      <4>1. v \in 2..pr.version
        BY <1>1, <3>2
      <4>2. ByUser(v)' = ByUser(v)
        BY <2>1, <3>2 DEF ByUser
      <4>. QED
        BY <1>6, <1>7, <4>1, <4>2
    <3>. QED
      BY <3>1, <3>2
  <2>7. EveryVersionAnnounced'
    <3>1. \A e, f \in ByGithub' : e.version = f.version => e = f
      BY <2>4, AnnouncedParts DEF Announced
    <3>. QED
      BY <2>6, <3>1 DEF EveryVersionAnnounced, ByUser, ByGithub
  <2>. QED
    BY <2>2, <2>3, <2>5, <2>7 DEF Announced
<1>8. CASE unlogged' = unlogged \cup {next.version} /\ log' = log
  <2>1. \A e \in log'.prs : e.by = "user" => e.version <= pr'.version
    BY <1>1, <1>2, <1>8
  <2>2. \A v \in unlogged' : v <= pr'.version
    BY <1>1, <1>3, <1>8
  <2>3. ByGithub' = ByGithub /\ \A e \in ByGithub' : e.version <= log'.top
    BY <1>8 DEF ByGithub, Announced
  <2>4. ASSUME NEW v \in 2..pr'.version
        PROVE  Cardinality(ByUser(v)') = IF v \in unlogged' THEN 0 ELSE 1
    <3>1. ByUser(v)' = ByUser(v)
      BY <1>8 DEF ByUser
    <3>2. CASE v = next.version
      BY <1>4, <1>8, <3>1, <3>2, FS_EmptySet
    <3>3. CASE v # next.version
      <4>1. v \in 2..pr.version
        BY <1>1, <3>3
      <4>. QED
        BY <1>6, <1>8, <3>1, <3>3, <4>1
    <3>. QED
      BY <3>2, <3>3
  <2>5. EveryVersionAnnounced'
    <3>1. \A e, f \in ByGithub' : e.version = f.version => e = f
      BY <2>3, AnnouncedParts DEF Announced
    <3>. QED
      BY <2>4, <3>1 DEF EveryVersionAnnounced, ByUser, ByGithub
  <2>. QED
    BY <2>1, <2>2, <2>3, <2>5 DEF Announced
<1>. QED
  BY <1>7, <1>8 DEF SaveAndPublish

(* A delivery of GitHub takes a version that no event has. *)
LEMMA WebhookAnnounces ==
    ASSUME Announced, WebhookEvent, TypeOK'
    PROVE  Announced'
<1>1. PICK type \in PrEventTypes \cup {"other"} : log' = Logged(type, log.top + 1, "github")
  BY DEF WebhookEvent
<1>. DEFINE new == [type |-> type, version |-> log.top + 1, by |-> "github"]
<1>2. log.top \in Nat /\ log'.top = log.top + 1 /\ UNCHANGED <<pr, unlogged>>
  BY <1>1 DEF WebhookEvent, Logged, Announced, TypeOK
<1>3. log'.prs = log.prs \/ log'.prs = log.prs \cup {new}
  BY <1>1 DEF Logged
<1>4. \A v : ByUser(v)' = ByUser(v)
  BY <1>3 DEF ByUser
<1>5. \A e \in ByGithub' : e \in ByGithub \/ e = new
  BY <1>3 DEF ByGithub
<1>6. \A e \in ByGithub : e.version \in Nat /\ e.version <= log.top
  BY DEF Announced, TypeOK, ByGithub
<1>7. new.version = log.top + 1
  OBVIOUS
<1>8. \A e \in ByGithub' : e.version <= log'.top
  BY <1>2, <1>5, <1>6, <1>7
<1>9. \A e, f \in ByGithub' : e.version = f.version => e = f
  <2>1. \A e, f \in ByGithub : e.version = f.version => e = f
    BY AnnouncedParts DEF Announced
  <2>. QED
    BY <1>2, <1>5, <1>6, <1>7, <2>1
<1>10. \A e \in log'.prs : e.by = "user" => e.version <= pr'.version
  <2>1. new.by = "github"
    OBVIOUS
  <2>. QED
    BY <1>2, <1>3, <2>1 DEF Announced
<1>11. \A v \in 2..pr'.version : Cardinality(ByUser(v)') = IF v \in unlogged' THEN 0 ELSE 1
  BY <1>2, <1>4, AnnouncedParts DEF Announced
<1>12. EveryVersionAnnounced'
  BY <1>9, <1>11 DEF EveryVersionAnnounced, ByUser, ByGithub
<1>. QED
  BY <1>2, <1>8, <1>10, <1>12 DEF Announced

LEMMA NextAnnounced ==
    ASSUME Announced, [Next]_vars
    PROVE  Announced'
<1>1. TypeOK'
  BY NextTyped DEF Announced
<1>2. ASSUME NEW u \in Users, Submit(u) \/ PatchComment(u) \/ ReReview(u) \/ FinalApprove(u)
      PROVE  Announced'
  <2>1. \A round, phase, comments :
           Advanced(round, phase, comments).version = pr.version + 1
    BY DEF Advanced
  <2>2. CASE Submit(u)
    BY <1>1, <2>1, <2>2, SaveAnnounces DEF Submit, PrEventTypes
  <2>3. CASE PatchComment(u)
    BY <1>1, <2>1, <2>3, SaveAnnounces DEF PatchComment, PrEventTypes
  <2>4. CASE ReReview(u)
    BY <1>1, <2>1, <2>4, SaveAnnounces DEF ReReview, PrEventTypes
  <2>5. CASE FinalApprove(u)
    BY <1>1, <2>1, <2>5, SaveAnnounces DEF FinalApprove, PrEventTypes
  <2>. QED
    BY <1>2, <2>2, <2>3, <2>4, <2>5
<1>3. ASSUME UNCHANGED <<pr, unlogged>>, log'.prs = log.prs, log'.top >= log.top
      PROVE  Announced'
  <2>1. ByGithub' = ByGithub /\ EveryVersionAnnounced'
    BY <1>3 DEF ByGithub, Announced, EveryVersionAnnounced
  <2>2. \A e \in ByGithub : e.version \in Nat /\ e.version <= log.top
    BY DEF Announced, TypeOK, ByGithub
  <2>3. log.top \in Nat /\ log'.top \in Nat
    BY <1>1 DEF Announced, TypeOK
  <2>4. \A e \in ByGithub' : e.version <= log'.top
    BY <1>3, <2>1, <2>2, <2>3
  <2>. QED
    BY <1>1, <1>3, <2>1, <2>4 DEF Announced
<1>4. ASSUME NEW u \in Users, Get(u) \/ SaveElsewhere(u) \/ VfsEvent(u)
      PROVE  Announced'
  <2>1. log.top \in Nat /\ pr.version \in Nat
    BY PrReviewAssumption DEF Announced, TypeOK, Snapshot
  <2>2. LoggedAtVersion.prs = log.prs /\ LoggedAtVersion.top >= log.top
    BY <2>1 DEF LoggedAtVersion, Announced, TypeOK
  <2>3. UNCHANGED <<pr, unlogged>> /\ log'.prs = log.prs /\ log'.top >= log.top
    BY <1>4, <2>1, <2>2 DEF Get, SaveElsewhere, VfsEvent
  <2>. QED
    BY <1>3, <2>3
<1>5. CASE WebhookEvent
  BY <1>1, <1>5, WebhookAnnounces
<1>6. CASE UNCHANGED vars
  BY <1>3, <1>6 DEF vars, Announced, TypeOK
<1>. QED
  BY <1>2, <1>4, <1>5, <1>6 DEF Next

(* Every version after the first is announced by exactly one event of the  *)
(* review, unless logging it failed, and no two events of GitHub have one  *)
(* version, for any number of users, requests and deliveries.              *)
THEOREM VersionsAnnounced == Spec => []EveryVersionAnnounced
<1>1. Init => Announced
  BY InitTyped DEF Init, Announced, EveryVersionAnnounced, ByGithub, IdlePr
<1>2. Announced => EveryVersionAnnounced
  BY DEF Announced
<1>. QED
  BY <1>1, <1>2, NextAnnounced, PTL DEF Spec

----------------------------------------------------------------------------
(* Rounds.  The comments of the row are those of its round, and one that   *)
(* is not pending has been answered.                                       *)

Reviewed ==
    /\ TypeOK
    /\ pr.phase = "idle" <=> pr.round = 0
    /\ pr.phase = "approved" => pr.round = 2
    /\ DOMAIN pr.comments = Rounds!CommentsOf(pr.round)
    /\ \A c \in DOMAIN pr.comments : pr.comments[c] # "pending" => c \in answered

LEMMA CommentsOfRounds ==
    /\ Rounds!CommentsOf(0) = {}
    /\ Rounds!CommentsOf(1) = {"c1", "c2"}
    /\ Rounds!CommentsOf(2) = {"c3", "c4"}
BY DEF Rounds!CommentsOf

(* A step of the pull request is a step of the rounds, or a stutter, and   *)
(* keeps the invariant.                                                    *)
LEMMA NextReviewed ==
    ASSUME Reviewed, [Next]_vars
    PROVE  Reviewed' /\ [Rounds!Next]_(Rounds!vars)
<1>1. TypeOK'
  BY NextTyped DEF Reviewed
<1>2. pr.round \in 0..2 /\ pr.phase \in {"idle", "open", "approved"}
      /\ pr = [version |-> pr.version, round |-> pr.round, phase |-> pr.phase,
               comments |-> pr.comments]
  BY DEF Reviewed, TypeOK, Snapshot
<1>3. ASSUME NEW u \in Users, Submit(u)
      PROVE  Reviewed' /\ Rounds!Next
  <2>1. pr' = Advanced(1, "open", AllPending({"c1", "c2"})) /\ pr.phase = "idle"
        /\ answered' = answered
    BY <1>3 DEF Submit, SaveAndPublish
  <2>2. pr'.round = 1 /\ pr'.phase = "open" /\ pr'.comments = AllPending({"c1", "c2"})
    BY <2>1 DEF Advanced
  <2>3. Reviewed'
    BY <1>1, <2>2, CommentsOfRounds DEF Reviewed, AllPending
  <2>4. Rounds!Advance
    BY <2>1, <2>2, CommentsOfRounds DEF Rounds!Advance, Reviewed
  <2>. QED
    BY <2>3, <2>4 DEF Rounds!Next
<1>4. ASSUME NEW u \in Users, PatchComment(u)
      PROVE  Reviewed' /\ [Rounds!Next]_(Rounds!vars)
  <2>1. PICK c \in CommentId, st \in Status :
          /\ pr' = Advanced(pr.round, pr.phase, Patched(c, st))
          /\ answered' = IF c \in DOMAIN pr.comments /\ st # "pending"
                         THEN answered \cup {c} ELSE answered
    BY <1>4 DEF PatchComment, SaveAndPublish
  <2>2. pr'.round = pr.round /\ pr'.phase = pr.phase /\ pr'.comments = Patched(c, st)
    BY <2>1 DEF Advanced
  <2>3. Reviewed'
    BY <1>1, <2>1, <2>2 DEF Reviewed, Patched
  <2>4. c \in Rounds!CommentsOf(1) \cup Rounds!CommentsOf(2)
    BY CommentsOfRounds DEF CommentId
  <2>5. CASE answered' = answered \cup {c}
    BY <2>2, <2>3, <2>4, <2>5 DEF Rounds!Next, Rounds!Answer
  <2>6. CASE answered' = answered
    BY <2>2, <2>3, <2>6 DEF Rounds!vars
  <2>. QED
    BY <2>1, <2>3, <2>5, <2>6
<1>5. ASSUME NEW u \in Users, ReReview(u)
      PROVE  Reviewed' /\ Rounds!Next
  <2>1. pr' = Advanced(2, "open", AllPending({"c3", "c4"})) /\ pr.round = 1 /\ pr.phase = "open"
        /\ AllResolved(pr.comments) /\ answered' = answered
    BY <1>5 DEF ReReview, SaveAndPublish
  <2>2. pr'.round = 2 /\ pr'.phase = "open" /\ pr'.comments = AllPending({"c3", "c4"})
    BY <2>1 DEF Advanced
  <2>3. Reviewed'
    BY <1>1, <2>2, CommentsOfRounds DEF Reviewed, AllPending
  <2>4. Rounds!CommentsOf(1) \subseteq answered
    BY <2>1 DEF Reviewed, AllResolved
  <2>5. Rounds!Advance
    BY <2>1, <2>2, <2>4 DEF Rounds!Advance
  <2>. QED
    BY <2>3, <2>5 DEF Rounds!Next
<1>6. ASSUME NEW u \in Users, FinalApprove(u)
      PROVE  Reviewed' /\ Rounds!Next
  <2>1. pr' = Advanced(pr.round, "approved", pr.comments) /\ pr.round = 2 /\ pr.phase = "open"
        /\ AllResolved(pr.comments) /\ answered' = answered
    BY <1>2, <1>6 DEF FinalApprove, SaveAndPublish
  <2>2. pr'.round = 2 /\ pr'.phase = "approved" /\ pr'.comments = pr.comments
    BY <2>1 DEF Advanced
  <2>3. Reviewed'
    BY <1>1, <2>1, <2>2 DEF Reviewed
  <2>4. Rounds!CommentsOf(2) \subseteq answered
    BY <2>1 DEF Reviewed, AllResolved
  <2>5. Rounds!Advance
    BY <2>1, <2>2, <2>4 DEF Rounds!Advance
  <2>. QED
    BY <2>3, <2>5 DEF Rounds!Next
<1>7. ASSUME UNCHANGED <<pr, answered>>
      PROVE  Reviewed' /\ UNCHANGED Rounds!vars
  BY <1>1, <1>7 DEF Reviewed, Rounds!vars
<1>8. ASSUME NEW u \in Users, Get(u) \/ SaveElsewhere(u) \/ VfsEvent(u)
      PROVE  Reviewed' /\ UNCHANGED Rounds!vars
  BY <1>7, <1>8 DEF Get, SaveElsewhere, VfsEvent
<1>9. CASE WebhookEvent
  BY <1>7, <1>9 DEF WebhookEvent
<1>10. CASE UNCHANGED vars
  BY <1>7, <1>10 DEF vars
<1>. QED
  BY <1>3, <1>4, <1>5, <1>6, <1>8, <1>9, <1>10 DEF Next

(* The pull request keeps the order of ReviewRounds: no round ends before  *)
(* each of its comments was answered, for any users, versions and clients. *)
THEOREM RoundsImplemented == Spec => ImplementsReviewRounds
<1>1. Init => Reviewed
  BY InitTyped, CommentsOfRounds DEF Init, Reviewed, IdlePr
<1>2. Init => Rounds!Init
  BY DEF Init, IdlePr, Rounds!Init
<1>. QED
  BY <1>1, <1>2, NextReviewed, PTL DEF Spec, ImplementsReviewRounds, Rounds!Spec

=============================================================================
