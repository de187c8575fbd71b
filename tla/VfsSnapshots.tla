---------------------------- MODULE VfsSnapshots ----------------------------
(***************************************************************************)
(* Snapshots of an agent's files and their approval (vfs.controller.ts,    *)
(* vfs.service.ts).  A snapshot is a JSON file; an index in SQLite         *)
(* (workspace-persistence.service.ts) repeats its status for listings, and *)
(* events announce its creation and its approval.                          *)
(*                                                                         *)
(* File, event and index are three writes with awaits in between, so other *)
(* handlers run, an await may reject and the process may die between any   *)
(* two of them.                                                            *)
(***************************************************************************)
EXTENDS Naturals, FiniteSets

CONSTANTS
    Snapshots,      \* the snapshots agents create, one request each
    Approvers,      \* the approval requests in progress at one time
    None,           \* no snapshot
    MaxApprovals    \* bound on the approvals logged for a snapshot (model bound)

VARIABLES
    file,       \* vfs-store: the status in each snapshot's file
    index,      \* vfs_snapshot_index: the status it shows
    created,    \* the snapshots whose VFS_SNAPSHOT_CREATED is logged
    approvals,  \* the VFS_APPROVED events logged for each snapshot
    creators,   \* how far each snapshot's creation has come
    approvers,  \* what each approval request is doing, with its copy of the status
    broken      \* history variable: snapshots a request of which failed, or whose
                \* approval was indexed before their creation

vars == <<file, index, created, approvals, creators, approvers, broken>>

Status == {"absent", "pending", "approved"}

Idle == [pc |-> "idle", snapshot |-> None, copy |-> "absent", began |-> "absent"]

Init ==
    /\ file = [s \in Snapshots |-> "absent"]
    /\ index = [s \in Snapshots |-> "absent"]
    /\ created = {}
    /\ approvals = [s \in Snapshots |-> 0]
    /\ creators = [s \in Snapshots |-> "new"]
    /\ approvers = [a \in Approvers |-> Idle]
    /\ broken = {}

----------------------------------------------------------------------------
(* createSnapshot *)

CreateSnapshot(s) ==
    /\ creators[s] = "new"
    /\ file' = [file EXCEPT ![s] = "pending"]
    /\ creators' = [creators EXCEPT ![s] = "saved"]
    /\ UNCHANGED <<index, created, approvals, approvers, broken>>

CreateAnnounced(s) ==
    /\ creators[s] = "saved"
    /\ created' = created \cup {s}
    /\ creators' = [creators EXCEPT ![s] = "announced"]
    /\ UNCHANGED <<file, index, approvals, approvers, broken>>

(* upsertVfsSnapshotIndex: an existing row takes the new status. *)
CreateIndexed(s) ==
    /\ creators[s] = "announced"
    /\ index' = [index EXCEPT ![s] = "pending"]
    /\ creators' = [creators EXCEPT ![s] = "done"]
    /\ broken' = IF index[s] = "absent" THEN broken ELSE broken \cup {s}
    /\ UNCHANGED <<file, created, approvals, approvers>>

----------------------------------------------------------------------------
(* approveSnapshot *)

At(a, pc) == approvers[a].pc = pc

Becomes(a, pc) == approvers' = [approvers EXCEPT ![a].pc = pc]

(* The snapshot's id is known from its event; the file is read once to     *)
(* find the session and its owner...                                       *)
ApproveBegins(a, s) ==
    /\ At(a, "idle")
    /\ s \in created
    /\ file[s] # "absent"
    /\ approvers' = [approvers EXCEPT ![a] =
          [pc |-> "read", snapshot |-> s, copy |-> "absent", began |-> file[s]]]
    /\ UNCHANGED <<file, index, created, approvals, creators, broken>>

(* ... and again by the service. *)
ApproveLoads(a) ==
    /\ At(a, "read")
    /\ approvers' = [approvers EXCEPT ![a].pc = "loaded", ![a].copy = file[approvers[a].snapshot]]
    /\ UNCHANGED <<file, index, created, approvals, creators, broken>>

Refused(a) ==
    /\ At(a, "loaded") /\ approvers[a].copy # "pending"
    /\ approvers' = [approvers EXCEPT ![a] = Idle]
    /\ UNCHANGED <<file, index, created, approvals, creators, broken>>

ApproveSaves(a) ==
    /\ At(a, "loaded") /\ approvers[a].copy = "pending"
    /\ file' = [file EXCEPT ![approvers[a].snapshot] = "approved"]
    /\ Becomes(a, "saved")
    /\ UNCHANGED <<index, created, approvals, creators, broken>>

ApproveAnnounced(a) ==
    /\ At(a, "saved")
    /\ approvals[approvers[a].snapshot] < MaxApprovals
    /\ approvals' = [approvals EXCEPT ![approvers[a].snapshot] = @ + 1]
    /\ Becomes(a, "announced")
    /\ UNCHANGED <<file, index, created, creators, broken>>

(* Mutant: the status read when the request began is indexed. *)
ApproveIndexedOld(a) ==
    /\ At(a, "announced")
    /\ index' = [index EXCEPT ![approvers[a].snapshot] = approvers[a].began]
    /\ approvers' = [approvers EXCEPT ![a] = Idle]
    /\ UNCHANGED <<file, created, approvals, creators, broken>>

ApproveIndexed(a) ==
    /\ At(a, "announced")
    /\ index' = [index EXCEPT ![approvers[a].snapshot] = "approved"]
    /\ approvers' = [approvers EXCEPT ![a] = Idle]
    /\ UNCHANGED <<file, created, approvals, creators, broken>>

----------------------------------------------------------------------------
(* An await rejects: the file cannot be written, the event not logged. *)

CreateFails(s) ==
    /\ creators[s] \in {"saved", "announced"}
    /\ creators' = [creators EXCEPT ![s] = "done"]
    /\ broken' = broken \cup {s}
    /\ UNCHANGED <<file, index, created, approvals, approvers>>

ApproveFails(a) ==
    /\ approvers[a].pc \in {"saved", "announced"}
    /\ approvers' = [approvers EXCEPT ![a] = Idle]
    /\ broken' = broken \cup {approvers[a].snapshot}
    /\ UNCHANGED <<file, index, created, approvals, creators>>

(* The process dies: every request in progress is lost. *)
Crash ==
    LET halfMade == {s \in Snapshots : creators[s] \in {"saved", "announced"}}
        approved == {approvers[a].snapshot : a \in {b \in Approvers : approvers[b].pc # "idle"}}
    IN  /\ halfMade \cup approved # {}
        /\ creators' = [s \in Snapshots |-> IF s \in halfMade THEN "done" ELSE creators[s]]
        /\ approvers' = [a \in Approvers |-> Idle]
        /\ broken' = broken \cup halfMade \cup approved
        /\ UNCHANGED <<file, index, created, approvals>>

Next ==
    \/ \E s \in Snapshots :
          CreateSnapshot(s) \/ CreateAnnounced(s) \/ CreateIndexed(s) \/ CreateFails(s)
    \/ \E a \in Approvers, s \in Snapshots : ApproveBegins(a, s)
    \/ \E a \in Approvers :
          \/ ApproveLoads(a) \/ Refused(a) \/ ApproveSaves(a)
          \/ ApproveAnnounced(a) \/ ApproveIndexed(a) \/ ApproveFails(a)
    \/ Crash

Spec == Init /\ [][Next]_vars

----------------------------------------------------------------------------
(* Properties *)

(* Files, index, events and requests keep their types. *)
TypeOK ==
    /\ file \in [Snapshots -> Status]
    /\ index \in [Snapshots -> Status]
    /\ created \subseteq Snapshots
    /\ approvals \in [Snapshots -> 0..MaxApprovals]
    /\ creators \in [Snapshots -> {"new", "saved", "announced", "done"}]
    /\ approvers \in [Approvers ->
          [pc: {"idle", "read", "loaded", "saved", "announced"},
           snapshot: Snapshots \cup {None}, copy: Status, began: Status]]
    /\ broken \subseteq Snapshots

(* The index is never ahead: it shows an approval only when the file holds *)
(* it and an event has announced it; and with no request for a snapshot    *)
(* under way it shows what the file holds, unless a request died between   *)
(* its writes or an approval was indexed before the creation.              *)
IndexFollowsFile ==
    \A s \in Snapshots :
        /\ index[s] = "approved" => file[s] = "approved" /\ approvals[s] > 0
        /\ ( /\ creators[s] = "done"
             /\ \A a \in Approvers : approvers[a].snapshot # s
             /\ s \notin broken ) => index[s] = file[s]

(* What makes IndexFollowsFile inductive: what was begun of a snapshot and *)
(* of its approvals, and who will index an approval that is not indexed.   *)
SnapshotsAreBegun ==
    \A s \in Snapshots : (creators[s] = "new" <=> file[s] = "absent")
                         /\ (s \in created => creators[s] # "new")

ApprovalsAreBegun ==
    \A a \in Approvers : ~At(a, "idle") =>
        LET s == approvers[a].snapshot
        IN  /\ s \in Snapshots /\ file[s] # "absent"
            /\ At(a, "saved") \/ At(a, "announced") => file[s] = "approved"
            /\ At(a, "announced") => approvals[s] > 0

IndexWillFollow ==
    \A s \in Snapshots \ broken :
        /\ file[s] = "approved" =>
              \/ index[s] = "approved"
              \/ \E a \in Approvers : approvers[a].snapshot = s /\ (At(a, "saved") \/ At(a, "announced"))
        /\ creators[s] = "done" => index[s] # "absent"

IInv ==
    /\ TypeOK /\ SnapshotsAreBegun /\ ApprovalsAreBegun /\ IndexWillFollow
    /\ \A s \in Snapshots : index[s] = "approved" => file[s] = "approved" /\ approvals[s] > 0

==============================================================================
