----------------------------- MODULE ChatNotices -----------------------------
(***************************************************************************)
(* Notifications in the learner's chat (workspace-app.tsx): the page polls *)
(* the server and puts them among the messages.                            *)
(*                                                                         *)
(* Every pull is a fetch that is awaited; pulls overlap each other, and    *)
(* the role snapshot may be loaded again, which empties the room and       *)
(* starts the polling anew.                                                *)
(***************************************************************************)
EXTENDS Naturals, Sequences, SequencesExt

CONSTANTS
    Notes,          \* the notifications that may be sent
    Discussions,    \* the ones whose kind begins with discussion_
    Pulls           \* the pulls in progress at one time

VARIABLES
    sent,       \* the notifications the server has
    primed,     \* inAppNotifsPrimed
    seen,       \* seenInAppNotifIds
    ready,      \* whether the role snapshot is there (the page polls only then)
    pulls,      \* each pull: under way, with the list it got; cancelled with its effect
    room,       \* the notifications among the messages
    silent      \* history variable: notifications the room was not to show, or has lost

vars == <<sent, primed, seen, ready, pulls, room, silent>>

Free == [going |-> FALSE, got |-> FALSE, list |-> {}, cancelled |-> FALSE]

Init ==
    /\ sent = {} /\ primed = FALSE /\ seen = {} /\ ready = FALSE
    /\ pulls = [p \in Pulls |-> Free]
    /\ room = <<>> /\ silent = {}

----------------------------------------------------------------------------

NoteSent(n) ==
    /\ n \notin sent
    /\ sent' = sent \cup {n}
    /\ UNCHANGED <<primed, seen, ready, pulls, room, silent>>

Shown == {room[i] : i \in DOMAIN room}

(* loadRoleGap: the room begins anew, the polling too. *)
LoadsRoles ==
    /\ ready' = TRUE
    /\ room' = <<>>
    /\ silent' = silent \cup Shown
    /\ pulls' = [p \in Pulls |-> [pulls[p] EXCEPT !.cancelled = pulls[p].going]]
    /\ UNCHANGED <<sent, primed, seen>>

PullBegins(p) ==
    /\ ready /\ ~pulls[p].going
    /\ pulls' = [pulls EXCEPT ![p] = [Free EXCEPT !.going = TRUE]]
    /\ UNCHANGED <<sent, primed, seen, ready, room, silent>>

PullServed(p) ==
    /\ pulls[p].going /\ ~pulls[p].got
    /\ pulls' = [pulls EXCEPT ![p].got = TRUE, ![p].list = sent]
    /\ UNCHANGED <<sent, primed, seen, ready, room, silent>>

(* Mutant: the first list is shown, and not remembered as seen. *)
MergedUnprimed(list) ==
    IF ~primed
    THEN /\ room' = room \o SetToSeq(list \cap Discussions)
         /\ primed' = TRUE
         /\ silent' = silent \cup (list \ Discussions)
         /\ UNCHANGED seen
    ELSE /\ room' = room \o SetToSeq(list \ seen)
         /\ seen' = seen \cup list
         /\ UNCHANGED <<primed, silent>>

(* pullAndMerge, after its await: of the first list only the discussions   *)
(* are shown, of the later ones what has not been seen.                    *)
Merged(list) ==
    IF ~primed
    THEN /\ room' = room \o SetToSeq(list \cap Discussions)
         /\ primed' = TRUE
         /\ seen' = seen \cup list
         /\ silent' = silent \cup (list \ Discussions)
    ELSE /\ room' = room \o SetToSeq(list \ seen)
         /\ seen' = seen \cup list
         /\ UNCHANGED <<primed, silent>>

PullArrives(p) ==
    /\ pulls[p].got
    /\ IF pulls[p].cancelled THEN UNCHANGED <<primed, seen, room, silent>>
                             ELSE Merged(pulls[p].list)
    /\ pulls' = [pulls EXCEPT ![p] = Free]
    /\ UNCHANGED <<sent, ready>>

PullFails(p) ==
    /\ pulls[p].going
    /\ pulls' = [pulls EXCEPT ![p] = Free]
    /\ UNCHANGED <<sent, primed, seen, ready, room, silent>>

Next ==
    \/ LoadsRoles
    \/ \E n \in Notes : NoteSent(n)
    \/ \E p \in Pulls : PullBegins(p) \/ PullServed(p) \/ PullArrives(p) \/ PullFails(p)

Spec == Init /\ [][Next]_vars

----------------------------------------------------------------------------
(* Properties *)

(* The notifications and the pulls keep their types. *)
TypeOK ==
    /\ sent \subseteq Notes /\ seen \subseteq sent /\ silent \subseteq sent
    /\ primed \in BOOLEAN /\ ready \in BOOLEAN
    /\ room \in Seq(Notes)
    /\ pulls \in [Pulls -> [going: BOOLEAN, got: BOOLEAN, list: SUBSET Notes, cancelled: BOOLEAN]]

(* However pulls overlap, are cancelled or fail, the room shows a          *)
(* notification that a pull brought once, and no other; but a first list   *)
(* is shown without what is not a discussion, and a room that begins anew  *)
(* is without what it showed before.                                       *)
NotesAreShownOnce ==
    /\ Shown = seen \ silent
    /\ \A i, j \in DOMAIN room : room[i] = room[j] => i = j

----------------------------------------------------------------------------
(* The inductive invariant of the proofs. *)

IInv ==
    /\ TypeOK /\ IsFiniteSet(sent)
    /\ \A p \in Pulls : pulls[p].list \subseteq sent
    /\ seen \subseteq sent /\ silent \subseteq seen /\ (~primed => room = <<>> /\ seen = {})
    /\ NotesAreShownOnce

==============================================================================
