------------------------------ MODULE PrScreen ------------------------------
(***************************************************************************)
(* The pull request on a learner's screen (workspace-app.tsx,              *)
(* pr-review-service.ts, pr-persist.ts) in several tabs of one account.    *)
(* A tab sends the version it shows, or makes up the answer itself when    *)
(* the server does not give one; the snapshot it fetches when it loads     *)
(* arrives whenever it does.                                               *)
(*                                                                         *)
(* The server is PrReview's, reduced to how many comments are pending; it  *)
(* refuses a request with HTTP status 200 and a body that says so.         *)
(***************************************************************************)
EXTENDS Naturals

CONSTANTS
    Tabs,
    MaxVersion  \* bound on the version (model bound)

VARIABLES
    server,     \* the snapshot on the server
    shown,      \* prSnap of each tab
    stored,     \* the snapshot in each tab's sessionStorage
    asked,      \* each tab's request: what it asks, the snapshot it started from, the answer
    fetched,    \* each tab's GET: whether one is under way, and its answer
    upset       \* history variable: the tabs that made up an answer, or had one overtaken

vars == <<server, shown, stored, asked, fetched, upset>>

Comments == 1   \* pending comments of a round: one stands for the two there are

Idle    == [version |-> 1, round |-> 0, phase |-> "idle", pending |-> 0]
Refusal == [version |-> 0, round |-> 0, phase |-> "refused", pending |-> 0]
Nothing == [version |-> 0, round |-> 0, phase |-> "nothing", pending |-> 0]

NoRequest == [op |-> "none", base |-> Nothing, answer |-> Nothing]
NoFetch   == [going |-> FALSE, answer |-> Nothing]

Ops == {"submit", "patch", "rereview", "final"}

Init ==
    /\ server = Idle
    /\ shown = [t \in Tabs |-> Idle]
    /\ stored = [t \in Tabs |-> Nothing]
    /\ asked = [t \in Tabs |-> NoRequest]
    /\ fetched = [t \in Tabs |-> NoFetch]
    /\ upset = {}

----------------------------------------------------------------------------
(* What a request makes of a snapshot; the mock in the browser is a copy   *)
(* of the server's rules. *)

Allowed(op, s) ==
    \/ op = "submit" /\ s.phase = "idle"
    \/ op = "patch"
    \/ op = "rereview" /\ s.round = 1 /\ s.phase = "open" /\ s.pending = 0
    \/ op = "final" /\ s.round >= 2 /\ s.phase = "open" /\ s.pending = 0

Moved(op, s, pending) ==
    [version |-> s.version + 1,
     round |-> CASE op = "submit" -> 1 [] op = "rereview" -> 2 [] OTHER -> s.round,
     phase |-> CASE op = "final" -> "approved" [] op = "patch" -> s.phase [] OTHER -> "open",
     pending |-> CASE op = "patch" -> pending [] op = "final" -> 0 [] OTHER -> Comments]

(* A patch leaves the comments of a pull request that has none alone. *)
Pending(op, s) == IF op = "patch" /\ s.round > 0 THEN 0..Comments ELSE {s.pending}

(* The buttons the tab offers. *)
Offered(op, s) ==
    Allowed(op, s) /\ s.phase \in {"idle", "open"} /\ (op = "patch" => s.phase = "open")

----------------------------------------------------------------------------
(* Requests *)

Sends(t, op) ==
    /\ asked[t].op = "none"
    /\ Offered(op, shown[t])
    /\ asked' = [asked EXCEPT ![t] = [op |-> op, base |-> shown[t], answer |-> Nothing]]
    /\ UNCHANGED <<server, shown, stored, fetched, upset>>

Waiting(t) == asked[t].op # "none" /\ asked[t].answer = Nothing

Answers(t, a) == asked' = [asked EXCEPT ![t].answer = a]

(* The version and the state are compared; the tabs that wait are overtaken. *)
Serves(t) ==
    /\ Waiting(t)
    /\ asked[t].base.version = server.version /\ Allowed(asked[t].op, server)
    /\ server.version < MaxVersion
    /\ \E p \in Pending(asked[t].op, server) : server' = Moved(asked[t].op, server, p)
    /\ Answers(t, server')
    /\ upset' = upset \cup {o \in Tabs \ {t} : asked[o].op # "none"}
    /\ UNCHANGED <<shown, stored, fetched>>

(* VERSION_CONFLICT and INVALID_STATE; a second submit gets the snapshot. *)
Refuses(t) ==
    /\ Waiting(t)
    /\ ~(asked[t].base.version = server.version /\ Allowed(asked[t].op, server))
    /\ Answers(t, IF asked[t].base.version = server.version /\ asked[t].op = "submit"
                  THEN server ELSE Refusal)
    /\ UNCHANGED <<server, shown, stored, fetched, upset>>

Saves(t, s) ==
    /\ shown' = [shown EXCEPT ![t] = s]
    /\ stored' = [stored EXCEPT ![t] = s]

(* The body is shown and saved, whatever it is. *)
Arrives(t) ==
    /\ asked[t].answer # Nothing
    /\ Saves(t, asked[t].answer)
    /\ asked' = [asked EXCEPT ![t] = NoRequest]
    /\ UNCHANGED <<server, fetched, upset>>

(* An HTTP error, or an answer that is lost: the browser's own rules, on   *)
(* the snapshot it started from; a request that moves nothing is an error  *)
(* message.                                                                *)
MadeUp(t) ==
    LET r == asked[t]
    IN  /\ r.op # "none"
        /\ r.base.version < MaxVersion
        /\ \E p \in Pending(r.op, r.base) : Saves(t, Moved(r.op, r.base, p))
        /\ asked' = [asked EXCEPT ![t] = NoRequest]
        /\ upset' = upset \cup {t}
        /\ UNCHANGED <<server, fetched>>

----------------------------------------------------------------------------
(* The tab loads and fetches *)

Loads(t) ==
    /\ shown' = [shown EXCEPT ![t] = IF stored[t] = Nothing THEN Idle ELSE stored[t]]
    /\ asked' = [asked EXCEPT ![t] = NoRequest]
    /\ fetched' = [fetched EXCEPT ![t] = [going |-> TRUE, answer |-> Nothing]]
    /\ UNCHANGED <<server, stored, upset>>

FetchServed(t) ==
    /\ fetched[t] = [going |-> TRUE, answer |-> Nothing]
    /\ fetched' = [fetched EXCEPT ![t].answer = server]
    /\ UNCHANGED <<server, shown, stored, asked, upset>>

(* Mutant: what was fetched is shown. *)
FetchArrivesAnyway(t) ==
    /\ fetched[t].answer # Nothing
    /\ Saves(t, fetched[t].answer)
    /\ fetched' = [fetched EXCEPT ![t] = NoFetch]
    /\ UNCHANGED <<server, asked, upset>>

(* A snapshot older than the one shown is dropped. *)
FetchArrives(t) ==
    /\ fetched[t].answer # Nothing
    /\ IF fetched[t].answer.version < shown[t].version
       THEN UNCHANGED <<shown, stored>>
       ELSE Saves(t, fetched[t].answer)
    /\ fetched' = [fetched EXCEPT ![t] = NoFetch]
    /\ UNCHANGED <<server, asked, upset>>

Next ==
    \E t \in Tabs :
        \/ \E op \in Ops : Sends(t, op)
        \/ Serves(t) \/ Refuses(t) \/ Arrives(t) \/ MadeUp(t)
        \/ Loads(t) \/ FetchServed(t) \/ FetchArrives(t)

Spec == Init /\ [][Next]_vars

----------------------------------------------------------------------------
(* Properties *)

Snapshot == [version: 0..MaxVersion, round: 0..2, pending: 0..Comments,
             phase: {"idle", "open", "approved", "refused", "nothing"}]

(* The snapshots keep their type. *)
TypeOK ==
    /\ server \in Snapshot /\ upset \subseteq Tabs
    /\ shown \in [Tabs -> Snapshot] /\ stored \in [Tabs -> Snapshot]
    /\ asked \in [Tabs -> [op: Ops \cup {"none"}, base: Snapshot, answer: Snapshot]]
    /\ fetched \in [Tabs -> [going: BOOLEAN, answer: Snapshot]]

(* However answers and fetches overtake each other, and across reloads, a  *)
(* tab's pull request does not fall back to an older version, unless the   *)
(* server refused it, another tab overtook its request or it made an       *)
(* answer up. *)
ScreenMovesOn ==
    \A t \in Tabs : t \notin upset' /\ Refusal \notin {shown[t], shown'[t]} =>
        shown'[t].version >= shown[t].version

ScreenNeverFallsBack == [][ScreenMovesOn]_vars

(* A tab shows a pull request: an answer that refuses a request is dropped. *)
ScreenShowsAReview == \A t \in Tabs : shown[t] # Refusal

----------------------------------------------------------------------------
(* The inductive invariant of the proofs. *)

(* A tab shows what it has stored, or nothing was stored yet. *)
ShownIsStored ==
    \A t \in Tabs : stored[t] = shown[t] \/ (stored[t] = Nothing /\ shown[t] = Idle)

(* A tab that made nothing up and was not overtaken is not ahead of the    *)
(* server, and what the server answered it is still what the server has.   *)
ServerIsAhead ==
    \A t \in Tabs \ upset :
        /\ shown[t].version <= server.version
        /\ fetched[t].answer.version <= server.version
        /\ \/ asked[t].answer \in {Nothing, Refusal}
           \/ asked[t].op # "none" /\ asked[t].answer = server

IInv == TypeOK /\ server.version >= 1 /\ ShownIsStored /\ ServerIsAhead

==============================================================================
