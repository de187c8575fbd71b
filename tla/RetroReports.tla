---------------------------- MODULE RetroReports ----------------------------
(***************************************************************************)
(* Retrospective reports: the API puts one at the head of the session's    *)
(* list and logs an event (retro.controller.ts); a tab shows its own copy  *)
(* of the list and fetches the API's when it loads (workspace-app.tsx,     *)
(* retro-service.ts, retro-persist.ts).                                    *)
(*                                                                         *)
(* The API is configured, so the page makes up no report.                  *)
(***************************************************************************)
EXTENDS Naturals, Sequences, SequencesExt

CONSTANTS
    Tabs,
    MaxReports  \* bound on the reports generated (model bound)

VARIABLES
    reports,    \* retro_reports of the session, the newest first
    generates,  \* each tab's request: at which await, and its report
    fetches,    \* each tab's GET: whether one is under way, and the list it got
    shown,      \* retroReports of each tab
    kept        \* the list in each tab's sessionStorage

vars == <<reports, generates, fetches, shown, kept>>

NotAsked == [pc |-> "none", report |-> 0]
NoFetch  == [going |-> FALSE, got |-> FALSE, list |-> <<>>]

Init ==
    /\ reports = <<>>
    /\ generates = [t \in Tabs |-> NotAsked]
    /\ fetches = [t \in Tabs |-> NoFetch]
    /\ shown = [t \in Tabs |-> <<>>] /\ kept = [t \in Tabs |-> <<>>]

----------------------------------------------------------------------------
(* Generating a report *)

Asks(t) ==
    /\ generates[t].pc = "none"
    /\ generates' = [generates EXCEPT ![t].pc = "sent"]
    /\ UNCHANGED <<reports, fetches, shown, kept>>

(* The list is read, extended and saved without an await; the reports are  *)
(* numbered in that order. *)
Generates(t) ==
    LET n == Len(reports) + 1
    IN  /\ generates[t].pc = "sent" /\ n <= MaxReports
        /\ reports' = <<n>> \o reports
        /\ generates' = [generates EXCEPT ![t] = [pc |-> "publishing", report |-> n]]
        /\ UNCHANGED <<fetches, shown, kept>>

(* The report is answered once its event is published. *)
ReportArrives(t) ==
    /\ generates[t].pc = "publishing"
    /\ shown' = [shown EXCEPT ![t] = <<generates[t].report>> \o @]
    /\ kept' = [kept EXCEPT ![t] = shown'[t]]
    /\ generates' = [generates EXCEPT ![t] = NotAsked]
    /\ UNCHANGED <<reports, fetches>>

(* Refused, the event is not published, or the answer is lost: the tab     *)
(* shows an error, whether the report is stored or not. *)
ReportFails(t) ==
    /\ generates[t].pc # "none"
    /\ generates' = [generates EXCEPT ![t] = NotAsked]
    /\ UNCHANGED <<reports, fetches, shown, kept>>

----------------------------------------------------------------------------
(* Loading the page *)

Loads(t) ==
    /\ shown' = [shown EXCEPT ![t] = kept[t]]
    /\ generates' = [generates EXCEPT ![t] = NotAsked]
    /\ fetches' = [fetches EXCEPT ![t] = [NoFetch EXCEPT !.going = TRUE]]
    /\ UNCHANGED <<reports, kept>>

FetchServed(t) ==
    /\ fetches[t].going /\ ~fetches[t].got
    /\ fetches' = [fetches EXCEPT ![t].got = TRUE, ![t].list = reports]
    /\ UNCHANGED <<reports, generates, shown, kept>>

(* A list that is not empty replaces the tab's. *)
FetchArrives(t) ==
    /\ fetches[t].got
    /\ IF fetches[t].list = <<>> THEN UNCHANGED <<shown, kept>>
       ELSE /\ shown' = [shown EXCEPT ![t] = fetches[t].list]
            /\ kept' = [kept EXCEPT ![t] = fetches[t].list]
    /\ fetches' = [fetches EXCEPT ![t] = NoFetch]
    /\ UNCHANGED <<reports, generates>>

(* fetchRetroReports answers an empty list. *)
FetchFails(t) ==
    /\ fetches[t].going
    /\ fetches' = [fetches EXCEPT ![t] = NoFetch]
    /\ UNCHANGED <<reports, generates, shown, kept>>

Next ==
    \E t \in Tabs :
        \/ Asks(t) \/ Generates(t) \/ ReportArrives(t) \/ ReportFails(t)
        \/ Loads(t) \/ FetchServed(t) \/ FetchArrives(t) \/ FetchFails(t)

Spec == Init /\ [][Next]_vars

----------------------------------------------------------------------------
(* Properties *)

(* The lists and the requests keep their types. *)
TypeOK ==
    /\ reports \in Seq(1..MaxReports)
    /\ generates \in [Tabs -> [pc: {"none", "sent", "publishing"}, report: 0..MaxReports]]
    /\ fetches \in [Tabs -> [going: BOOLEAN, got: BOOLEAN, list: Seq(1..MaxReports)]]
    /\ shown \in [Tabs -> Seq(1..MaxReports)] /\ kept \in [Tabs -> Seq(1..MaxReports)]

(* Whatever fails or overtakes something else, a tab shows and keeps       *)
(* reports of the API only (retro-service.ts: a failure is not hidden      *)
(* behind a mock), and what is in its sessionStorage is what it shows.      *)
ReportsAreStored ==
    \A t \in Tabs :
        /\ ToSet(shown[t]) \subseteq ToSet(reports)
        /\ kept[t] = shown[t]

----------------------------------------------------------------------------
(* The inductive invariant of the proofs. *)

(* A report on its way to a tab, alone or in a list, is one of the API's. *)
AnswersAreStored ==
    \A t \in Tabs :
        /\ generates[t].pc = "publishing" => generates[t].report \in ToSet(reports)
        /\ ToSet(fetches[t].list) \subseteq ToSet(reports)

IInv == TypeOK /\ ReportsAreStored /\ AnswersAreStored

==============================================================================
