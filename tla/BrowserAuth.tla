----------------------------- MODULE BrowserAuth -----------------------------
(***************************************************************************)
(* The browser's access token (auth-storage.ts) and the calls that carry   *)
(* it: a call that is answered 401 renews the session with the refresh     *)
(* cookie and is sent once more (api-fetch.ts, integration-sse.ts); the    *)
(* page asks who the user is when it loads (session-gate.tsx).             *)
(*                                                                         *)
(* The server is reduced to which access token it takes and whether the    *)
(* cookie can be refreshed; the tokens' life is that of Accounts.          *)
(***************************************************************************)
EXTENDS Naturals

CONSTANTS
    Calls,      \* the calls in progress at one time
    MaxIssued   \* bound on the access tokens issued (model bound)

VARIABLES
    issued,     \* how many access tokens the server has issued; 0 names no token
    valid,      \* the ones whose time is not over
    cookie,     \* whether the refresh cookie can be used
    stored,     \* the access token in sessionStorage
    signedIn,   \* whether the page shows a user
    checked,    \* authChecked: whether the page has asked who the user is
    calls       \* each call: what it is for, the token it carries, the one it renewed

vars == <<issued, valid, cookie, stored, signedIn, checked, calls>>

Idle == [kind |-> "none", pc |-> "idle", token |-> 0, renewed |-> 0]

Init ==
    /\ issued = 0 /\ valid = {} /\ cookie = FALSE /\ stored = 0
    /\ signedIn = FALSE /\ checked = TRUE
    /\ calls = [c \in Calls |-> Idle]

----------------------------------------------------------------------------
(* Signing in and out *)

(* login, register, refresh: a new access token and a new cookie. *)
Issue ==
    /\ issued < MaxIssued
    /\ issued' = issued + 1
    /\ valid' = valid \cup {issued + 1}
    /\ cookie' = TRUE

SignIn ==
    /\ checked /\ ~signedIn
    /\ Issue
    /\ stored' = issued + 1 /\ signedIn' = TRUE
    /\ UNCHANGED <<checked, calls>>

(* onAuthLogout: the server is not told. *)
SignOut ==
    /\ checked /\ signedIn
    /\ stored' = 0 /\ signedIn' = FALSE
    /\ UNCHANGED <<issued, valid, cookie, checked, calls>>

TokenExpires(t) ==
    /\ valid' = valid \ {t}
    /\ UNCHANGED <<issued, cookie, stored, signedIn, checked, calls>>

CookieExpires ==
    /\ cookie /\ cookie' = FALSE
    /\ UNCHANGED <<issued, valid, stored, signedIn, checked, calls>>

(* The page is loaded again: its calls are forgotten, its storage is not. *)
PageLoads ==
    /\ signedIn' = (stored # 0)
    /\ checked' = (stored = 0)
    /\ calls' = [c \in Calls |-> Idle]
    /\ UNCHANGED <<issued, valid, cookie, stored>>

----------------------------------------------------------------------------
(* Calls *)

(* fetchAuthMe when the page loads; every other call once it has. *)
Sends(c, kind) ==
    /\ calls[c] = Idle
    /\ IF kind = "me" THEN ~checked /\ \A d \in Calls : calls[d].kind # "me"
                      ELSE checked /\ signedIn
    /\ calls' = [calls EXCEPT ![c] = [kind |-> kind, pc |-> "sent", token |-> stored, renewed |-> 0]]
    /\ UNCHANGED <<issued, valid, cookie, stored, signedIn, checked>>

(* The check saves the user with the token the page had when it loaded, or *)
(* clears both. *)
Ends(c, ok) ==
    /\ calls' = [calls EXCEPT ![c] = Idle]
    /\ IF calls[c].kind = "me"
       THEN /\ checked' = TRUE /\ signedIn' = ok
            /\ stored' = IF ok THEN stored ELSE 0
       ELSE UNCHANGED <<stored, signedIn, checked>>

Served(c) ==
    /\ calls[c].pc = "sent" /\ calls[c].token \in valid
    /\ Ends(c, TRUE)
    /\ UNCHANGED <<issued, valid, cookie>>

(* 401, for the first time: refreshAuthSession. *)
Unauthorized(c) ==
    /\ calls[c].pc = "sent" /\ calls[c].token \notin valid
    /\ calls[c].renewed = 0
    /\ calls' = [calls EXCEPT ![c].pc = "refreshing"]
    /\ UNCHANGED <<issued, valid, cookie, stored, signedIn, checked>>

(* The new token is the refresh's answer; the retry takes the stored one. *)
Renews(c) ==
    /\ calls[c].pc = "refreshing" /\ cookie
    /\ Issue
    /\ calls' = [calls EXCEPT ![c].pc = "sent", ![c].token = stored, ![c].renewed = issued + 1]
    /\ UNCHANGED <<stored, signedIn, checked>>

(* 401 again, or nothing to renew with. *)
Refused(c) ==
    /\ \/ calls[c].pc = "sent" /\ calls[c].token \notin valid /\ calls[c].renewed # 0
       \/ calls[c].pc = "refreshing" /\ ~cookie
    /\ Ends(c, FALSE)
    /\ UNCHANGED <<issued, valid, cookie>>

(* The network fails: the check throws, and the page waits for it forever. *)
Fails(c) ==
    /\ calls[c].pc \in {"sent", "refreshing"}
    /\ calls' = [calls EXCEPT ![c] = IF calls[c].kind = "me" THEN [@ EXCEPT !.pc = "dead"] ELSE Idle]
    /\ UNCHANGED <<issued, valid, cookie, stored, signedIn, checked>>

Next ==
    \/ SignIn \/ SignOut \/ CookieExpires \/ PageLoads
    \/ \E t \in valid : TokenExpires(t)
    \/ \E c \in Calls :
          \/ \E kind \in {"me", "call"} : Sends(c, kind)
          \/ Served(c) \/ Unauthorized(c) \/ Renews(c) \/ Refused(c) \/ Fails(c)

Spec == Init /\ [][Next]_vars

----------------------------------------------------------------------------
(* Properties *)

(* The tokens, the storage and the calls keep their types. *)
TypeOK ==
    /\ issued \in 0..MaxIssued /\ valid \subseteq 1..MaxIssued /\ stored \in 0..MaxIssued
    /\ cookie \in BOOLEAN /\ signedIn \in BOOLEAN /\ checked \in BOOLEAN
    /\ calls \in [Calls -> [kind: {"none", "me", "call"}, pc: {"idle", "sent", "refreshing", "dead"},
                            token: 0..MaxIssued, renewed: 0..MaxIssued]]

(* A call for which the session was renewed is not refused while the token *)
(* it was renewed with holds. *)
RenewedCallIsServed ==
    \A c \in Calls :
        calls[c].pc = "sent" /\ calls[c].renewed \in valid => calls[c].token \in valid

==============================================================================
