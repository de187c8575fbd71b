------------------------------- MODULE Accounts -------------------------------
(***************************************************************************)
(* One learner's account: tokens are issued at login, rotated by refresh   *)
(* and put on a list in Redis by logout (auth.service.ts,                  *)
(* api-auth.controller.ts, revoked-token.store.ts); every other endpoint   *)
(* asks the list (jwt-auth.guard.ts).  Several tabs of one browser share   *)
(* the refresh cookie (refresh-cookie.util.ts).                            *)
(*                                                                         *)
(* Each call to Redis and to the database is awaited.  When Redis does not *)
(* answer, nothing is put on the list and nothing is found there.          *)
(***************************************************************************)
EXTENDS Naturals

CONSTANTS
    Requests,   \* the requests in progress at one time
    MaxIssued   \* bound on the pairs of tokens issued (model bound)

VARIABLES
    registered, \* whether the account exists
    redis,      \* whether Redis answers
    issued,     \* how many pairs of an access and a refresh token were issued
    denied,     \* the keys revoked:jti:* in Redis
    cookie,     \* the browser's refresh cookie
    requests,   \* what each request carries and how far it has come
    broken      \* history variable: a logout or a refresh was cut off or overlapped another

vars == <<registered, redis, issued, denied, cookie, requests, broken>>

Token == [use: {"access", "refresh"}, pair: 1..MaxIssued]

NoToken == [use |-> "none", pair |-> 0]

Idle == [op |-> "none", pc |-> "idle", token |-> NoToken, sent |-> NoToken, wasDenied |-> FALSE,
         blind |-> FALSE]

Init ==
    /\ registered = FALSE
    /\ redis = TRUE
    /\ issued = 0
    /\ denied = {}
    /\ cookie = NoToken
    /\ requests = [r \in Requests |-> Idle]
    /\ broken = FALSE

----------------------------------------------------------------------------
(* Tokens *)

(* signAccessToken, signRefreshToken, setRefreshTokenCookie *)
Issue ==
    /\ issued < MaxIssued
    /\ issued' = issued + 1
    /\ cookie' = [use |-> "refresh", pair |-> issued + 1]

(* register: the e-mail is unique. *)
Register ==
    /\ ~registered
    /\ registered' = TRUE
    /\ Issue
    /\ UNCHANGED <<redis, denied, requests, broken>>

Login ==
    /\ registered
    /\ Issue
    /\ UNCHANGED <<registered, redis, denied, requests, broken>>

RedisChanges ==
    /\ redis' = ~redis
    /\ UNCHANGED <<registered, issued, denied, cookie, requests, broken>>

----------------------------------------------------------------------------
(* Requests *)

(* The tokens whose signature holds and whose time is not over. *)
Valid == {t \in Token : t.pair <= issued}

At(r, op, pc) == requests[r].op = op /\ requests[r].pc = pc

Goes(r, pc) == requests' = [requests EXCEPT ![r].pc = pc]

Ends(r) == requests' = [requests EXCEPT ![r] = Idle]

Others(r) == {q \in Requests \ {r} : requests[q].op \in {"refresh", "logout"}}

(* A request comes with an access token, or, to refresh, with the cookie;  *)
(* the token's signature, its time and its use are verified. *)
Begins(r, op, t) ==
    /\ requests[r] = Idle
    /\ IF op = "refresh" THEN t = cookie ELSE t.use = "access"
    /\ requests' = [requests EXCEPT ![r] =
          [op |-> op, pc |-> "verified", token |-> t,
           sent |-> IF op = "logout" THEN cookie ELSE NoToken,
           wasDenied |-> t \in denied, blind |-> FALSE]]
    /\ broken' = (broken \/ (op # "use" /\ Others(r) # {}))
    /\ UNCHANGED <<registered, redis, issued, denied, cookie>>

(* Mutant: refresh does not ask the list. *)
AcceptedUnasked(r) ==
    /\ requests[r].pc = "verified"
    /\ requests[r].op = "refresh" \/ ~redis \/ requests[r].token \notin denied
    /\ requests' = [requests EXCEPT ![r].pc = "accepted", ![r].blind = ~redis]
    /\ UNCHANGED <<registered, redis, issued, denied, cookie, broken>>

(* isRevoked: no, when Redis does not answer. *)
Accepted(r) ==
    /\ requests[r].pc = "verified"
    /\ ~redis \/ requests[r].token \notin denied
    /\ requests' = [requests EXCEPT ![r].pc = "accepted", ![r].blind = ~redis]
    /\ UNCHANGED <<registered, redis, issued, denied, cookie, broken>>

Refused(r) ==
    /\ requests[r].pc = "verified"
    /\ redis /\ requests[r].token \in denied
    /\ Ends(r)
    /\ UNCHANGED <<registered, redis, issued, denied, cookie, broken>>

Used(r) ==
    /\ At(r, "use", "accepted")
    /\ Ends(r)
    /\ UNCHANGED <<registered, redis, issued, denied, cookie, broken>>

(* revoke: an error is swallowed. *)
Revoke(t) == denied' = IF redis /\ t # NoToken THEN denied \cup {t} ELSE denied

(* rotateRefreshSession: the old token goes first... *)
RotateRevokes(r) ==
    /\ At(r, "refresh", "accepted")
    /\ Revoke(requests[r].token)
    /\ Goes(r, "revoked")
    /\ UNCHANGED <<registered, redis, issued, cookie, broken>>

(* Mutant: the cookie keeps the old token. *)
RotateIssuesAccessOnly(r) ==
    /\ At(r, "refresh", "revoked")
    /\ issued < MaxIssued
    /\ issued' = issued + 1
    /\ Ends(r)
    /\ UNCHANGED <<registered, redis, denied, cookie, broken>>

(* ... and the new pair comes after it. *)
RotateIssues(r) ==
    /\ At(r, "refresh", "revoked")
    /\ Issue
    /\ Ends(r)
    /\ UNCHANGED <<registered, redis, denied, broken>>

LogoutRevokesAccess(r) ==
    /\ At(r, "logout", "accepted")
    /\ Revoke(requests[r].token)
    /\ Goes(r, "revoked")
    /\ UNCHANGED <<registered, redis, issued, cookie, broken>>

(* The refresh token that came along, and the browser's cookie. *)
LogoutRevokesRefresh(r) ==
    /\ At(r, "logout", "revoked")
    /\ Revoke(requests[r].sent)
    /\ cookie' = NoToken
    /\ Ends(r)
    /\ UNCHANGED <<registered, redis, issued, broken>>

(* The database fails, the process dies or the answer is lost. *)
CutOff(r) ==
    /\ requests[r].pc \in {"accepted", "revoked"} /\ requests[r].op # "use"
    /\ Ends(r)
    /\ broken' = TRUE
    /\ UNCHANGED <<registered, redis, issued, denied, cookie>>

Next ==
    \/ Register \/ Login \/ RedisChanges
    \/ \E r \in Requests :
          \/ \E op \in {"use", "refresh", "logout"}, t \in Valid : Begins(r, op, t)
          \/ Accepted(r) \/ Refused(r) \/ Used(r)
          \/ RotateRevokes(r) \/ RotateIssues(r)
          \/ LogoutRevokesAccess(r) \/ LogoutRevokesRefresh(r)
          \/ CutOff(r)

Spec == Init /\ [][Next]_vars

----------------------------------------------------------------------------
(* Properties *)

(* Tokens, the list, the cookie and the requests keep their types. *)
TypeOK ==
    /\ registered \in BOOLEAN /\ redis \in BOOLEAN /\ broken \in BOOLEAN
    /\ issued \in 0..MaxIssued
    /\ denied \subseteq Token
    /\ cookie \in Token \cup {NoToken}
    /\ requests \in [Requests ->
          [op: {"none", "use", "refresh", "logout"}, pc: {"idle", "verified", "accepted", "revoked"},
           token: Token \cup {NoToken}, sent: Token \cup {NoToken},
           wasDenied: BOOLEAN, blind: BOOLEAN]]

(* A token that was spent, by a logout or by the rotation that replaced    *)
(* it, serves no request that comes later, whatever was under way when it  *)
(* was spent, unless Redis is silent when the list is asked.               *)
SpentTokensServeNobody ==
    \A r \in Requests :
        requests[r].pc \in {"accepted", "revoked"} => ~requests[r].wasDenied \/ requests[r].blind

(* The browser is left with a cookie that can be refreshed, or with none,  *)
(* unless a refresh or a logout was cut off or overlapped another.         *)
CookieCanBeRefreshed ==
    (\A r \in Requests : requests[r].op \notin {"refresh", "logout"}) /\ ~broken =>
        cookie \notin denied

(* What makes these two inductive.  A request that has still to ask the    *)
(* list will find its token there if it was there before.  What was issued *)
(* is all that can be spent, so the next token is good; and as long as     *)
(* rotations and logouts do not overlap, only the one that is under way    *)
(* has spent the cookie. *)
SpentStaySpent ==
    \A r \in Requests :
        requests[r].pc = "verified" /\ requests[r].wasDenied => requests[r].token \in denied

TokensAreIssued ==
    /\ cookie.pair <= issued /\ cookie.use # "access"
    /\ \A t \in denied : t.pair <= issued
    /\ \A r \in Requests :
          /\ requests[r].token.pair <= issued /\ requests[r].sent.pair <= issued
          /\ requests[r].op = "logout" => requests[r].token.use = "access"

OneRotates ==
    ~broken =>
        /\ \A r \in Requests : requests[r].op \in {"refresh", "logout"} => Others(r) = {}
        /\ cookie \in denied => \E r \in Requests : At(r, "refresh", "revoked")

IInv ==
    TypeOK /\ SpentTokensServeNobody /\ SpentStaySpent /\ TokensAreIssued /\ OneRotates

==============================================================================
