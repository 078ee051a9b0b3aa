------------------------------- MODULE AuthSession -------------------------------
(***************************************************************************)
(* shared/auth/session.ts, createExecutionSessionRunner: the invocations of *)
(* one runner share a session, its login and its refresh.  An invocation    *)
(* runs its callback with the session, and once more with a renewed one     *)
(* when the access token turned out to be expired.                          *)
(*                                                                         *)
(* Sessions are numbered as the hub issues them; 0 is undefined.  A step is *)
(* the code between two awaits; all who await a request resume together.    *)
(***************************************************************************)
EXTENDS Integers, FiniteSets

CONSTANT Invocations   \* calls of the runner

ASSUME AuthSessionAssumption == IsFiniteSet(Invocations)

VARIABLES
    currentSession,
    inFlightLogin, inFlightRefresh,   \* the promise is set
    logins, refreshes,     \* requests the hub has not answered
    inv,                   \* invocation -> where it stands
    issued,                \* sessions issued so far
    expiring,              \* sessions whose token is about to expire, or has
    loginsDue              \* history: logins there was a reason for, less those sent

requests == <<inFlightLogin, inFlightRefresh, logins, refreshes>>
vars == <<currentSession, requests, inv, issued, expiring, loginsDue>>

\* pc: "idle"; "login" and "refresh" await the request and go on with `next`; "fresh" has
\* a session; "callback" runs with it; "react" handles a refreshable error; "source" has
\* logged in to have a session to refresh; "relogin" saw the refresh rejected; "retry"
\* runs the callback again; "done"; "failed".
NewInvocation == [pc |-> "idle", next |-> "fresh", session |-> 0, source |-> 0]

Init ==
    /\ currentSession = 0
    /\ inFlightLogin = FALSE /\ inFlightRefresh = FALSE
    /\ logins = 0 /\ refreshes = 0
    /\ inv = [i \in Invocations |-> NewInvocation]
    /\ issued = 0 /\ expiring = {}
    /\ loginsDue = 1

--------------------------------------------------------------------------------
\* ensureSession() by i, with `cur` for currentSession; i goes on at `next`.
StartsLogin_mut == TRUE
StartsLogin == ~inFlightLogin

Ensure(i, cur, next) ==
    /\ currentSession' = cur
    /\ IF cur # 0
       THEN /\ inv' = [inv EXCEPT ![i].pc = next, ![i].session = cur]
            /\ UNCHANGED <<requests, loginsDue>>
       ELSE /\ inv' = [inv EXCEPT ![i].pc = "login", ![i].next = next]
            /\ inFlightLogin' = TRUE
            /\ logins' = IF StartsLogin THEN logins + 1 ELSE logins
            /\ loginsDue' = IF StartsLogin THEN loginsDue - 1 ELSE loginsDue
            /\ UNCHANGED <<inFlightRefresh, refreshes>>

\* refreshSession(s) by i: another invocation may have renewed the session already.
Renewed(s) == currentSession # 0 /\ currentSession # s

StartsRefresh == ~inFlightRefresh

Refresh(i, s, next) ==
    /\ UNCHANGED <<currentSession, loginsDue>>
    /\ IF Renewed(s)
       THEN /\ inv' = [inv EXCEPT ![i].pc = next, ![i].session = currentSession,
                                  ![i].source = s]
            /\ UNCHANGED requests
       ELSE /\ inv' = [inv EXCEPT ![i].pc = "refresh", ![i].next = next, ![i].source = s]
            /\ inFlightRefresh' = TRUE
            /\ refreshes' = IF StartsRefresh THEN refreshes + 1 ELSE refreshes
            /\ UNCHANGED <<inFlightLogin, logins>>

--------------------------------------------------------------------------------
(* One invocation.                                                          *)

Run(i) ==
    /\ inv[i].pc = "idle"
    /\ Ensure(i, currentSession, "fresh")
    /\ UNCHANGED <<issued, expiring>>

\* ensureAccessTokenFresh: renew a token that is about to expire before it is used.
Fresh(i) ==
    /\ inv[i].pc = "fresh"
    /\ IF inv[i].session \in expiring THEN Refresh(i, inv[i].session, "callback")
       ELSE inv' = [inv EXCEPT ![i].pc = "callback"]
            /\ UNCHANGED <<currentSession, requests, loginsDue>>
    /\ UNCHANGED <<issued, expiring>>

Goes(i, where) ==
    /\ inv' = [inv EXCEPT ![i].pc = where]
    /\ UNCHANGED <<currentSession, requests, issued, expiring, loginsDue>>

CallbackReturns(i) == inv[i].pc \in {"callback", "retry"} /\ Goes(i, "done")
CallbackFails(i) == inv[i].pc \in {"callback", "retry"} /\ Goes(i, "failed")

\* A refreshable error is handled once.
CallbackExpired(i) ==
    /\ inv[i].pc = "callback" /\ inv[i].session \in expiring
    /\ Goes(i, "react")

\* The session to refresh: the one of the attempt, else the current one, else a new one.
React(i) ==
    LET s == IF inv[i].session # 0 THEN inv[i].session ELSE currentSession
    IN  /\ inv[i].pc = "react"
        /\ IF s # 0 THEN Refresh(i, s, "retry") ELSE Ensure(i, 0, "source")
        /\ UNCHANGED <<issued, expiring>>

RefreshesSource(i) ==
    /\ inv[i].pc = "source"
    /\ Refresh(i, inv[i].session, "retry")
    /\ UNCHANGED <<issued, expiring>>

\* The refresh was answered with 401: the session is given up unless it was renewed.
GivenUp(i) == IF currentSession = inv[i].source THEN 0 ELSE currentSession

Relogin(i) ==
    /\ inv[i].pc = "relogin"
    /\ Ensure(i, GivenUp(i), "retry")
    /\ UNCHANGED <<issued, expiring>>

--------------------------------------------------------------------------------
(* Answers of the hub.                                                      *)

Awaiting(what) == {i \in Invocations : inv[i].pc = what}

\* Everyone who awaits the request goes on with what `then` makes of its record.
Resume(what, Then(_)) ==
    inv' = [i \in Invocations |-> IF i \in Awaiting(what) THEN Then(inv[i]) ELSE inv[i]]

LoginAnswered_mut == logins > 0 /\ logins' = logins - 1
                     /\ UNCHANGED <<inFlightLogin, inFlightRefresh, refreshes>>
LoginAnswered == logins > 0 /\ logins' = logins - 1 /\ inFlightLogin' = FALSE
                 /\ UNCHANGED <<inFlightRefresh, refreshes>>

RefreshAnswered == refreshes > 0 /\ refreshes' = refreshes - 1 /\ inFlightRefresh' = FALSE
                   /\ UNCHANGED <<inFlightLogin, logins>>

WithNewSession(r) == [r EXCEPT !.pc = r.next, !.session = issued + 1]

LoginSucceeds ==
    /\ LoginAnswered
    /\ issued' = issued + 1
    /\ currentSession' = issued'
    /\ Resume("login", WithNewSession)
    /\ UNCHANGED <<expiring, loginsDue>>

\* A 401 of the first login is a refreshable error as well.
LoginFails(unauthorized) ==
    LET Then(r) == IF r.next = "fresh" /\ unauthorized
                   THEN [r EXCEPT !.pc = "react", !.session = 0]
                   ELSE [r EXCEPT !.pc = "failed"]
    IN  /\ LoginAnswered
        /\ loginsDue' = loginsDue + 1
        /\ Resume("login", Then)
        /\ UNCHANGED <<currentSession, issued, expiring>>

RefreshSucceeds ==
    /\ RefreshAnswered
    /\ issued' = issued + 1
    /\ currentSession' = issued'
    /\ Resume("refresh", WithNewSession)
    /\ UNCHANGED <<expiring, loginsDue>>

\* 401: of a proactive refresh it is handled like an expired callback, of a reactive one
\* by logging in again.
RefreshRejected ==
    LET Then(r) == IF r.next = "callback" THEN [r EXCEPT !.pc = "react", !.session = 0]
                   ELSE [r EXCEPT !.pc = "relogin"]
    IN  /\ RefreshAnswered
        /\ loginsDue' = loginsDue + 1
        /\ Resume("refresh", Then)
        /\ UNCHANGED <<currentSession, issued, expiring>>

RefreshFails ==
    LET Then(r) == [r EXCEPT !.pc = "failed"]
    IN  /\ RefreshAnswered
        /\ Resume("refresh", Then)
        /\ UNCHANGED <<currentSession, issued, expiring, loginsDue>>

\* Time passes; a token of session s comes close to its expiry.
Expires(s) ==
    /\ s \in 1..issued \ expiring
    /\ expiring' = expiring \cup {s}
    /\ UNCHANGED <<currentSession, requests, inv, issued, loginsDue>>

Answer ==
    \/ LoginSucceeds \/ \E unauthorized \in BOOLEAN : LoginFails(unauthorized)
    \/ RefreshSucceeds \/ RefreshRejected \/ RefreshFails

Step(i) ==
    \/ Fresh(i) \/ CallbackReturns(i) \/ CallbackFails(i) \/ CallbackExpired(i)
    \/ React(i) \/ RefreshesSource(i) \/ Relogin(i)

Next ==
    \/ \E i \in Invocations : Run(i) \/ Step(i)
    \/ Answer
    \/ \E s \in 1..issued : Expires(s)

Spec == Init /\ [][Next]_vars
--------------------------------------------------------------------------------
TypeOK ==
    /\ currentSession \in 0..issued
    /\ inFlightLogin \in BOOLEAN /\ inFlightRefresh \in BOOLEAN
    /\ logins \in 0..1 /\ refreshes \in 0..1
    /\ inv \in [Invocations ->
           [pc : {"idle", "login", "refresh", "fresh", "callback", "react", "source",
                  "relogin", "retry", "done", "failed"},
            next : {"fresh", "callback", "source", "retry"},
            session : 0..issued, source : 0..issued]]
    /\ issued \in Nat /\ expiring \subseteq 1..issued
    /\ loginsDue \in Int

\* "Concurrent refresh calls share one in-flight request", and so do logins; whoever
\* awaits one awaits the one that is under way.
OneRequestEach ==
    /\ logins = IF inFlightLogin THEN 1 ELSE 0
    /\ refreshes = IF inFlightRefresh THEN 1 ELSE 0
    /\ Awaiting("login") # {} => inFlightLogin
    /\ Awaiting("refresh") # {} => inFlightRefresh

\* However many invocations find their token expired at once, the credentials are sent
\* again only once for each login that failed and each refresh that was rejected.
LoginsJustified == loginsDue >= 0

\* A callback is retried only with another session than the one that was refused.
RetryHasNewSession ==
    \A i \in Invocations :
        inv[i].pc = "retry" => inv[i].session # inv[i].source

================================================================================
