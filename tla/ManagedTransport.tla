---------------------------- MODULE ManagedTransport ----------------------------
(***************************************************************************)
(* managedSocketIoTransport.ts: one Socket.IO connection shared by the      *)
(* commands of an execution, kept alive by a reference count while they     *)
(* use it and replaced when it went stale or the access token rotated.      *)
(*                                                                         *)
(* The class is a record and each method an operator from the record before *)
(* the call to the record after it, so that a handler that makes several    *)
(* calls composes them.  The callbacks are counted: disposals is how often  *)
(* onDispose ran, identityChanges how often onIdentityChanged did.          *)
(*                                                                         *)
(* The namespace URL does not vary: an executor serves one credential.      *)
(***************************************************************************)
EXTENDS Integers

CONSTANT NoToken   \* the undefined access token

NewTransport ==
    [conn |-> 0,            \* the connection in use, 0 for undefined
     token |-> NoToken,     \* accessToken
     active |-> 0,          \* activeCount
     disposePending |-> FALSE,
     stale |-> FALSE,
     created |-> 0,         \* how many connections were made; the last is conn
     disposals |-> 0, identityChanges |-> 0]

Transports(T) ==
    [conn : Nat, token : T \cup {NoToken}, active : Nat, disposePending : BOOLEAN,
     stale : BOOLEAN, created : Nat, disposals : Nat, identityChanges : Nat]

\* cacheGeneration of the executor that owns m: both callbacks advance it.
Generation(m) == m.disposals + m.identityChanges

\* acquire(): someone uses the connection
Acquire(m) == [m EXCEPT !.active = @ + 1]

MarkStale(m) == [m EXCEPT !.stale = TRUE]

DisposeNow(m) ==
    [m EXCEPT !.conn = 0, !.token = NoToken, !.disposePending = FALSE, !.disposals = @ + 1]

\* dispose(): deferred while the connection is in use
Dispose_mut(m) == DisposeNow(MarkStale(m))
Dispose(m) ==
    IF m.active > 0 THEN [m EXCEPT !.stale = TRUE, !.disposePending = TRUE]
    ELSE DisposeNow(m)

\* release(): the last user carries out a deferred disposal
LastUser(m) == m.active <= 1
Decrement(n) == IF n > 0 THEN n - 1 ELSE 0
Release(m) ==
    LET left == [m EXCEPT !.active = Decrement(@)]
    IN  IF m.disposePending /\ LastUser(m) THEN DisposeNow(left) ELSE left

Connect(m, t) ==
    [DisposeNow(m) EXCEPT !.conn = m.created + 1, !.created = @ + 1, !.token = t,
                          !.stale = FALSE]

\* A rotated token requires a new handshake, as a stale connection does.
NeedsNew(m, t) == m.stale \/ m.token # t

\* ensureTransport keeps a connection it should replace, for those who use it.
KeepForUsers(m) == m.active > 0

\* ensureTransport(baseUrl, token)
EnsureTransport(m, t) ==
    LET rotated == m.conn # 0 /\ m.token # t
        noted   == IF rotated THEN [m EXCEPT !.identityChanges = @ + 1] ELSE m
    IN  IF m.conn # 0 /\ ~NeedsNew(m, t) THEN m
        ELSE IF m.conn # 0 /\ KeepForUsers(m)
        THEN [noted EXCEPT !.disposePending = TRUE, !.stale = TRUE, !.token = t]
        ELSE Connect(noted, t)

\* close()
CloseTransport(m) ==
    [DisposeNow([m EXCEPT !.active = 0]) EXCEPT !.stale = FALSE]
================================================================================
