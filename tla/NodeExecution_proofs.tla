--------------------------- MODULE NodeExecution_proofs ---------------------------
(***************************************************************************)
(* Proofs about AuthSession and NodeExecution, for every set of invocations *)
(* and every plan of a node.                                                *)
(***************************************************************************)
EXTENDS NodeExecution, FiniteSetTheorems, SequenceTheorems, TLAPS

\* The session kept is the last one issued, and those of the invocations are older.
LastOrNone == currentSession \in {0, issued}

\* There is a reason to log in whenever a login may start: nobody has a session and none
\* is asked for, or the session kept was rejected by the hub.
Rejected == \E i \in Invocations : inv[i].pc = "relogin" /\ inv[i].source = currentSession
LoginIsDue ==
    (currentSession = 0 /\ ~inFlightLogin) \/ (currentSession # 0 /\ Rejected)
        => loginsDue >= 1

SessionIInv ==
    /\ TypeOK
    /\ OneRequestEach
    /\ LoginsJustified
    /\ RetryHasNewSession
    /\ LastOrNone
    /\ LoginIsDue

--------------------------------------------------------------------------------
Records ==
    [pc : {"idle", "login", "refresh", "fresh", "callback", "react", "source",
           "relogin", "retry", "done", "failed"},
     next : {"fresh", "callback", "source", "retry"},
     session : 0..issued, source : 0..issued]

Nexts == {"fresh", "callback", "source", "retry"}

\* The changes that answers of the hub make of an invocation are of the right type.
LEMMA ChangedRecords ==
    ASSUME NEW r \in Records, issued \in Nat
    PROVE  /\ \A pc \in {"react", "failed", "relogin"} : [r EXCEPT !.pc = pc] \in Records
           /\ [r EXCEPT !.pc = "react", !.session = 0] \in Records
           /\ issued' = issued + 1 =>
                 /\ r \in Records'
                 /\ [r EXCEPT !.pc = r.next, !.session = issued + 1] \in Records'
<1>1. ASSUME issued' = issued + 1
      PROVE  0..issued \subseteq 0..issued' /\ issued + 1 \in 0..issued'
  BY <1>1
<1>2. ASSUME issued' = issued + 1 PROVE r \in Records'
  BY <1>1, <1>2 DEF Records
<1>3. ASSUME issued' = issued + 1
      PROVE  [r EXCEPT !.pc = r.next, !.session = issued + 1] \in Records'
  <2>1. r.next \in {"idle", "login", "refresh", "fresh", "callback", "react", "source",
                    "relogin", "retry", "done", "failed"}
    BY DEF Records
  <2>2. issued + 1 \in 0..issued'
    BY <1>1, <1>3
  <2> QED
    BY <1>2, <1>3, <2>1, <2>2, Zenon DEF Records
<1>4. 0 \in 0..issued
  OBVIOUS
<1>5. [r EXCEPT !.pc = "react", !.session = 0] \in Records
  BY <1>4 DEF Records
<1> QED
  BY <1>2, <1>3, <1>5 DEF Records

\* What the invariant says of the invocations when that of i becomes r.
LEMMA OneMoves ==
    ASSUME SessionIInv, NEW i \in Invocations, NEW r \in Records,
           inv' = [inv EXCEPT ![i] = r], issued' = issued
    PROVE  /\ inv' \in [Invocations -> Records']
           /\ inv'[i] = r
           /\ \A k \in Invocations \ {i} : inv'[k] = inv[k]
           /\ r.pc # "login" => Awaiting("login")' \subseteq Awaiting("login")
           /\ r.pc # "refresh" => Awaiting("refresh")' \subseteq Awaiting("refresh")
           /\ (r.pc = "retry" => r.session # r.source) => RetryHasNewSession'
<1>1. inv \in [Invocations -> Records] /\ Records' = Records
  BY DEF SessionIInv, TypeOK, Records
<1>2. /\ inv' \in [Invocations -> Records'] /\ inv'[i] = r
      /\ \A k \in Invocations \ {i} : inv'[k] = inv[k]
  BY <1>1
<1>3. /\ r.pc # "login" => Awaiting("login")' \subseteq Awaiting("login")
      /\ r.pc # "refresh" => Awaiting("refresh")' \subseteq Awaiting("refresh")
  BY <1>2 DEF Awaiting
<1>4. (r.pc = "retry" => r.session # r.source) => RetryHasNewSession'
  BY <1>2 DEF SessionIInv, RetryHasNewSession
<1> QED
  BY <1>2, <1>3, <1>4

\* ensureSession(): a login is started only for a reason.
LEMMA EnsureKeeps ==
    ASSUME SessionIInv, NEW i \in Invocations, NEW cur, NEW next \in Nexts,
           Ensure(i, cur, next), UNCHANGED <<issued, expiring>>,
           cur = currentSession \/ (cur = 0 /\ currentSession = inv[i].source),
           currentSession # 0 /\ cur = 0 => inv[i].pc = "relogin",
           next = "retry" /\ cur # 0 => cur # inv[i].source
    PROVE  SessionIInv'
<1>1. /\ currentSession \in 0..issued /\ issued \in Nat /\ loginsDue \in Int
      /\ logins \in 0..1 /\ inv[i] \in Records /\ cur \in 0..issued /\ cur \in {0, issued}
      /\ expiring \subseteq 1..issued
      /\ inFlightLogin \in BOOLEAN /\ inFlightRefresh \in BOOLEAN /\ refreshes \in 0..1
  BY DEF SessionIInv, TypeOK, Records, LastOrNone
<1>2. CASE cur # 0
  <2> DEFINE r == [inv[i] EXCEPT !.pc = next, !.session = cur]
  <2>1. /\ r \in Records /\ r.pc = next /\ r.session = cur /\ r.source = inv[i].source
    BY <1>1 DEF Records, Nexts
  <2>2. /\ inv' = [inv EXCEPT ![i] = r]
        /\ currentSession' = cur /\ cur = currentSession
        /\ inFlightLogin' = inFlightLogin /\ inFlightRefresh' = inFlightRefresh
        /\ logins' = logins /\ refreshes' = refreshes /\ loginsDue' = loginsDue
    BY <1>2 DEF Ensure, requests
  <2> HIDE DEF r
  <2>3. /\ inv' \in [Invocations -> Records'] /\ inv'[i] = r
        /\ \A k \in Invocations \ {i} : inv'[k] = inv[k]
        /\ Awaiting("login")' \subseteq Awaiting("login")
        /\ Awaiting("refresh")' \subseteq Awaiting("refresh")
        /\ RetryHasNewSession'
    BY <1>2, <2>1, <2>2, OneMoves DEF Nexts
  <2>4. TypeOK'
    BY <1>1, <2>2, <2>3 DEF TypeOK, Records
  <2>5. OneRequestEach'
    BY <2>2, <2>3 DEF SessionIInv, OneRequestEach
  <2>6. LoginsJustified' /\ LastOrNone'
    BY <2>2 DEF SessionIInv, LoginsJustified, LastOrNone
  <2>7. LoginIsDue'
    <3>1. Rejected' => Rejected
      BY <2>1, <2>2, <2>3 DEF Rejected, Nexts
    <3> QED
      BY <1>2, <2>2, <3>1 DEF SessionIInv, LoginIsDue
  <2> QED
    BY <2>3, <2>4, <2>5, <2>6, <2>7 DEF SessionIInv
<1>3. CASE cur = 0
  <2> DEFINE r == [inv[i] EXCEPT !.pc = "login", !.next = next]
  <2>1. /\ r \in Records /\ r.pc = "login"
    BY <1>1 DEF Records, Nexts
  <2>2. /\ inv' = [inv EXCEPT ![i] = r]
        /\ currentSession' = 0 /\ inFlightLogin' = TRUE
        /\ inFlightRefresh' = inFlightRefresh /\ refreshes' = refreshes
        /\ logins' = IF ~inFlightLogin THEN logins + 1 ELSE logins
        /\ loginsDue' = IF ~inFlightLogin THEN loginsDue - 1 ELSE loginsDue
    BY <1>3 DEF Ensure, StartsLogin
  <2> HIDE DEF r
  <2>3. /\ inv' \in [Invocations -> Records']
        /\ Awaiting("refresh")' \subseteq Awaiting("refresh")
        /\ RetryHasNewSession'
    BY <2>1, <2>2, OneMoves
  <2>4. ~inFlightLogin => loginsDue >= 1
    BY <1>3 DEF SessionIInv, LoginIsDue, Rejected
  <2>5. logins = IF inFlightLogin THEN 1 ELSE 0
    BY DEF SessionIInv, OneRequestEach
  <2>6. TypeOK'
    BY <1>1, <2>2, <2>3, <2>5 DEF TypeOK, Records
  <2>7. OneRequestEach' /\ LastOrNone'
    BY <2>2, <2>3, <2>5 DEF SessionIInv, OneRequestEach, LastOrNone
  <2>8. LoginsJustified' /\ LoginIsDue'
    BY <1>1, <2>2, <2>4 DEF SessionIInv, LoginsJustified, LoginIsDue
  <2> QED
    BY <2>3, <2>6, <2>7, <2>8 DEF SessionIInv
<1> QED
  BY <1>2, <1>3

\* refreshSession(s): somebody else's renewal is used, or a refresh awaited.
LEMMA RefreshKeeps ==
    ASSUME SessionIInv, NEW i \in Invocations, NEW s \in 0..issued, NEW next \in Nexts,
           Refresh(i, s, next), UNCHANGED <<issued, expiring>>
    PROVE  SessionIInv'
<1>1. /\ currentSession \in 0..issued /\ issued \in Nat /\ loginsDue \in Int
      /\ logins \in 0..1 /\ inv[i] \in Records
      /\ expiring \subseteq 1..issued
      /\ inFlightLogin \in BOOLEAN /\ inFlightRefresh \in BOOLEAN /\ refreshes \in 0..1
      /\ currentSession' = currentSession /\ loginsDue' = loginsDue
  BY DEF SessionIInv, TypeOK, Records, Refresh
<1>2. ASSUME NEW r \in Records, inv' = [inv EXCEPT ![i] = r], r.pc \in Nexts \cup {"refresh"},
             r.pc = "retry" => r.session # r.source,
             inFlightLogin' = inFlightLogin, logins' = logins,
             inFlightRefresh' \in BOOLEAN, refreshes' = IF inFlightRefresh' THEN 1 ELSE 0,
             inFlightRefresh \/ r.pc = "refresh" => inFlightRefresh'
      PROVE  SessionIInv'
  <2>1. /\ inv' \in [Invocations -> Records'] /\ inv'[i] = r
        /\ \A k \in Invocations \ {i} : inv'[k] = inv[k]
        /\ Awaiting("login")' \subseteq Awaiting("login")
        /\ r.pc # "refresh" => Awaiting("refresh")' \subseteq Awaiting("refresh")
        /\ RetryHasNewSession'
    BY <1>2, OneMoves DEF Nexts
  <2>2. TypeOK'
    BY <1>1, <1>2, <2>1 DEF TypeOK, Records
  <2>3. OneRequestEach'
    BY <1>2, <2>1 DEF SessionIInv, OneRequestEach
  <2>4. LoginsJustified' /\ LastOrNone'
    BY <1>1 DEF SessionIInv, LoginsJustified, LastOrNone
  <2>5. LoginIsDue'
    <3>1. Rejected' => Rejected
      BY <1>1, <1>2, <2>1 DEF Rejected, Nexts
    <3> QED
      BY <1>1, <1>2, <3>1 DEF SessionIInv, LoginIsDue
  <2> QED
    BY <2>1, <2>2, <2>3, <2>4, <2>5 DEF SessionIInv
<1>3. refreshes = IF inFlightRefresh THEN 1 ELSE 0
  BY DEF SessionIInv, OneRequestEach
<1>4. CASE Renewed(s)
  <2> DEFINE r == [inv[i] EXCEPT !.pc = next, !.session = currentSession, !.source = s]
  <2>1. /\ r \in Records /\ r.pc = next /\ r.session = currentSession /\ r.source = s
    BY <1>1 DEF Records, Nexts
  <2>2. /\ inv' = [inv EXCEPT ![i] = r]
        /\ inFlightLogin' = inFlightLogin /\ inFlightRefresh' = inFlightRefresh
        /\ logins' = logins /\ refreshes' = refreshes
    BY <1>4 DEF Refresh, requests
  <2>3. currentSession # s
    BY <1>4 DEF Renewed
  <2> HIDE DEF r
  <2> QED
    BY <1>1, <1>2, <1>3, <2>1, <2>2, <2>3 DEF Nexts
<1>5. CASE ~Renewed(s)
  <2> DEFINE r == [inv[i] EXCEPT !.pc = "refresh", !.next = next, !.source = s]
  <2>1. r \in Records /\ r.pc = "refresh"
    BY <1>1 DEF Records, Nexts
  <2>2. /\ inv' = [inv EXCEPT ![i] = r] /\ inFlightRefresh' = TRUE
        /\ inFlightLogin' = inFlightLogin /\ logins' = logins
        /\ refreshes' = IF ~inFlightRefresh THEN refreshes + 1 ELSE refreshes
    BY <1>5 DEF Refresh, StartsRefresh
  <2> HIDE DEF r
  <2>3. refreshes' = IF inFlightRefresh' THEN 1 ELSE 0
    BY <1>3, <2>2
  <2> QED
    BY <1>2, <2>1, <2>2, <2>3
<1> QED
  BY <1>4, <1>5

\* An invocation moves on without a request, or is replaced by a new one.
LEMMA MoveKeeps ==
    ASSUME SessionIInv, NEW i \in Invocations, NEW r \in Records,
           inv' = [inv EXCEPT ![i] = r], r.pc \notin {"login", "refresh", "relogin", "retry"},
           UNCHANGED <<currentSession, requests, issued, expiring, loginsDue>>
    PROVE  SessionIInv'
<1>1. /\ inv' \in [Invocations -> Records'] /\ inv'[i] = r
      /\ \A k \in Invocations \ {i} : inv'[k] = inv[k]
      /\ Awaiting("login")' \subseteq Awaiting("login")
      /\ Awaiting("refresh")' \subseteq Awaiting("refresh")
      /\ RetryHasNewSession'
  BY OneMoves
<1>2. TypeOK' /\ OneRequestEach'
  BY <1>1 DEF SessionIInv, TypeOK, Records, requests, OneRequestEach
<1>3. Rejected' => Rejected
  BY <1>1 DEF Rejected
<1>4. LoginsJustified' /\ LastOrNone' /\ LoginIsDue'
  BY <1>3 DEF SessionIInv, LoginsJustified, LastOrNone, LoginIsDue, requests
<1> QED
  BY <1>1, <1>2, <1>4 DEF SessionIInv

\* The steps an invocation takes of its own.
InvocationStep(i) ==
    \/ Run(i) \/ Fresh(i) \/ React(i) \/ RefreshesSource(i) \/ Relogin(i)

\* The steps of an invocation that await nobody's answer keep the session invariant.
LEMMA InvocationStepKeeps ==
    ASSUME SessionIInv, NEW i \in Invocations, InvocationStep(i)
    PROVE  SessionIInv'
<1>1. /\ currentSession \in 0..issued /\ issued \in Nat /\ inv[i] \in Records
      /\ inv[i].session \in 0..issued
  BY DEF SessionIInv, TypeOK, Records
<1>2. CASE Run(i)
  BY <1>1, <1>2, EnsureKeeps DEF Run, Nexts
<1>3. CASE Fresh(i)
  <2>1. CASE inv[i].session \in expiring
    BY <1>1, <1>3, <2>1, RefreshKeeps DEF Fresh, Nexts
  <2>2. CASE inv[i].session \notin expiring
    <3> DEFINE r == [inv[i] EXCEPT !.pc = "callback"]
    <3>1. r \in Records /\ r.pc = "callback"
      BY <1>1 DEF Records
    <3>2. /\ inv' = [inv EXCEPT ![i] = r]
          /\ UNCHANGED <<currentSession, requests, issued, expiring, loginsDue>>
      BY <1>3, <2>2 DEF Fresh
    <3> HIDE DEF r
    <3> QED
      BY <3>1, <3>2, MoveKeeps
  <2> QED
    BY <2>1, <2>2
<1>4. CASE React(i)
  <2>1. CASE inv[i].session # 0
    BY <1>1, <1>4, <2>1, RefreshKeeps DEF React, Nexts
  <2>2. CASE inv[i].session = 0 /\ currentSession # 0
    BY <1>1, <1>4, <2>2, RefreshKeeps DEF React, Nexts
  <2>3. CASE inv[i].session = 0 /\ currentSession = 0
    BY <1>1, <1>4, <2>3, EnsureKeeps DEF React, Nexts
  <2> QED
    BY <2>1, <2>2, <2>3
<1>5. CASE RefreshesSource(i)
  BY <1>1, <1>5, RefreshKeeps DEF RefreshesSource, Nexts
<1>6. CASE Relogin(i)
  BY <1>1, <1>6, EnsureKeeps DEF Relogin, GivenUp, Nexts
<1> QED
  BY <1>2, <1>3, <1>4, <1>5, <1>6 DEF InvocationStep

\* The invocation of i goes somewhere without a request.
LEMMA GoesKeeps ==
    ASSUME SessionIInv, NEW i \in Invocations, NEW where \in {"react", "done", "failed"},
           Goes(i, where)
    PROVE  SessionIInv'
<1> DEFINE r == [inv[i] EXCEPT !.pc = where]
<1>1. r \in Records /\ r.pc = where
  BY DEF SessionIInv, TypeOK, Records
<1>2. /\ inv' = [inv EXCEPT ![i] = r]
      /\ UNCHANGED <<currentSession, requests, issued, expiring, loginsDue>>
  BY DEF Goes
<1> HIDE DEF r
<1> QED
  BY <1>1, <1>2, MoveKeeps

\* An answer of the hub resumes everyone who awaits it.
LEMMA AnswerKeeps == ASSUME SessionIInv, Answer PROVE SessionIInv'
<1>1. /\ currentSession \in 0..issued /\ issued \in Nat /\ loginsDue \in Int
      /\ logins \in 0..1 /\ refreshes \in 0..1
      /\ expiring \subseteq 1..issued /\ expiring' = expiring
      /\ inFlightLogin \in BOOLEAN /\ inFlightRefresh \in BOOLEAN
      /\ inv \in [Invocations -> Records]
      /\ logins = (IF inFlightLogin THEN 1 ELSE 0)
      /\ refreshes = (IF inFlightRefresh THEN 1 ELSE 0)
  BY DEF SessionIInv, TypeOK, OneRequestEach, Records, Answer, LoginSucceeds, LoginFails,
         RefreshSucceeds, RefreshRejected, RefreshFails
\* The request that is answered is over, and nobody awaits it any more.
<1>2. ASSUME NEW what \in {"login", "refresh"},
             IF what = "login" THEN LoginAnswered ELSE RefreshAnswered,
             \A i \in Awaiting(what) : inv'[i].pc \notin {"login", "refresh"},
             \A i \in Invocations \ Awaiting(what) : inv'[i] = inv[i]
      PROVE  OneRequestEach'
  <2>1. /\ what = "login" => Awaiting("login")' = {} /\ Awaiting("refresh")' \subseteq Awaiting("refresh")
        /\ what = "refresh" => Awaiting("refresh")' = {} /\ Awaiting("login")' \subseteq Awaiting("login")
    BY <1>2 DEF Awaiting
  <2> QED
    BY <1>1, <1>2, <2>1 DEF LoginAnswered, RefreshAnswered, SessionIInv, OneRequestEach
\* A new session.
<1>3. ASSUME NEW what \in {"login", "refresh"},
             IF what = "login" THEN LoginAnswered ELSE RefreshAnswered,
             Resume(what, WithNewSession), loginsDue' = loginsDue,
             issued' = issued + 1, currentSession' = issued + 1
      PROVE  SessionIInv'
  <2>1. \A i \in Invocations :
           inv'[i] = IF inv[i].pc = what
                     THEN [inv[i] EXCEPT !.pc = inv[i].next, !.session = issued + 1] ELSE inv[i]
    BY <1>3 DEF Resume, WithNewSession, Awaiting
  <2>2. \A i \in Invocations : inv'[i] \in Records'
    BY <1>1, <1>3, <2>1, ChangedRecords
  <2>3. inv' \in [Invocations -> Records']
    BY <1>3, <2>2 DEF Resume
  <2>4. \A i \in Invocations : inv[i].pc = what => /\ inv'[i].pc = inv[i].next
                                                   /\ inv'[i].session = issued + 1
                                                   /\ inv'[i].source = inv[i].source
    BY <1>1, <2>1 DEF Records
  <2>5. OneRequestEach'
    BY <1>1, <1>2, <1>3, <2>1, <2>4 DEF Awaiting, Records
  <2>6. TypeOK'
    <3>1. inFlightLogin' \in BOOLEAN /\ inFlightRefresh' \in BOOLEAN
      BY <1>1, <1>3 DEF LoginAnswered, RefreshAnswered
    <3>2. logins' \in 0..1 /\ refreshes' \in 0..1
      BY <2>5 DEF OneRequestEach
    <3>3. /\ currentSession' \in 0..issued' /\ issued' \in Nat /\ expiring' \subseteq 1..issued'
          /\ loginsDue' \in Int
      BY <1>1, <1>3
    <3> QED
      BY <2>3, <3>1, <3>2, <3>3 DEF TypeOK, Records
  <2>7. RetryHasNewSession'
    <3> SUFFICES ASSUME NEW i \in Invocations, inv'[i].pc = "retry"
                 PROVE  inv'[i].session # inv'[i].source
      BY DEF RetryHasNewSession
    <3>1. CASE inv[i].pc = what
      <4>1. inv'[i].session = issued + 1 /\ inv'[i].source = inv[i].source
        BY <2>4, <3>1
      <4>2. inv[i].source \in 0..issued
        BY <1>1 DEF Records
      <4> QED
        BY <1>1, <4>1, <4>2
    <3>2. CASE inv[i].pc # what
      BY <2>1, <3>2 DEF SessionIInv, RetryHasNewSession
    <3> QED
      BY <3>1, <3>2
  <2>8. LastOrNone' /\ LoginsJustified'
    BY <1>3 DEF SessionIInv, LastOrNone, LoginsJustified
  <2>9. LoginIsDue'
    <3>1. \A i \in Invocations : inv'[i].source # currentSession'
      <4> SUFFICES ASSUME NEW i \in Invocations PROVE inv'[i].source # currentSession'
        OBVIOUS
      <4>1. inv'[i].source = inv[i].source
        BY <2>1, <2>4
      <4>2. inv[i].source \in 0..issued
        BY <1>1 DEF Records
      <4> QED
        BY <1>1, <1>3, <4>1, <4>2
    <3> QED
      BY <1>1, <1>3, <3>1 DEF LoginIsDue, Rejected
  <2> QED
    BY <2>5, <2>6, <2>7, <2>8, <2>9 DEF SessionIInv
\* An answer without a session.
<1>4. ASSUME NEW what \in {"login", "refresh"},
             IF what = "login" THEN LoginAnswered ELSE RefreshAnswered,
             issued' = issued, currentSession' = currentSession,
             inv' \in [Invocations -> Records],
             \A i \in Invocations \ Awaiting(what) : inv'[i] = inv[i],
             \A i \in Awaiting(what) : inv'[i].pc \in {"react", "relogin", "failed"},
             \/ loginsDue' = loginsDue + 1
             \/ loginsDue' = loginsDue /\ what = "refresh"
                   /\ \A i \in Awaiting(what) : inv'[i].pc # "relogin"
      PROVE  SessionIInv'
  <2>1. OneRequestEach'
    BY <1>2, <1>4
  <2>2. TypeOK'
    <3>1. inFlightLogin' \in BOOLEAN /\ inFlightRefresh' \in BOOLEAN
      BY <1>1, <1>4 DEF LoginAnswered, RefreshAnswered
    <3>2. logins' \in 0..1 /\ refreshes' \in 0..1
      BY <2>1 DEF OneRequestEach
    <3>3. loginsDue' \in Int
      BY <1>1, <1>4
    <3> QED
      BY <1>1, <1>4, <3>1, <3>2, <3>3 DEF TypeOK, Records
  <2>3. RetryHasNewSession'
    BY <1>4 DEF SessionIInv, RetryHasNewSession
  <2>4. LastOrNone' /\ LoginsJustified'
    BY <1>1, <1>4 DEF SessionIInv, LastOrNone, LoginsJustified
  <2>5. LoginIsDue'
    <3>1. CASE loginsDue' = loginsDue + 1
      BY <1>1, <3>1 DEF SessionIInv, LoginIsDue, LoginsJustified
    <3>2. CASE loginsDue' = loginsDue /\ what = "refresh"
                   /\ \A i \in Awaiting(what) : inv'[i].pc # "relogin"
      <4>1. Rejected' => Rejected
        BY <1>4, <3>2 DEF Rejected
      <4>2. inFlightLogin' = inFlightLogin
        BY <1>4, <3>2 DEF RefreshAnswered
      <4> QED
        BY <1>4, <3>2, <4>1, <4>2 DEF SessionIInv, LoginIsDue
    <3> QED
      BY <1>4, <3>1, <3>2
  <2> QED
    BY <2>1, <2>2, <2>3, <2>4, <2>5 DEF SessionIInv
<1>5. CASE LoginSucceeds
  BY <1>3, <1>5 DEF LoginSucceeds
<1>6. CASE RefreshSucceeds
  BY <1>3, <1>6 DEF RefreshSucceeds
<1>7. ASSUME NEW unauthorized \in BOOLEAN, LoginFails(unauthorized) PROVE SessionIInv'
  <2>1. \A i \in Invocations :
           inv'[i] = IF inv[i].pc = "login"
                     THEN IF inv[i].next = "fresh" /\ unauthorized
                          THEN [inv[i] EXCEPT !.pc = "react", !.session = 0]
                          ELSE [inv[i] EXCEPT !.pc = "failed"]
                     ELSE inv[i]
    BY <1>7 DEF LoginFails, Resume, Awaiting
  <2>2. \A i \in Invocations : inv'[i] \in Records
    BY <1>1, <2>1, ChangedRecords
  <2>3. inv' \in [Invocations -> Records]
    BY <1>7, <2>2 DEF LoginFails, Resume
  <2>4. \A i \in Awaiting("login") : inv'[i].pc \in {"react", "relogin", "failed"}
    BY <1>1, <2>1 DEF Awaiting, Records
  <2> QED
    BY <1>4, <1>7, <2>1, <2>3, <2>4 DEF LoginFails, Awaiting
<1>8. CASE RefreshRejected
  <2>1. \A i \in Invocations :
           inv'[i] = IF inv[i].pc = "refresh"
                     THEN IF inv[i].next = "callback"
                          THEN [inv[i] EXCEPT !.pc = "react", !.session = 0]
                          ELSE [inv[i] EXCEPT !.pc = "relogin"]
                     ELSE inv[i]
    BY <1>8 DEF RefreshRejected, Resume, Awaiting
  <2>2. \A i \in Invocations : inv'[i] \in Records
    BY <1>1, <2>1, ChangedRecords
  <2>3. inv' \in [Invocations -> Records]
    BY <1>8, <2>2 DEF RefreshRejected, Resume
  <2>4. \A i \in Awaiting("refresh") : inv'[i].pc \in {"react", "relogin", "failed"}
    BY <1>1, <2>1 DEF Awaiting, Records
  <2> QED
    BY <1>4, <1>8, <2>1, <2>3, <2>4 DEF RefreshRejected, Awaiting
<1>9. CASE RefreshFails
  <2>1. \A i \in Invocations :
           inv'[i] = IF inv[i].pc = "refresh" THEN [inv[i] EXCEPT !.pc = "failed"] ELSE inv[i]
    BY <1>9 DEF RefreshFails, Resume, Awaiting
  <2>2. \A i \in Invocations : inv'[i] \in Records
    BY <1>1, <2>1, ChangedRecords
  <2>3. inv' \in [Invocations -> Records]
    BY <1>9, <2>2 DEF RefreshFails, Resume
  <2>4. \A i \in Awaiting("refresh") : inv'[i].pc = "failed"
    BY <1>1, <2>1 DEF Awaiting, Records
  <2> QED
    BY <1>4, <1>9, <2>1, <2>3, <2>4 DEF RefreshFails, Awaiting
<1> QED
  BY <1>5, <1>6, <1>7, <1>8, <1>9 DEF Answer

\* A token that expires changes nothing of this.
LEMMA ExpiresKeeps == ASSUME SessionIInv, NEW s, Expires(s) PROVE SessionIInv'
<1>1. /\ s \in 1..issued /\ expiring' = expiring \cup {s}
      /\ UNCHANGED <<currentSession, requests, inv, issued, loginsDue>>
  BY DEF Expires
<1>2. TypeOK' /\ OneRequestEach'
  BY <1>1 DEF SessionIInv, TypeOK, OneRequestEach, Awaiting, requests
<1>3. LoginsJustified' /\ RetryHasNewSession' /\ LastOrNone' /\ LoginIsDue'
  BY <1>1 DEF SessionIInv, LoginsJustified, RetryHasNewSession, LastOrNone, LoginIsDue,
              Rejected, requests
<1> QED
  BY <1>2, <1>3 DEF SessionIInv

\* Before the first login nothing was issued and nobody awaits a session.
LEMMA SessionInit == Init => SessionIInv
<1> SUFFICES ASSUME Init PROVE SessionIInv
  OBVIOUS
<1>1. TypeOK
  <2>1. NewInvocation \in Records
    BY DEF NewInvocation, Records, Init
  <2>2. inv \in [Invocations -> Records]
    BY <2>1 DEF Init
  <2>3. /\ currentSession \in 0..issued /\ issued \in Nat /\ loginsDue \in Int
        /\ expiring \subseteq 1..issued /\ logins \in 0..1 /\ refreshes \in 0..1
    BY DEF Init
  <2>4. inFlightLogin \in BOOLEAN /\ inFlightRefresh \in BOOLEAN
    BY DEF Init
  <2> QED
    BY <2>2, <2>3, <2>4 DEF TypeOK, Records
<1>2. \A i \in Invocations : inv[i].pc = "idle"
  BY DEF Init, NewInvocation
<1>3. OneRequestEach /\ RetryHasNewSession
  BY <1>2 DEF Init, OneRequestEach, Awaiting, RetryHasNewSession
<1>4. LoginsJustified /\ LastOrNone /\ LoginIsDue
  BY DEF Init, LoginsJustified, LastOrNone, LoginIsDue
<1> QED
  BY <1>1, <1>3, <1>4 DEF SessionIInv

\* Where the session runner stands still, its invariant holds on.
LEMMA SessionRests == ASSUME SessionIInv, UNCHANGED vars PROVE SessionIInv'
<1> USE DEF vars, requests
<1>1. TypeOK' /\ OneRequestEach'
  BY DEF SessionIInv, TypeOK, OneRequestEach, Awaiting
<1>2. LoginsJustified' /\ RetryHasNewSession' /\ LastOrNone' /\ LoginIsDue'
  BY DEF SessionIInv, LoginsJustified, RetryHasNewSession, LastOrNone, LoginIsDue, Rejected
<1> QED
  BY <1>1, <1>2 DEF SessionIInv

\* The session runner on its own: one request of each kind at a time, no login without a
\* reason, and no retry with the session that was refused.
THEOREM SessionInvariance == Spec => []SessionIInv
<1>1. ASSUME SessionIInv, UNCHANGED vars PROVE SessionIInv'
  BY <1>1, SessionRests
<1>2. ASSUME SessionIInv, Next PROVE SessionIInv'
  <2>1. ASSUME NEW i \in Invocations, Run(i) \/ Step(i) PROVE SessionIInv'
    <3>1. CASE InvocationStep(i)
      BY <1>2, <3>1, InvocationStepKeeps
    <3>2. CASE CallbackReturns(i) \/ CallbackFails(i) \/ CallbackExpired(i)
      BY <1>2, <3>2, GoesKeeps DEF CallbackReturns, CallbackFails, CallbackExpired
    <3> QED
      BY <2>1, <3>1, <3>2 DEF Step, InvocationStep
  <2> QED
    BY <1>2, <2>1, AnswerKeeps, ExpiresKeeps DEF Next
<1> QED
  BY <1>1, <1>2, SessionInit, PTL DEF Spec

--------------------------------------------------------------------------------
Carrier(i) == IF coalesced THEN 1 ELSE i

\* The settings of the node are the ones it started with.
Settings ==
    /\ plan \in Plans /\ continueOnFail \in BOOLEAN /\ coalesced \in BOOLEAN
    /\ coalesced => \A i \in Invocations : Sql(i) /\ plan[i].channel = plan[1].channel

\* An item has an invocation of the session runner only while an attempt is under way.
InvocationFollows ==
    \A i \in Invocations :
        /\ item[i].pc \notin {"session", "sent"} => inv[i].pc = "idle"
        /\ item[i].pc = "sent" => inv[i].pc \in {"callback", "retry"}
        /\ item[i].pc # "queued" => i \in Work
        /\ item[i].pc = "backoff" => item[i].attempt < MaxRetries

\* The expired tokens that an invocation cannot have used any more.
UsedUp(i) == {s \in expiring : /\ inv[i].pc = "callback" => s < inv[i].session
                               /\ inv[i].pc = "fresh" => s <= inv[i].session}

\* Each run of an SQL command but the last has been repeated for an error that the agent
\* called transient, or (on the socket only) has used up an expired token.
Allowance(i) == IF plan[i].channel = "socket" THEN UsedUp(Carrier(i)) ELSE {}
Counted ==
    \A i \in Invocations :
        Sql(i) => executed[i] <= hints[i] + Cardinality(Allowance(i))
                                      + IF Ended(Carrier(i)) THEN 1 ELSE 0

\* The first error is that of an item that threw, and the output holds the other items
\* that ended, in the order of the input.
Recorded ==
    /\ \A i \in Invocations : item[i].pc = "threw" => firstError # 0
    /\ firstError # 0 => item[firstError].pc = "threw"
    /\ ToSet(output) = {i \in Invocations : item[i].pc \in {"answered", "error"}}
    /\ \A j, k \in DOMAIN output : j < k => output[j] < output[k]

\* Items are taken in order, and one by one unless all of them only read.
TakenInOrder ==
    /\ \A i, k \in Work : i < k /\ item[k].pc # "queued" => item[i].pc # "queued"
    /\ SideBySide = 1 =>
          \A i, k \in Work : Active(i) /\ k # i => ~Active(k) /\ (i < k => item[k].pc = "queued")

NodeIInv ==
    /\ SessionIInv
    /\ NodeTypeOK
    /\ Settings
    /\ InvocationFollows
    /\ Counted
    /\ Recorded
    /\ TakenInOrder
    /\ SettledTogether

--------------------------------------------------------------------------------
\* What the invariant says of the sets it is about.
LEMMA Basics ==
    ASSUME NodeIInv
    PROVE  /\ Work \subseteq Invocations /\ Invocations \subseteq Nat \ {0}
           /\ coalesced => 1 \in Invocations
           /\ IsFiniteSet(expiring) /\ Cardinality(expiring) \in Nat
           /\ \A i \in Invocations :
                 /\ Carrier(i) \in Invocations /\ Carrier(i) \in Work
                 /\ Allowance(i) \subseteq expiring /\ IsFiniteSet(Allowance(i))
                 /\ Cardinality(Allowance(i)) \in Nat /\ executed[i] \in Nat /\ hints[i] \in Nat
                 /\ plan[i].kind \in {"metadata", "read", "write"}
                 /\ plan[i].channel \in {"rest", "socket"}
<1>1. /\ plan \in Seq([kind : {"metadata", "read", "write"}, channel : {"rest", "socket"},
                      ownId : BOOLEAN])
      /\ plan # << >> /\ Invocations = DOMAIN plan
  BY NodeExecutionAssumption DEF NodeIInv, Settings
<1>2. Invocations = 1..Len(plan) /\ 1 \in Invocations
  BY <1>1
<1>3. expiring \subseteq 1..issued /\ issued \in Nat /\ executed \in [Invocations -> Nat]
      /\ hints \in [Invocations -> Nat]
  BY DEF NodeIInv, SessionIInv, TypeOK, NodeTypeOK
<1>4. IsFiniteSet(expiring)
  <2>1. IsFiniteSet(1..issued)
    BY <1>3, FS_Interval
  <2> QED
    BY <1>3, <2>1, FS_Subset
<1>5. \A i \in Invocations : Allowance(i) \subseteq expiring
  BY DEF Allowance, UsedUp
<1>6. \A i \in Invocations : IsFiniteSet(Allowance(i)) /\ Cardinality(Allowance(i)) \in Nat
  BY <1>4, <1>5, FS_Subset, FS_CardinalityType
<1>7. Cardinality(expiring) \in Nat
  BY <1>4, FS_CardinalityType
<1>8. \A i \in Invocations : /\ plan[i].kind \in {"metadata", "read", "write"}
                             /\ plan[i].channel \in {"rest", "socket"}
  <2>1. \A i \in Invocations : plan[i] \in [kind : {"metadata", "read", "write"},
                                           channel : {"rest", "socket"}, ownId : BOOLEAN]
    BY <1>1, <1>2, ElementOfSeq
  <2> QED
    BY <2>1
<1>9. /\ Work \subseteq Invocations
      /\ \A i \in Invocations : Carrier(i) \in Invocations /\ Carrier(i) \in Work
  BY <1>2 DEF Work, Carrier
<1>10. Invocations \subseteq Nat \ {0}
  BY <1>1, <1>2
<1> HIDE DEF Work, Carrier, Allowance
<1> QED
  BY <1>2, <1>3, <1>4, <1>5, <1>6, <1>7, <1>8, <1>9, <1>10

\* What an invocation has used up stays used up, whatever it does to go on: the session it
\* comes back with is a newer one.
LEMMA StepUsesUp ==
    ASSUME SessionIInv, NEW i \in Invocations, InvocationStep(i)
    PROVE  /\ \A k \in Invocations \ {i} : inv'[k] = inv[k]
           /\ expiring' = expiring /\ UsedUp(i) \subseteq UsedUp(i)'
<1>1. /\ currentSession \in {0, issued} /\ issued \in Nat /\ inv[i] \in Records
      /\ inv \in [Invocations -> Records] /\ expiring \subseteq 1..issued
      /\ inv[i].session \in 0..issued
  BY DEF SessionIInv, LastOrNone, TypeOK, Records
<1>2. expiring' = expiring
  BY DEF InvocationStep, Run, Fresh, React, RefreshesSource, Relogin
\* Either i goes on without a session in hand,
<1>3. ASSUME NEW r \in Records, inv' = [inv EXCEPT ![i] = r], r.pc \notin {"callback", "fresh"}
      PROVE  UsedUp(i) \subseteq UsedUp(i)'
  BY <1>1, <1>2, <1>3 DEF UsedUp
\* with the last one that was issued,
<1>4. ASSUME NEW r \in Records, inv' = [inv EXCEPT ![i] = r], r.pc = "fresh", r.session = issued
      PROVE  UsedUp(i) \subseteq UsedUp(i)'
  <2> SUFFICES ASSUME NEW s \in expiring PROVE s <= issued
    BY <1>1, <1>2, <1>4 DEF UsedUp
  <2> QED
    BY <1>1
<1>5. ASSUME NEW r \in Records, inv' = [inv EXCEPT ![i] = r], r.pc = "callback",
             inv[i].pc = "fresh",
             r.session = issued /\ issued # inv[i].session
      PROVE  UsedUp(i) \subseteq UsedUp(i)'
  <2> SUFFICES ASSUME NEW s \in UsedUp(i) PROVE s < issued
    BY <1>1, <1>2, <1>5 DEF UsedUp
  <2>1. s <= inv[i].session /\ s \in Int
    BY <1>1, <1>5 DEF UsedUp
  <2> QED
    BY <1>1, <1>5, <2>1
\* or with one that has not expired.
<1>6. ASSUME NEW r \in Records, inv' = [inv EXCEPT ![i] = r], r.pc = "callback",
             inv[i].pc = "fresh", r.session = inv[i].session, inv[i].session \notin expiring
      PROVE  UsedUp(i) \subseteq UsedUp(i)'
  <2> SUFFICES ASSUME NEW s \in UsedUp(i) PROVE s < inv[i].session
    BY <1>1, <1>2, <1>6 DEF UsedUp
  <2>1. s <= inv[i].session /\ s \in Int /\ s # inv[i].session
    BY <1>1, <1>6 DEF UsedUp
  <2> QED
    BY <1>1, <2>1
<1>7. ASSUME NEW cur, NEW next \in Nexts \ {"callback"}, Ensure(i, cur, next),
             cur \in {0, currentSession}
      PROVE  UsedUp(i) \subseteq UsedUp(i)' /\ \A k \in Invocations \ {i} : inv'[k] = inv[k]
  <2>1. CASE cur # 0
    <3> DEFINE r == [inv[i] EXCEPT !.pc = next, !.session = cur]
    <3>1. r \in Records /\ r.pc = next /\ r.session = issued
      <4>1. cur = issued /\ cur \in 0..issued
        BY <1>1, <1>7, <2>1
      <4> QED
        BY <1>1, <1>7, <4>1 DEF Records, Nexts
    <3>2. inv' = [inv EXCEPT ![i] = r]
      BY <1>7, <2>1 DEF Ensure
    <3> HIDE DEF r
    <3> QED
      BY <1>1, <1>3, <1>4, <1>7, <3>1, <3>2 DEF Nexts
  <2>2. CASE cur = 0
    <3> DEFINE r == [inv[i] EXCEPT !.pc = "login", !.next = next]
    <3>1. r \in Records /\ r.pc = "login"
      BY <1>1, <1>7 DEF Records, Nexts
    <3>2. inv' = [inv EXCEPT ![i] = r]
      BY <1>7, <2>2 DEF Ensure
    <3> HIDE DEF r
    <3> QED
      BY <1>1, <1>3, <3>1, <3>2
  <2> QED
    BY <2>1, <2>2
<1>8. ASSUME NEW s \in 0..issued, NEW next \in {"callback", "retry"}, Refresh(i, s, next),
             next = "callback" => inv[i].pc = "fresh" /\ s = inv[i].session
      PROVE  UsedUp(i) \subseteq UsedUp(i)' /\ \A k \in Invocations \ {i} : inv'[k] = inv[k]
  <2>1. CASE Renewed(s)
    <3> DEFINE r == [inv[i] EXCEPT !.pc = next, !.session = currentSession, !.source = s]
    <3>1. r \in Records /\ r.pc = next /\ r.session = currentSession
      <4>1. currentSession \in 0..issued
        BY <1>1
      <4> QED
        BY <1>1, <4>1 DEF Records
    <3>2. inv' = [inv EXCEPT ![i] = r]
      BY <1>8, <2>1 DEF Refresh
    <3>3. currentSession = issued /\ issued # s
      BY <1>1, <2>1 DEF Renewed
    <3> HIDE DEF r
    <3> QED
      BY <1>1, <1>3, <1>5, <1>8, <3>1, <3>2, <3>3
  <2>2. CASE ~Renewed(s)
    <3> DEFINE r == [inv[i] EXCEPT !.pc = "refresh", !.next = next, !.source = s]
    <3>1. r \in Records /\ r.pc = "refresh"
      BY <1>1 DEF Records
    <3>2. inv' = [inv EXCEPT ![i] = r]
      BY <1>8, <2>2 DEF Refresh
    <3> HIDE DEF r
    <3> QED
      BY <1>1, <1>3, <3>1, <3>2
  <2> QED
    BY <2>1, <2>2
<1>9. CASE Run(i)
  BY <1>2, <1>7, <1>9 DEF Run, Nexts
<1>10. CASE Fresh(i)
  <2>1. CASE inv[i].session \in expiring
    BY <1>1, <1>2, <1>8, <1>10, <2>1 DEF Fresh
  <2>2. CASE inv[i].session \notin expiring
    <3> DEFINE r == [inv[i] EXCEPT !.pc = "callback"]
    <3>1. r \in Records /\ r.pc = "callback" /\ r.session = inv[i].session
      BY <1>1 DEF Records
    <3>2. inv' = [inv EXCEPT ![i] = r] /\ inv[i].pc = "fresh"
      BY <1>10, <2>2 DEF Fresh
    <3> HIDE DEF r
    <3> QED
      BY <1>1, <1>2, <1>6, <2>2, <3>1, <3>2
  <2> QED
    BY <2>1, <2>2
<1>11. CASE React(i)
  <2>1. CASE inv[i].session # 0
    BY <1>1, <1>2, <1>8, <1>11, <2>1 DEF React
  <2>2. CASE inv[i].session = 0 /\ currentSession # 0
    BY <1>1, <1>2, <1>8, <1>11, <2>2 DEF React
  <2>3. CASE inv[i].session = 0 /\ currentSession = 0
    BY <1>1, <1>2, <1>7, <1>11, <2>3 DEF React, Nexts
  <2> QED
    BY <2>1, <2>2, <2>3
<1>12. CASE RefreshesSource(i)
  BY <1>1, <1>2, <1>8, <1>12 DEF RefreshesSource
<1>13. CASE Relogin(i)
  BY <1>2, <1>7, <1>13 DEF Relogin, GivenUp, Nexts
<1> QED
  BY <1>2, <1>9, <1>10, <1>11, <1>12, <1>13 DEF InvocationStep

\* So does an answer of the hub, which nobody but those who await it sees.
LEMMA AnswerUsesUp ==
    ASSUME SessionIInv, Answer, NEW i \in Invocations
    PROVE  /\ inv[i].pc \notin {"login", "refresh"} => inv'[i] = inv[i]
           /\ expiring' = expiring /\ UsedUp(i) \subseteq UsedUp(i)'
<1>1. /\ issued \in Nat /\ inv[i] \in Records /\ expiring \subseteq 1..issued
  BY DEF SessionIInv, TypeOK, Records
<1>2. /\ expiring' = expiring
      /\ \/ inv'[i] = inv[i]
         \/ /\ inv[i].pc \in {"login", "refresh"}
            /\ inv'[i].pc \in {"react", "relogin", "failed"} \/ inv'[i].session = issued + 1
  <2>1. CASE LoginSucceeds \/ RefreshSucceeds
    BY <1>1, <2>1 DEF LoginSucceeds, RefreshSucceeds, Resume, Awaiting, WithNewSession, Records
  <2>2. ASSUME NEW unauthorized \in BOOLEAN, LoginFails(unauthorized)
        PROVE  /\ expiring' = expiring
               /\ \/ inv'[i] = inv[i]
                  \/ inv[i].pc = "login" /\ inv'[i].pc \in {"react", "failed"}
    BY <1>1, <2>2 DEF LoginFails, Resume, Awaiting, Records
  <2>3. CASE RefreshRejected
    BY <1>1, <2>3 DEF RefreshRejected, Resume, Awaiting, Records
  <2>4. CASE RefreshFails
    BY <1>1, <2>4 DEF RefreshFails, Resume, Awaiting, Records
  <2> QED
    BY <2>1, <2>2, <2>3, <2>4 DEF Answer
<1>3. CASE inv'[i] = inv[i]
  BY <1>2, <1>3 DEF UsedUp
<1>4. CASE inv'[i].pc \in {"react", "relogin", "failed"}
  BY <1>2, <1>4 DEF UsedUp
<1>5. CASE inv'[i].session = issued + 1
  <2> SUFFICES ASSUME NEW s \in expiring PROVE s < issued + 1 /\ s <= issued + 1
    BY <1>2, <1>5 DEF UsedUp
  <2> QED
    BY <1>1
<1> QED
  BY <1>2, <1>3, <1>4, <1>5

--------------------------------------------------------------------------------
\* Whatever uses up an attempt of an invocation adds to the executions it allows.
LEMMA AllowanceGrows ==
    ASSUME NodeIInv, SessionIInv', plan' = plan, coalesced' = coalesced,
           \A i \in Invocations : UsedUp(i) \subseteq UsedUp(i)'
    PROVE  \A i \in Invocations : /\ Cardinality(Allowance(i)') \in Nat
                                  /\ Cardinality(Allowance(i)) <= Cardinality(Allowance(i)')
<1> SUFFICES ASSUME NEW i \in Invocations
             PROVE  /\ Cardinality(Allowance(i)') \in Nat
                    /\ Cardinality(Allowance(i)) <= Cardinality(Allowance(i)')
  OBVIOUS
<1>1. IsFiniteSet(expiring')
  <2>1. expiring' \subseteq 1..issued' /\ issued' \in Nat
    BY DEF SessionIInv, TypeOK
  <2>2. IsFiniteSet(1..issued')
    BY <2>1, FS_Interval
  <2> QED
    BY <2>1, <2>2, FS_Subset
<1>2. Allowance(i)' \subseteq expiring'
  BY DEF Allowance, UsedUp
<1>3. Allowance(i) \subseteq Allowance(i)'
  <2>1. Carrier(i)' = Carrier(i) /\ Carrier(i) \in Invocations
    BY Basics DEF Carrier
  <2> QED
    BY <2>1 DEF Allowance
<1> HIDE DEF Allowance
<1>4. IsFiniteSet(Allowance(i)')
  BY <1>1, <1>2, FS_Subset
<1> QED
  BY <1>3, <1>4, FS_Subset, FS_CardinalityType

\* What happens to the session of an item is no concern of the node's.
LEMMA QuietStep ==
    ASSUME NodeIInv, SessionIInv', UNCHANGED <<setting, nodeVars>>,
           \A i \in Invocations : item[i].pc # "session" => inv'[i] = inv[i],
           \A i \in Invocations : UsedUp(i) \subseteq UsedUp(i)'
    PROVE  NodeIInv'
<1>1. /\ item' = item /\ firstError' = firstError /\ output' = output /\ node' = node
      /\ executed' = executed /\ hints' = hints /\ plan' = plan
      /\ continueOnFail' = continueOnFail /\ coalesced' = coalesced
  BY DEF setting, nodeVars
<1>2. NodeTypeOK'
  BY <1>1 DEF NodeIInv, NodeTypeOK, SessionIInv
<1>3. Settings'
  BY <1>1 DEF NodeIInv, Settings, Sql
<1>4. Work' = Work /\ SideBySide' = SideBySide /\ \A i \in Invocations : Active(i)' = Active(i)
  BY <1>1 DEF Work, SideBySide, ReadOnly, Active
<1>5. InvocationFollows'
  BY <1>1, <1>4 DEF NodeIInv, InvocationFollows
<1>6. Counted'
  <2> SUFFICES ASSUME NEW i \in Invocations, Sql(i)
               PROVE  executed[i] <= hints[i] + Cardinality(Allowance(i)') + IF Ended(Carrier(i)) THEN 1 ELSE 0
    BY <1>1 DEF Counted, Sql, Ended, Carrier
  <2>1. executed[i] <= hints[i] + Cardinality(Allowance(i)) + IF Ended(Carrier(i)) THEN 1 ELSE 0
    BY DEF NodeIInv, Counted
  <2>2. /\ Cardinality(Allowance(i)') \in Nat /\ Cardinality(Allowance(i)) \in Nat
        /\ Cardinality(Allowance(i)) <= Cardinality(Allowance(i)')
        /\ executed[i] \in Nat /\ hints[i] \in Nat
    BY <1>1, AllowanceGrows, Basics
  <2> QED
    BY <2>1, <2>2
<1>7. Recorded' /\ TakenInOrder'
  BY <1>1, <1>4 DEF NodeIInv, Recorded, TakenInOrder, Active
<1>8. SettledTogether'
  <2>1. ASSUME node # "running", NEW i \in Invocations PROVE ~Active(i) /\ inv'[i].pc = "idle"
    BY <2>1 DEF NodeIInv, SettledTogether, Active
  <2> QED
    BY <1>1, <1>4, <2>1 DEF NodeIInv, SettledTogether, Active
<1> QED
  BY <1>2, <1>3, <1>5, <1>6, <1>7, <1>8 DEF NodeIInv

\* Where an item stands when it is taken or its attempt under way.
LEMMA AtWork ==
    ASSUME NodeIInv, NEW i \in Invocations, Take(i) \/ Active(i)
    PROVE  /\ i \in Work /\ node = "running" /\ ~Ended(i)
           /\ \A k \in Work : k < i => item[k].pc # "queued"
           /\ SideBySide = 1 => \A k \in Work : k # i => ~Active(k)
           /\ SideBySide = 1 => \A k \in Work : i < k => item[k].pc = "queued"
<1>1. Work \subseteq Invocations /\ Invocations \subseteq Nat
  BY Basics
<1>2. CASE Take(i)
  <2>1. /\ i \in Work /\ node = "running" /\ item[i].pc = "queued"
        /\ \A k \in Work : k < i => item[k].pc # "queued"
        /\ Cardinality({k \in Work : Active(k)}) < SideBySide
    BY <1>2 DEF Take
  <2>2. \A k \in Work : i < k => item[k].pc = "queued"
    BY <2>1 DEF NodeIInv, TakenInOrder
  <2>3. ASSUME SideBySide = 1 PROVE \A k \in Work : ~Active(k)
    <3> DEFINE A == {k \in Work : Active(k)}
    <3>1. IsFiniteSet(A)
      BY <1>1, AuthSessionAssumption, FS_Subset
    <3>2. Cardinality(A) < 1
      BY <2>1, <2>3
    <3> HIDE DEF A
    <3>3. A = {}
      BY <3>1, <3>2, FS_CardinalityType, FS_EmptySet
    <3> QED
      BY <3>3 DEF A
  <2> QED
    BY <2>1, <2>2, <2>3 DEF Ended
<1>3. CASE Active(i)
  <2>1. i \in Work /\ node = "running" /\ ~Ended(i) /\ item[i].pc # "queued"
    BY <1>3 DEF NodeIInv, InvocationFollows, SettledTogether, Active, Ended
  <2>2. \A k \in Work : k < i => item[k].pc # "queued"
    BY <2>1 DEF NodeIInv, TakenInOrder
  <2>3. SideBySide = 1 => \A k \in Work : k # i => ~Active(k) /\ (i < k => item[k].pc = "queued")
    BY <1>3, <2>1 DEF NodeIInv, TakenInOrder
  <2> QED
    BY <1>1, <2>1, <2>2, <2>3
<1> QED
  BY <1>2, <1>3

\* A result finds its place among the others.
LEMMA PushKeepsOrder ==
    ASSUME NodeIInv, NEW i \in Invocations, Take(i) \/ Active(i), Push(i)
    PROVE  /\ output' \in Seq(Invocations) /\ ToSet(output') = ToSet(output) \cup {i}
           /\ \A j, k \in DOMAIN output' : j < k => output'[j] < output'[k]
<1>1. /\ output \in Seq(Invocations) /\ Invocations \subseteq Nat
      /\ ToSet(output) = {k \in Invocations : item[k].pc \in {"answered", "error"}}
      /\ \A j, k \in DOMAIN output : j < k => output[j] < output[k]
  BY Basics DEF NodeIInv, NodeTypeOK, Recorded
<1> DEFINE n == Len(output)
<1>2. n \in Nat /\ DOMAIN output = 1..n
  BY <1>1
<1>3. \A j \in 1..n : output[j] \in Invocations /\ output[j] \in Nat
  BY <1>1, <1>2, ElementOfSeq
<1>4. ASSUME NEW slot \in 1..(n + 1),
             \A k \in 1..n : IF k < slot THEN output[k] < i ELSE output[k] > i,
             Len(output') = n + 1, output' \in Seq(Invocations),
             \A k \in 1..(n + 1) : output'[k] = IF k < slot THEN output[k]
                                               ELSE IF k = slot THEN i ELSE output[k - 1]
      PROVE  /\ ToSet(output') = ToSet(output) \cup {i}
             /\ \A j, k \in DOMAIN output' : j < k => output'[j] < output'[k]
  <2>1. DOMAIN output' = 1..(n + 1)
    BY <1>4
  <2>2. ASSUME NEW k \in 1..n
        PROVE  \E j \in 1..(n + 1) : output'[j] = output[k]
    <3>1. CASE k < slot
      BY <1>2, <1>4, <3>1
    <3>2. CASE ~(k < slot)
      <4>1. k + 1 \in 1..(n + 1) /\ ~(k + 1 < slot) /\ k + 1 # slot /\ (k + 1) - 1 = k
        BY <1>2, <3>2
      <4> QED
        BY <1>4, <4>1
    <3> QED
      BY <3>1, <3>2
  <2>3. ASSUME NEW k \in 1..(n + 1)
        PROVE  output'[k] = i \/ \E j \in 1..n : output'[k] = output[j]
    <3>1. CASE k < slot
      BY <1>2, <1>4, <3>1
    <3>2. CASE k = slot
      BY <1>4, <3>2
    <3>3. CASE k > slot
      <4>1. k - 1 \in 1..n /\ ~(k < slot) /\ k # slot
        BY <1>2, <3>3
      <4> QED
        BY <1>4, <4>1
    <3> QED
      BY <3>1, <3>2, <3>3
  <2>4. output'[slot] = i /\ slot \in 1..(n + 1)
    BY <1>4
  <2>5. ToSet(output') = ToSet(output) \cup {i}
    <3>1. \A v : v \in ToSet(output) <=> \E k \in 1..n : v = output[k]
      BY <1>2 DEF ToSet
    <3>2. \A v : v \in ToSet(output') <=> \E k \in 1..(n + 1) : v = output'[k]
      BY <2>1 DEF ToSet
    <3>3. ToSet(output') \subseteq ToSet(output) \cup {i}
      BY <2>3, <3>1, <3>2
    <3>4. ToSet(output) \cup {i} \subseteq ToSet(output')
      BY <2>2, <2>4, <3>1, <3>2
    <3> QED
      BY <3>3, <3>4
  <2>6. ASSUME NEW j \in 1..(n + 1), NEW k \in 1..(n + 1), j < k
        PROVE  output'[j] < output'[k]
    <3>1. i \in Nat
      BY <1>1
    <3>2. CASE k < slot
      <4>1. j \in 1..n /\ k \in 1..n /\ j < slot
        BY <1>2, <2>6, <3>2
      <4> QED
        BY <1>1, <1>2, <1>4, <2>6, <3>2, <4>1
    <3>3. CASE k = slot
      BY <1>2, <1>4, <2>6, <3>3
    <3>4. CASE j = slot
      <4>1. k - 1 \in 1..n /\ ~(k - 1 < slot) /\ ~(k < slot) /\ k # slot
        BY <1>2, <2>6, <3>4
      <4> QED
        BY <1>3, <1>4, <3>1, <3>4, <4>1
    <3>5. CASE j < slot /\ k > slot
      <4>1. k - 1 \in 1..n /\ j \in 1..n /\ j < k - 1 /\ ~(k < slot) /\ k # slot
        BY <1>2, <3>5
      <4> QED
        BY <1>1, <1>2, <1>4, <3>5, <4>1
    <3>6. CASE j > slot
      <4>1. k - 1 \in 1..n /\ j - 1 \in 1..n /\ j - 1 < k - 1
        BY <1>2, <2>6, <3>6
      <4>2. ~(k < slot) /\ k # slot /\ ~(j < slot) /\ j # slot
        BY <2>6, <3>6
      <4> QED
        BY <1>1, <1>2, <1>4, <4>1, <4>2
    <3> QED
      BY <2>6, <3>2, <3>3, <3>4, <3>5, <3>6
  <2> QED
    BY <2>1, <2>5, <2>6
<1>5. CASE SideBySide = 1
  <2>1. output' = Append(output, i)
    BY <1>5 DEF Push
  <2>2. /\ output' \in Seq(Invocations) /\ Len(output') = n + 1
        /\ \A k \in 1..(n + 1) : output'[k] = IF k < n + 1 THEN output[k] ELSE i
    BY <1>1, <1>2, <2>1, AppendProperties
  <2>3. ASSUME NEW k \in 1..n PROVE output[k] < i
    <3>1. output[k] \in ToSet(output)
      BY <1>2 DEF ToSet
    <3>2. item[output[k]].pc \in {"answered", "error"} /\ output[k] \in Work
      BY <1>1, <3>1 DEF NodeIInv, InvocationFollows
    <3>3. /\ ~Ended(i)
          /\ \A m \in Work : i < m => item[m].pc = "queued"
      BY <1>5, AtWork
    <3>4. output[k] # i
      BY <3>2, <3>3 DEF Ended
    <3> QED
      BY <1>1, <1>3, <3>2, <3>3, <3>4
  <2>4. /\ n + 1 \in 1..(n + 1)
        /\ \A k \in 1..n : k < n + 1
        /\ \A k \in 1..(n + 1) : k < n + 1 \/ k = n + 1
    BY <1>2
  <2> QED
    BY <1>4, <2>2, <2>3, <2>4
<1>6. CASE SideBySide # 1
  <2>1. PICK slot \in 1..(n + 1) :
           /\ \A k \in 1..n : IF k < slot THEN output[k] < i ELSE output[k] > i
           /\ output' = InsertAt(output, slot, i)
    BY <1>2, <1>6 DEF Push
  <2> DEFINE before == SubSeq(output, 1, slot - 1)
  <2> DEFINE after == SubSeq(output, slot, n)
  <2>2. /\ before \in Seq(Invocations) /\ Len(before) = slot - 1
        /\ \A k \in 1..(slot - 1) : before[k] = output[k]
    BY <1>1, <1>2, SubSeqProperties
  <2>3. /\ after \in Seq(Invocations) /\ Len(after) = n + 1 - slot
        /\ \A k \in 1..(n + 1 - slot) : after[k] = output[slot + k - 1]
    BY <1>1, <1>2, SubSeqProperties
  <2>4. output' = (before \o <<i>>) \o after
    BY <2>1 DEF InsertAt
  <2> HIDE DEF before, after
  <2>5. /\ before \o <<i>> \in Seq(Invocations) /\ Len(before \o <<i>>) = slot
        /\ \A k \in 1..slot : (before \o <<i>>)[k] = IF k < slot THEN output[k] ELSE i
    BY <2>2
  <2> DEFINE start == before \o <<i>>
  <2> HIDE DEF start
  <2>6. /\ output' \in Seq(Invocations) /\ Len(output') = n + 1
        /\ \A k \in 1..(n + 1) : output'[k] = IF k <= slot THEN start[k] ELSE after[k - slot]
    BY <1>2, <2>3, <2>4, <2>5, ConcatProperties DEF start
  <2>7. ASSUME NEW k \in 1..(n + 1)
        PROVE  output'[k] = IF k < slot THEN output[k] ELSE IF k = slot THEN i ELSE output[k - 1]
    <3>1. CASE k <= slot
      BY <1>2, <2>5, <2>6, <3>1 DEF start
    <3>2. CASE k > slot
      <4>1. k - slot \in 1..(n + 1 - slot) /\ slot + (k - slot) - 1 = k - 1
        BY <1>2, <3>2
      <4> QED
        BY <2>3, <2>6, <3>2, <4>1
    <3> QED
      BY <3>1, <3>2
  <2> QED
    BY <1>4, <2>1, <2>6, <2>7
<1> QED
  BY <1>5, <1>6

\* The numbers of the items of an attempt that ends, or is given up for another one.
LEMMA EndCounts ==
    ASSUME NodeIInv, NEW i \in Invocations, Take(i) \/ Active(i),
           SessionIInv', inv'[i].pc = "idle", \A k \in Invocations \ {i} : inv'[k] = inv[k],
           UNCHANGED <<expiring, setting>>,
           NEW p \in {"answered", "error", "threw", "backoff"},
           item' = [item EXCEPT ![i].pc = p],
           p = "backoff" /\ Sql(i) => executed' = executed \/ hints' = OneMore(hints, i),
           executed' = executed \/ Ran(i), hints' = hints \/ hints' = OneMore(hints, i)
    PROVE  /\ executed' \in [Invocations -> Nat] /\ hints' \in [Invocations -> Nat]
           /\ Counted'
<1>1. plan' = plan /\ coalesced' = coalesced
  BY DEF setting
<1>2. /\ executed \in [Invocations -> Nat] /\ hints \in [Invocations -> Nat]
      /\ item' \in [Invocations -> {item'[k] : k \in Invocations}]
      /\ \A k \in Invocations \ {i} : item'[k] = item[k]
      /\ item'[i].pc = p
  BY DEF NodeIInv, NodeTypeOK
<1>3. executed' \in [Invocations -> Nat] /\ hints' \in [Invocations -> Nat]
  <2>1. OneMore(executed, i) \in [Invocations -> Nat] /\ OneMore(hints, i) \in [Invocations -> Nat]
    BY <1>2 DEF OneMore
  <2> QED
    BY <1>2, <2>1 DEF Ran
<1>4. i \in Work /\ ~Ended(i)
  BY AtWork
<1>5. \A k \in Invocations : UsedUp(k) \subseteq UsedUp(k)'
  BY DEF UsedUp
<1>6. ASSUME NEW k \in Invocations, Sql(k)
      PROVE  executed'[k] <= hints'[k] + Cardinality(Allowance(k)')
                                          + IF Ended(Carrier(k))' THEN 1 ELSE 0
  <2>1. /\ Cardinality(Allowance(k)') \in Nat /\ Cardinality(Allowance(k)) \in Nat
        /\ Cardinality(Allowance(k)) <= Cardinality(Allowance(k)')
        /\ executed[k] \in Nat /\ executed'[k] \in Nat
        /\ hints[k] \in Nat /\ hints'[k] \in Nat /\ hints[k] <= hints'[k]
    <3>1. hints' = OneMore(hints, i) => hints[k] <= hints'[k]
      BY <1>2 DEF OneMore
    <3> QED
      BY <1>1, <1>2, <1>3, <1>5, <3>1, AllowanceGrows, Basics
  <2>2. executed[k] <= hints[k] + Cardinality(Allowance(k)) + IF Ended(Carrier(k)) THEN 1 ELSE 0
    BY <1>6 DEF NodeIInv, Counted
  <2>3. Carrier(k)' = Carrier(k) /\ Carrier(k) \in Invocations
    BY <1>1, Basics DEF Carrier
  <2>4. CASE Carrier(k) = i
    <3>1. Sql(i) /\ ~Ended(Carrier(k))
      BY <1>4, <1>6, <2>4 DEF Carrier, NodeIInv, Settings
    <3>2. executed'[k] <= executed[k] + 1
      BY <1>2, <2>1 DEF Ran, OneMore
    <3>5. k \in Carried(i)
      BY <2>4 DEF Carried, Carrier
    <3>3. CASE p = "backoff"
      <4>1. executed'[k] = executed[k] \/ hints'[k] = hints[k] + 1
        BY <1>2, <3>1, <3>3, <3>5 DEF OneMore
      <4>2. executed[k] <= hints[k] + Cardinality(Allowance(k))
        BY <2>1, <2>2, <3>1
      <4> QED
        BY <2>1, <3>2, <4>1, <4>2
    <3>4. CASE p # "backoff"
      <4>1. Ended(Carrier(k))'
        BY <1>2, <2>3, <2>4, <3>4 DEF Ended
      <4>2. executed[k] <= hints[k] + Cardinality(Allowance(k))
        BY <2>1, <2>2, <3>1
      <4> QED
        BY <2>1, <3>2, <4>1, <4>2
    <3> QED
      BY <3>3, <3>4
  <2>5. CASE Carrier(k) # i
    <3>1. ~coalesced
      BY <1>4, <2>5 DEF Carrier, Work
    <3>2. executed'[k] = executed[k]
      BY <1>2, <2>5, <3>1 DEF Ran, OneMore, Carried, Carrier
    <3>3. Ended(Carrier(k))' = Ended(Carrier(k))
      BY <1>2, <2>3, <2>5 DEF Ended
    <3> QED
      BY <2>1, <2>2, <3>2, <3>3
  <2> QED
    BY <2>4, <2>5
<1>7. Counted'
  BY <1>1, <1>6 DEF Counted, Sql
<1> QED
  BY <1>3, <1>7

\* An item that ends, or an attempt that is given up for another one.
LEMMA EndKeeps ==
    ASSUME NodeIInv, NEW i \in Invocations, Take(i) \/ Active(i),
           SessionIInv', inv'[i].pc = "idle", \A k \in Invocations \ {i} : inv'[k] = inv[k],
           UNCHANGED <<expiring, setting, node>>,
           NEW p \in {"answered", "error", "threw", "backoff"},
           item' = [item EXCEPT ![i].pc = p],
           p \in {"answered", "error"} => Push(i) /\ firstError' = firstError,
           p = "threw" => output' = output
                          /\ firstError' = IF firstError = 0 THEN i ELSE firstError,
           p = "backoff" => output' = output /\ firstError' = firstError
                            /\ item[i].attempt < MaxRetries,
           p = "backoff" /\ Sql(i) => executed' = executed \/ hints' = OneMore(hints, i),
           executed' = executed \/ Ran(i), hints' = hints \/ hints' = OneMore(hints, i)
    PROVE  NodeIInv'
<1>1. /\ plan' = plan /\ continueOnFail' = continueOnFail /\ coalesced' = coalesced
      /\ node' = node /\ expiring' = expiring
  BY DEF setting
<1>2. /\ item' \in [Invocations -> [pc : {"queued", "session", "sent", "backoff", "answered",
                                         "error", "threw"},
                                   attempt : 0..MaxRetries, known : BOOLEAN]]
      /\ \A k \in Invocations \ {i} : item'[k] = item[k]
      /\ item'[i].pc = p /\ item'[i].attempt = item[i].attempt
  BY DEF NodeIInv, NodeTypeOK
<1>3. /\ i \in Work /\ node = "running" /\ ~Ended(i)
      /\ \A k \in Work : k < i => item[k].pc # "queued"
      /\ SideBySide = 1 => \A k \in Work : k # i => ~Active(k)
      /\ SideBySide = 1 => \A k \in Work : i < k => item[k].pc = "queued"
  BY AtWork
<1>4. Work \subseteq Invocations /\ Invocations \subseteq Nat \ {0}
  BY Basics
<1>5. executed' \in [Invocations -> Nat] /\ hints' \in [Invocations -> Nat] /\ Counted'
  BY EndCounts
<1>6. /\ output' \in Seq(Invocations)
      /\ ToSet(output') = IF p \in {"answered", "error"} THEN ToSet(output) \cup {i} ELSE ToSet(output)
      /\ \A j, k \in DOMAIN output' : j < k => output'[j] < output'[k]
  <2>1. CASE p \in {"answered", "error"}
    BY <2>1, PushKeepsOrder
  <2>2. CASE p \notin {"answered", "error"}
    <3>1. output' = output
      BY <2>2
    <3> QED
      BY <2>2, <3>1 DEF NodeIInv, NodeTypeOK, Recorded
  <2> QED
    BY <2>1, <2>2
<1>7. firstError' \in Invocations \cup {0}
  BY DEF NodeIInv, NodeTypeOK
<1>8. NodeTypeOK'
  BY <1>1, <1>2, <1>5, <1>6, <1>7 DEF NodeIInv, NodeTypeOK, SessionIInv
<1>9. Settings'
  BY <1>1 DEF NodeIInv, Settings, Sql
<1>10. Work' = Work /\ SideBySide' = SideBySide
  BY <1>1 DEF Work, SideBySide, ReadOnly
<1>11. InvocationFollows'
  BY <1>2, <1>3, <1>10 DEF NodeIInv, InvocationFollows
<1>12. Recorded'
  <2>1. item[i].pc \notin {"answered", "error", "threw"}
    BY <1>3 DEF Ended
  <2>2. \A k \in Invocations : item'[k].pc = "threw" => firstError' # 0
    BY <1>2, <1>4 DEF NodeIInv, Recorded
  <2>3. firstError' # 0 => item'[firstError'].pc = "threw"
    BY <1>2, <1>7, <2>1 DEF NodeIInv, Recorded, NodeTypeOK
  <2>4. ToSet(output') = {k \in Invocations : item'[k].pc \in {"answered", "error"}}
    BY <1>2, <1>6, <2>1 DEF NodeIInv, Recorded
  <2> QED
    BY <1>6, <2>2, <2>3, <2>4 DEF Recorded
<1>13. TakenInOrder'
  <2>1. \A j, k \in Work : j < k /\ item'[k].pc # "queued" => item'[j].pc # "queued"
    BY <1>2, <1>3, <1>4 DEF NodeIInv, TakenInOrder
  <2>2. ASSUME SideBySide = 1, NEW j \in Work, NEW k \in Work, Active(j)', k # j
        PROVE  ~Active(k)' /\ (j < k => item'[k].pc = "queued")
    BY <1>2, <1>3, <1>4, <2>2 DEF Active
  <2> QED
    BY <1>10, <2>1, <2>2 DEF TakenInOrder
<1>14. SettledTogether'
  BY <1>1, <1>3 DEF SettledTogether
<1> QED
  BY <1>8, <1>9, <1>5, <1>11, <1>12, <1>13, <1>14 DEF NodeIInv

\* An item goes on with its attempt.
LEMMA GoesOnKeeps ==
    ASSUME NodeIInv, NEW i \in Invocations, Take(i) \/ Active(i),
           SessionIInv', \A k \in Invocations \ {i} : inv'[k] = inv[k],
           UNCHANGED <<expiring, setting, node, output, firstError, hints>>,
           item'[i] \in [pc : {"session", "sent"}, attempt : 0..MaxRetries, known : BOOLEAN],
           item' = [item EXCEPT ![i] = item'[i]],
           item'[i].pc = "sent" => inv'[i].pc \in {"callback", "retry"},
           executed' \in [Invocations -> Nat], Counted'
    PROVE  NodeIInv'
<1>1. /\ plan' = plan /\ continueOnFail' = continueOnFail /\ coalesced' = coalesced
      /\ node' = node /\ output' = output /\ firstError' = firstError /\ hints' = hints
  BY DEF setting
<1>2. /\ item' \in [Invocations -> [pc : {"queued", "session", "sent", "backoff", "answered",
                                         "error", "threw"},
                                   attempt : 0..MaxRetries, known : BOOLEAN]]
      /\ \A k \in Invocations \ {i} : item'[k] = item[k]
      /\ item'[i].pc \in {"session", "sent"}
  <2>1. item'[i] \in [pc : {"queued", "session", "sent", "backoff", "answered", "error", "threw"},
                      attempt : 0..MaxRetries, known : BOOLEAN]
    OBVIOUS
  <2> QED
    BY <2>1 DEF NodeIInv, NodeTypeOK
<1>3. /\ i \in Work /\ node = "running" /\ ~Ended(i)
      /\ \A k \in Work : k < i => item[k].pc # "queued"
      /\ SideBySide = 1 => \A k \in Work : k # i => ~Active(k)
      /\ SideBySide = 1 => \A k \in Work : i < k => item[k].pc = "queued"
  BY AtWork
<1>4. Work \subseteq Invocations /\ Invocations \subseteq Nat \ {0}
  BY Basics
<1>5. NodeTypeOK'
  BY <1>1, <1>2 DEF NodeIInv, NodeTypeOK, SessionIInv
<1>6. Settings'
  BY <1>1 DEF NodeIInv, Settings, Sql
<1>7. Work' = Work /\ SideBySide' = SideBySide
  BY <1>1 DEF Work, SideBySide, ReadOnly
<1>8. InvocationFollows'
  BY <1>2, <1>3, <1>7 DEF NodeIInv, InvocationFollows
<1>9. Recorded'
  <2>1. item[i].pc \notin {"answered", "error", "threw"}
    BY <1>3 DEF Ended
  <2>2. ToSet(output) = {k \in Invocations : item'[k].pc \in {"answered", "error"}}
    BY <1>2, <2>1 DEF NodeIInv, Recorded
  <2>3. /\ \A k \in Invocations : item'[k].pc = "threw" => firstError # 0
        /\ firstError # 0 => item'[firstError].pc = "threw"
    BY <1>2, <2>1 DEF NodeIInv, Recorded, NodeTypeOK
  <2> QED
    BY <1>1, <2>2, <2>3 DEF NodeIInv, Recorded
<1>10. TakenInOrder'
  <2>1. \A j, k \in Work : j < k /\ item'[k].pc # "queued" => item'[j].pc # "queued"
    BY <1>2, <1>3, <1>4 DEF NodeIInv, TakenInOrder
  <2>2. ASSUME SideBySide = 1, NEW j \in Work, NEW k \in Work, Active(j)', k # j
        PROVE  ~Active(k)' /\ (j < k => item'[k].pc = "queued")
    BY <1>2, <1>3, <1>4, <2>2 DEF Active
  <2> QED
    BY <1>7, <2>1, <2>2 DEF TakenInOrder
<1>11. SettledTogether'
  BY <1>1, <1>3 DEF SettledTogether
<1> QED
  BY <1>5, <1>6, <1>8, <1>9, <1>10, <1>11 DEF NodeIInv

\* A command that did not run now does not count.
LEMMA StillCounted ==
    ASSUME NodeIInv, SessionIInv', NEW i \in Invocations, ~Ended(i), ~Ended(i)',
           UNCHANGED <<setting, executed, hints>>, \A k \in Invocations \ {i} : item'[k] = item[k],
           \A k \in Invocations : UsedUp(k) \subseteq UsedUp(k)'
    PROVE  executed' \in [Invocations -> Nat] /\ Counted'
<1>1. plan' = plan /\ coalesced' = coalesced /\ executed' = executed /\ hints' = hints
  BY DEF setting
<1>2. ASSUME NEW k \in Invocations, Sql(k)
      PROVE  executed[k] <= hints[k] + Cardinality(Allowance(k)') + IF Ended(Carrier(k))' THEN 1 ELSE 0
  <2>1. /\ Cardinality(Allowance(k)') \in Nat /\ Cardinality(Allowance(k)) \in Nat
        /\ Cardinality(Allowance(k)) <= Cardinality(Allowance(k)')
        /\ executed[k] \in Nat /\ hints[k] \in Nat
    BY <1>1, AllowanceGrows, Basics
  <2>2. executed[k] <= hints[k] + Cardinality(Allowance(k)) + IF Ended(Carrier(k)) THEN 1 ELSE 0
    BY <1>2 DEF NodeIInv, Counted
  <2>3. Carrier(k)' = Carrier(k) /\ Carrier(k) \in Invocations
    BY <1>1, Basics DEF Carrier
  <2>4. Ended(Carrier(k))' = Ended(Carrier(k))
    <3>1. CASE Carrier(k) = i
      BY <2>3, <3>1 DEF Ended
    <3>2. CASE Carrier(k) # i
      BY <2>3, <3>2 DEF Ended
    <3> QED
      BY <3>1, <3>2
  <2> QED
    BY <2>1, <2>2, <2>4
<1>3. Counted'
  BY <1>1, <1>2 DEF Counted, Sql
<1> QED
  BY <1>1, <1>3 DEF NodeIInv, NodeTypeOK

\* A failure that leaves open whether an SQL command ran is final, unless the agent itself
\* calls it transient.
LEMMA MishapsAreFinal ==
    ASSUME NEW p, p.kind # "metadata", p.channel \in {"rest", "socket"},
           NEW err \in Mishaps(p), NEW attempt
    PROVE  err.class = "agent" \/ ~ShouldRetry(p, err, attempt)
<1>1. CASE err = TimeoutError
  BY <1>1 DEF TimeoutError, PlugError, ShouldRetry
<1>2. CASE err = ValidationError
  BY <1>2 DEF ValidationError, PlugError, ShouldRetry
<1>3. CASE err = StreamAborted
  <2>1. ~err.retryable /\ err.class = "plug"
    BY <1>3, Zenon DEF StreamAborted, PlugError
  <2> QED
    BY <2>1 DEF ShouldRetry
<1>7. CASE err \in Transient \cup {RpcError("RPC_-32000", TRUE, TRUE)}
  <2>1. PICK code, hint, reconcile : err = RpcError(code, hint, reconcile)
    BY <1>7 DEF Transient
  <2> QED
    BY <2>1 DEF RpcError, PlugError
<1>4. CASE err \in {RequestFailed, MissingStatus, Disconnected, AppError}
  <2>1. err.code \in Ambiguous /\ err.class = "plug"
    BY <1>4 DEF RequestFailed, MissingStatus, Disconnected, AppError, PlugError, Ambiguous
  <2> QED
    BY <2>1 DEF ShouldRetry, MayHaveRun
<1>5. CASE err = PullRejected
  <2>1. err.dispatched /\ err.class = "plug"
    BY <1>5 DEF PullRejected, ControlError, PlugError
  <2> QED
    BY <2>1 DEF ShouldRetry, MayHaveRun
<1>6. CASE p.channel = "rest" /\ err = HttpError(503)
  <2>1. err.status = 503 /\ err.class = "plug" /\ p.channel # "socket"
    BY <1>6 DEF HttpError, PlugError
  <2> QED
    BY <2>1 DEF ShouldRetry, MayHaveRun
<1> QED
  BY <1>1, <1>2, <1>3, <1>4, <1>5, <1>6, <1>7 DEF Mishaps

\* A failed attempt: the item ends, or waits for its next attempt.
LEMMA AttemptFailsKeeps ==
    ASSUME NodeIInv, NEW i \in Invocations, Active(i), NEW err, AttemptFails(i, err),
           executed' = executed \/ Ran(i),
           ShouldRetry(plan[i], err, item[i].attempt) /\ Sql(i)
              => err.class = "agent" \/ executed' = executed
    PROVE  NodeIInv'
<1>1. /\ inv' = [inv EXCEPT ![i] = NewInvocation]
      /\ UNCHANGED <<currentSession, requests, issued, expiring, loginsDue>>
      /\ UNCHANGED <<expiring, setting, node>>
  BY DEF AttemptFails
<1>2. NewInvocation \in Records /\ NewInvocation.pc = "idle"
  BY DEF NewInvocation, Records, NodeIInv, SessionIInv, TypeOK
<1>3. SessionIInv'
  BY <1>1, <1>2, MoveKeeps DEF NodeIInv
<1>4. inv'[i].pc = "idle" /\ \A k \in Invocations \ {i} : inv'[k] = inv[k]
  BY <1>1, <1>2 DEF NodeIInv, SessionIInv, TypeOK
<1>5. CASE ShouldRetry(plan[i], err, item[i].attempt)
  <2>1. /\ item' = [item EXCEPT ![i].pc = "backoff"]
        /\ firstError' = firstError /\ output' = output
        /\ hints' = IF err.class = "agent" /\ Sql(i) THEN OneMore(hints, i) ELSE hints
    BY <1>5 DEF AttemptFails
  <2>2. item[i].attempt < MaxRetries
    BY <1>5 DEF ShouldRetry
  <2> QED
    BY <1>1, <1>3, <1>4, <1>5, <2>1, <2>2, EndKeeps
<1>6. CASE ~ShouldRetry(plan[i], err, item[i].attempt)
  <2>1. Fails(i) /\ hints' = hints
    BY <1>6 DEF AttemptFails
  <2>2. CASE continueOnFail
    <3>1. item' = [item EXCEPT ![i].pc = "error"] /\ Push(i) /\ firstError' = firstError
      BY <2>1, <2>2 DEF Fails
    <3> QED
      BY <1>1, <1>3, <1>4, <2>1, <3>1, EndKeeps
  <2>3. CASE ~continueOnFail
    <3>1. /\ item' = [item EXCEPT ![i].pc = "threw"] /\ output' = output
          /\ firstError' = IF firstError = 0 THEN i ELSE firstError
      BY <2>1, <2>3 DEF Fails
    <3> QED
      BY <1>1, <1>3, <1>4, <2>1, <3>1, EndKeeps
  <2> QED
    BY <2>2, <2>3
<1> QED
  BY <1>5, <1>6

--------------------------------------------------------------------------------
\* A worker takes an item, its backoff ends, or its callback sends the command.
LEMMA BeginKeeps ==
    ASSUME NodeIInv, NEW i \in Invocations, Begin(i) \/ Wakes(i) \/ Dispatch(i)
    PROVE  NodeIInv'
<1>1. /\ UNCHANGED vars /\ UNCHANGED <<setting, executed, hints>>
      /\ UNCHANGED <<expiring, setting, node, output, firstError, hints>>
      /\ inv' = inv /\ expiring' = expiring
  BY DEF Begin, Wakes, Dispatch, vars
<1>2. SessionIInv'
  BY <1>1, SessionRests DEF NodeIInv
<1>3. Take(i) \/ Active(i)
  BY DEF Begin, Wakes, Dispatch, Active
<1>4. item \in [Invocations -> [pc : {"queued", "session", "sent", "backoff", "answered",
                                      "error", "threw"},
                                attempt : 0..MaxRetries, known : BOOLEAN]]
  BY DEF NodeIInv, NodeTypeOK
<1>5. /\ item'[i] \in [pc : {"session", "sent"}, attempt : 0..MaxRetries, known : BOOLEAN]
      /\ item' = [item EXCEPT ![i] = item'[i]]
      /\ item'[i].pc = "sent" => inv'[i].pc \in {"callback", "retry"}
  <2>1. CASE Begin(i)
    <3> DEFINE r == [item[i] EXCEPT !.pc = "session"]
    <3>1. r \in [pc : {"session", "sent"}, attempt : 0..MaxRetries, known : BOOLEAN]
          /\ r.pc = "session"
      BY <1>4
    <3>2. item' = [item EXCEPT ![i] = r]
      BY <2>1 DEF Begin
    <3> HIDE DEF r
    <3> QED
      BY <1>4, <3>1, <3>2
  <2>2. CASE Wakes(i)
    <3> DEFINE r == [pc |-> "session", attempt |-> item[i].attempt + 1, known |-> FALSE]
    <3>1. item[i].attempt \in 0..MaxRetries /\ item[i].attempt < MaxRetries
      BY <1>4, <2>2 DEF Wakes, NodeIInv, InvocationFollows
    <3>2. item[i].attempt + 1 \in 0..MaxRetries
      BY <3>1, NodeExecutionAssumption
    <3>3. r \in [pc : {"session", "sent"}, attempt : 0..MaxRetries, known : BOOLEAN]
          /\ r.pc = "session"
      BY <3>2
    <3>4. item' = [item EXCEPT ![i] = r]
      BY <2>2 DEF Wakes
    <3> HIDE DEF r
    <3> QED
      BY <1>4, <3>3, <3>4
  <2>3. CASE Dispatch(i)
    <3> DEFINE r == [item[i] EXCEPT !.pc = "sent", !.known = @ /\ HasId(i)]
    <3>1. (item[i].known /\ HasId(i)) \in BOOLEAN
      OBVIOUS
    <3>2. r \in [pc : {"session", "sent"}, attempt : 0..MaxRetries, known : BOOLEAN]
          /\ r.pc = "sent"
      BY <1>4, <3>1
    <3>3. item' = [item EXCEPT ![i] = r]
      BY <2>3 DEF Dispatch
    <3>4. inv[i].pc \in {"callback", "retry"}
      BY <2>3 DEF Dispatch
    <3> HIDE DEF r
    <3> QED
      BY <1>1, <1>4, <3>2, <3>3, <3>4
  <2> QED
    BY <2>1, <2>2, <2>3
<1>6. ~Ended(i) /\ ~Ended(i)' /\ \A k \in Invocations \ {i} : item'[k] = item[k]
  <2>1. ~Ended(i)
    BY <1>3, AtWork
  <2> QED
    BY <1>4, <1>5, <2>1 DEF Ended
<1>7. \A k \in Invocations : UsedUp(k) \subseteq UsedUp(k)'
  BY <1>1 DEF UsedUp
<1>8. executed' \in [Invocations -> Nat] /\ Counted'
  BY <1>1, <1>2, <1>6, <1>7, StillCounted
<1> QED
  BY <1>1, <1>2, <1>3, <1>5, <1>8, GoesOnKeeps

\* The node's own parameters do not make a command.
LEMMA BuildFailsKeeps ==
    ASSUME NodeIInv, NEW i \in Invocations, BuildFails(i) PROVE NodeIInv'
<1>1. /\ UNCHANGED vars /\ UNCHANGED <<expiring, setting, node>> /\ executed' = executed
      /\ inv' = inv /\ hints' = hints
  BY DEF BuildFails, vars
<1>2. SessionIInv'
  BY <1>1, SessionRests DEF NodeIInv
<1>3. Take(i) /\ Fails(i)
  BY DEF BuildFails
<1>4. inv'[i].pc = "idle"
  BY <1>1, <1>3 DEF Take, NodeIInv, InvocationFollows
<1>5. CASE continueOnFail
  <2>1. item' = [item EXCEPT ![i].pc = "error"] /\ Push(i) /\ firstError' = firstError
    BY <1>3, <1>5 DEF Fails
  <2> QED
    BY <1>1, <1>2, <1>3, <1>4, <2>1, EndKeeps
<1>6. CASE ~continueOnFail
  <2>1. /\ item' = [item EXCEPT ![i].pc = "threw"] /\ output' = output
        /\ firstError' = IF firstError = 0 THEN i ELSE firstError
    BY <1>3, <1>6 DEF Fails
  <2> QED
    BY <1>1, <1>2, <1>3, <1>4, <2>1, EndKeeps
<1> QED
  BY <1>5, <1>6

\* A command is answered.
LEMMA SucceedsKeeps ==
    ASSUME NodeIInv, NEW i \in Invocations, Succeeds(i) PROVE NodeIInv'
<1>1. /\ inv' = [inv EXCEPT ![i] = NewInvocation]
      /\ UNCHANGED <<currentSession, requests, issued, expiring, loginsDue>>
      /\ UNCHANGED <<expiring, setting, node>>
      /\ Ran(i) /\ Active(i) /\ hints' = hints
  BY DEF Succeeds, Waits, Active
<1>2. NewInvocation \in Records /\ NewInvocation.pc = "idle"
  BY DEF NewInvocation, Records, NodeIInv, SessionIInv, TypeOK
<1>3. SessionIInv'
  BY <1>1, <1>2, MoveKeeps DEF NodeIInv
<1>4. inv'[i].pc = "idle" /\ \A k \in Invocations \ {i} : inv'[k] = inv[k]
  BY <1>1, <1>2 DEF NodeIInv, SessionIInv, TypeOK
<1>5. item' = [item EXCEPT ![i].pc = "answered"] /\ Push(i) /\ firstError' = firstError
  BY DEF Succeeds, Answered
<1> QED
  BY <1>1, <1>3, <1>4, <1>5, EndKeeps

\* The callback is run once more: a run that it may have had by then is accounted for by
\* the token that expired.
LEMMA CallsBackKeeps ==
    ASSUME NodeIInv, NEW i \in Invocations, item[i].pc = "sent", inv[i].pc = "callback",
           inv[i].session \in expiring,
           NotRun \/ (plan[i].channel = "socket" /\ Ran(i)),
           item' = [item EXCEPT ![i].pc = "session", ![i].known = @ \/ executed' # executed],
           Goes(i, "react"), UNCHANGED <<setting, firstError, output, node, hints>>
    PROVE  NodeIInv'
<1>1. /\ Active(i) /\ ~Ended(i)
      /\ plan' = plan /\ coalesced' = coalesced /\ expiring' = expiring
      /\ UNCHANGED <<expiring, setting, node, output, firstError, hints>>
  BY DEF Active, Ended, setting, Goes
<1>2. SessionIInv'
  BY GoesKeeps DEF NodeIInv
<1>3. inv'[i].pc = "react" /\ \A k \in Invocations \ {i} : inv'[k] = inv[k]
  BY DEF Goes, NodeIInv, SessionIInv, TypeOK
<1>4. /\ item'[i] \in [pc : {"session", "sent"}, attempt : 0..MaxRetries, known : BOOLEAN]
      /\ item' = [item EXCEPT ![i] = item'[i]]
      /\ item'[i].pc = "session"
      /\ \A k \in Invocations \ {i} : item'[k] = item[k]
  <2> DEFINE r == [item[i] EXCEPT !.pc = "session", !.known = @ \/ executed' # executed]
  <2>1. item \in [Invocations -> [pc : {"queued", "session", "sent", "backoff", "answered",
                                        "error", "threw"},
                                  attempt : 0..MaxRetries, known : BOOLEAN]]
    BY DEF NodeIInv, NodeTypeOK
  <2>2. (item[i].known \/ executed' # executed) \in BOOLEAN
    OBVIOUS
  <2>3. /\ r \in [pc : {"session", "sent"}, attempt : 0..MaxRetries, known : BOOLEAN]
        /\ r.pc = "session"
    BY <2>1, <2>2
  <2>4. item' = [item EXCEPT ![i] = r]
    OBVIOUS
  <2> HIDE DEF r
  <2> QED
    BY <2>1, <2>3, <2>4
<1>5. \A k \in Invocations : UsedUp(k) \subseteq UsedUp(k)'
  BY <1>1, <1>3 DEF UsedUp
<1>6. ~Ended(i)'
  BY <1>4 DEF Ended
<1>7. executed' \in [Invocations -> Nat] /\ Counted'
  <2>1. CASE NotRun
    <3>1. UNCHANGED <<setting, executed, hints>>
      BY <1>1, <2>1 DEF NotRun
    <3> QED
      BY <1>1, <1>2, <1>4, <1>5, <1>6, <3>1, StillCounted
  <2>2. CASE plan[i].channel = "socket" /\ Ran(i)
    <3>1. executed \in [Invocations -> Nat] /\ executed' \in [Invocations -> Nat]
      BY <2>2 DEF NodeIInv, NodeTypeOK, Ran, OneMore
    <3>2. ASSUME NEW k \in Invocations, Sql(k)
          PROVE  executed'[k] <= hints'[k] + Cardinality(Allowance(k)')
                                          + IF Ended(Carrier(k))' THEN 1 ELSE 0
      <4>1. /\ Cardinality(Allowance(k)') \in Nat /\ Cardinality(Allowance(k)) \in Nat
            /\ Cardinality(Allowance(k)) <= Cardinality(Allowance(k)')
            /\ executed[k] \in Nat /\ executed'[k] \in Nat
            /\ hints[k] \in Nat /\ hints' = hints
        BY <1>1, <1>2, <1>5, <3>1, AllowanceGrows, Basics
      <4>2. executed[k] <= hints[k] + Cardinality(Allowance(k)) + IF Ended(Carrier(k)) THEN 1 ELSE 0
        BY <3>2 DEF NodeIInv, Counted
      <4>3. Carrier(k)' = Carrier(k) /\ Carrier(k) \in Invocations
        BY <1>1, Basics DEF Carrier
      <4>4. CASE Carrier(k) = i
        <5>1. plan[k].channel = "socket"
          BY <2>2, <4>4 DEF Carrier, NodeIInv, Settings
        <5>2. Allowance(k) = UsedUp(i) /\ Allowance(k)' = expiring
          BY <1>1, <1>3, <4>3, <4>4, <5>1 DEF Allowance, UsedUp
        <5>3. inv[i].session \in Int
          BY DEF NodeIInv, SessionIInv, TypeOK
        <5>4. UsedUp(i) \subseteq expiring \ {inv[i].session}
          BY <5>3 DEF UsedUp
        <5>5. IsFiniteSet(expiring) /\ Cardinality(expiring) \in Nat
          BY Basics
        <5>6. /\ IsFiniteSet(expiring \ {inv[i].session})
              /\ Cardinality(expiring \ {inv[i].session}) = Cardinality(expiring) - 1
          BY <5>5, FS_RemoveElement
        <5>7. Cardinality(Allowance(k)) <= Cardinality(expiring) - 1
          BY <5>2, <5>4, <5>6, FS_Subset
        <5>8. executed[k] <= hints[k] + Cardinality(Allowance(k))
          BY <1>1, <4>1, <4>2, <4>4
        <5>9. executed'[k] <= executed[k] + 1
          BY <2>2, <4>1 DEF Ran, OneMore
        <5>10. executed'[k] <= hints'[k] + Cardinality(Allowance(k)')
          BY <4>1, <5>2, <5>5, <5>7, <5>8, <5>9
        <5> QED
          BY <4>1, <5>10
      <4>5. CASE Carrier(k) # i
        <5>1. ~coalesced
          BY <1>1, <4>5, AtWork DEF Carrier, Work
        <5>2. executed'[k] = executed[k]
          BY <2>2, <3>1, <4>5, <5>1 DEF Ran, OneMore, Carried, Carrier
        <5>3. Ended(Carrier(k))' = Ended(Carrier(k))
          BY <1>4, <4>3, <4>5 DEF Ended
        <5> QED
          BY <4>1, <4>2, <5>2, <5>3
      <4> QED
        BY <4>4, <4>5
    <3>3. Counted'
      BY <1>1, <3>2 DEF Counted, Sql
    <3> QED
      BY <3>1, <3>3
  <2> QED
    BY <2>1, <2>2
<1> QED
  BY <1>1, <1>2, <1>3, <1>4, <1>7, GoesOnKeeps

\* What the hub and the agent make of a command.
LEMMA ReplyKeeps == ASSUME NodeIInv, NEW i \in Invocations, Reply(i) PROVE NodeIInv'
<1>1. CASE Succeeds(i)
  BY <1>1, SucceedsKeeps
<1>2. CASE Replayed(i)
  BY <1>2, AttemptFailsKeeps DEF Replayed, Waits, NotRun, Active
<1>3. CASE Unauthorized(i)
  <2>1. Active(i) /\ (executed' = executed \/ Ran(i))
    BY <1>3 DEF Unauthorized, Waits, Active, NotRun
  <2>2. CASE inv[i].pc = "callback"
    BY <1>3, <2>2, CallsBackKeeps DEF Unauthorized, Waits
  <2>3. CASE inv[i].pc # "callback"
    <3>1. ~ShouldRetry(plan[i], HttpError(401), item[i].attempt)
      <4>1. HttpError(401).auth /\ HttpError(401).class = "plug"
        BY DEF HttpError, PlugError
      <4> QED
        BY <4>1 DEF ShouldRetry
    <3>2. AttemptFails(i, HttpError(401))
      BY <1>3, <2>3 DEF Unauthorized
    <3> QED
      BY <2>1, <3>1, <3>2, AttemptFailsKeeps
  <2> QED
    BY <2>2, <2>3
<1>4. ASSUME NEW err \in Refusals(plan[i]), Refused(i, err) PROVE NodeIInv'
  BY <1>4, AttemptFailsKeeps DEF Refused, Waits, NotRun, Active
<1>5. ASSUME NEW err \in Mishaps(plan[i]), Mishap(i, err) PROVE NodeIInv'
  <2>1. Active(i) /\ (executed' = executed \/ Ran(i)) /\ AttemptFails(i, err)
    BY <1>5 DEF Mishap, Waits, Active, NotRun
  <2>2. ShouldRetry(plan[i], err, item[i].attempt) /\ Sql(i) => err.class = "agent"
    BY <1>5, Basics, MishapsAreFinal DEF Sql
  <2> QED
    BY <2>1, <2>2, AttemptFailsKeeps
<1> QED
  BY <1>1, <1>2, <1>3, <1>4, <1>5 DEF Reply

\* What the node does about an item.
LEMMA OwnKeeps == ASSUME NodeIInv, NEW i \in Invocations, Own(i) PROVE NodeIInv'
<1>1. CASE Begin(i) \/ Wakes(i) \/ Dispatch(i)
  BY <1>1, BeginKeeps
<1>2. CASE BuildFails(i)
  BY <1>2, BuildFailsKeeps
<1>3. CASE Session(i)
  <2>1. InvocationStep(i) /\ UNCHANGED <<setting, nodeVars>> /\ item[i].pc = "session"
    BY <1>3 DEF Session, InvocationStep
  <2>2. SessionIInv'
    BY <2>1, InvocationStepKeeps DEF NodeIInv
  <2>3. /\ \A k \in Invocations \ {i} : inv'[k] = inv[k]
        /\ expiring' = expiring /\ UsedUp(i) \subseteq UsedUp(i)'
    BY <2>1, StepUsesUp DEF NodeIInv
  <2>4. \A k \in Invocations : UsedUp(k) \subseteq UsedUp(k)'
    <3>1. \A k \in Invocations \ {i} : UsedUp(k) \subseteq UsedUp(k)'
      BY <2>3 DEF UsedUp
    <3> QED
      BY <2>3, <3>1
  <2> QED
    BY <2>1, <2>2, <2>3, <2>4, QuietStep
<1>4. ASSUME NEW err \in SessionErrors, SessionFails(i, err) PROVE NodeIInv'
  BY <1>4, AttemptFailsKeeps DEF SessionFails, NotRun, Active
<1> QED
  BY <1>1, <1>2, <1>3, <1>4 DEF Own

\* The hub answers a request for a session, or a token expires.
LEMMA HubKeeps ==
    ASSUME NodeIInv, HubAnswersSession \/ \E s \in 1..issued : TokenExpires(s)
    PROVE  NodeIInv'
<1>1. CASE HubAnswersSession
  <2>1. Answer /\ UNCHANGED <<setting, nodeVars>>
    BY <1>1 DEF HubAnswersSession
  <2>2. SessionIInv'
    BY <2>1, AnswerKeeps DEF NodeIInv
  <2>3. ASSUME NEW i \in Invocations
        PROVE  /\ item[i].pc # "session" => inv'[i] = inv[i]
               /\ UsedUp(i) \subseteq UsedUp(i)'
    <3>1. item[i].pc # "session" => inv[i].pc \notin {"login", "refresh"}
      BY DEF NodeIInv, InvocationFollows
    <3> QED
      BY <2>1, <3>1, AnswerUsesUp DEF NodeIInv
  <2> QED
    BY <2>1, <2>2, <2>3, QuietStep
<1>2. ASSUME NEW s \in 1..issued, TokenExpires(s) PROVE NodeIInv'
  <2>1. Expires(s) /\ UNCHANGED <<setting, nodeVars>> /\ inv' = inv /\ expiring \subseteq expiring'
    BY <1>2 DEF TokenExpires, Expires
  <2>2. SessionIInv'
    BY <2>1, ExpiresKeeps DEF NodeIInv
  <2>3. \A i \in Invocations : UsedUp(i) \subseteq UsedUp(i)'
    BY <2>1 DEF UsedUp
  <2> QED
    BY <2>1, <2>2, <2>3, QuietStep
<1> QED
  BY <1>1, <1>2

\* The workers have ended and the node with them.
LEMMA ReturnKeeps == ASSUME NodeIInv, Return PROVE NodeIInv'
<1>1. /\ UNCHANGED vars /\ inv' = inv /\ expiring' = expiring
      /\ plan' = plan /\ continueOnFail' = continueOnFail /\ coalesced' = coalesced
      /\ item' = item /\ firstError' = firstError /\ output' = output /\ executed' = executed
      /\ hints' = hints
      /\ node' = (IF firstError # 0 THEN "threw" ELSE "returned")
      /\ WorkersEnd
  BY DEF Return, vars, setting
<1>2. SessionIInv'
  BY <1>1, SessionRests DEF NodeIInv
<1>3. NodeTypeOK'
  BY <1>1, <1>2 DEF NodeIInv, NodeTypeOK, SessionIInv
<1>4. Settings' /\ Counted'
  BY <1>1 DEF NodeIInv, Settings, Sql, Counted, Ended, Carrier, Allowance, UsedUp
<1>5. InvocationFollows' /\ Recorded' /\ TakenInOrder'
  BY <1>1 DEF NodeIInv, InvocationFollows, Recorded, TakenInOrder, Work, SideBySide, ReadOnly,
              Active
<1>6. SettledTogether'
  <2>1. ASSUME NEW i \in Invocations PROVE ~Active(i) /\ inv[i].pc = "idle"
    BY <1>1 DEF WorkersEnd, Active, Ended, NodeIInv, InvocationFollows
  <2>2. firstError # 0 => item[firstError].pc = "threw"
    BY DEF NodeIInv, Recorded
  <2>3. ASSUME firstError = 0 PROVE ToSet(output) = Work
    <3>1. \A i \in Work : Ended(i)
      BY <1>1, <2>3 DEF WorkersEnd, Stops
    <3>2. \A i \in Work : item[i].pc \in {"answered", "error"}
      BY <2>3, <3>1, Basics DEF Ended, NodeIInv, Recorded
    <3>3. \A i \in Invocations : item[i].pc \in {"answered", "error"} => i \in Work
      BY DEF NodeIInv, InvocationFollows
    <3> QED
      BY <3>2, <3>3, Basics DEF NodeIInv, Recorded
  <2>4. \A j, k \in DOMAIN output : j < k => output[j] < output[k]
    BY DEF NodeIInv, Recorded
  <2> QED
    BY <1>1, <2>1, <2>2, <2>3, <2>4 DEF SettledTogether, Active, Work
<1> QED
  BY <1>2, <1>3, <1>4, <1>5, <1>6 DEF NodeIInv

\* The node starts in order.
LEMMA NodeInitIInv == NodeInit => NodeIInv
<1> SUFFICES ASSUME NodeInit PROVE NodeIInv
  OBVIOUS
<1>1. Init /\ plan \in Plans /\ continueOnFail \in BOOLEAN /\ coalesced \in BOOLEAN
  BY DEF NodeInit
<1>2. SessionIInv
  BY <1>1, SessionInit
<1>3. \A i \in Invocations : /\ item[i] = NewItem /\ executed[i] = 0 /\ hints[i] = 0
                             /\ inv[i].pc = "idle"
  BY <1>1 DEF NodeInit, Init, NewInvocation
<1>4. NodeTypeOK
  <2>1. 0 \in 0..MaxRetries
    BY NodeExecutionAssumption
  <2>2. item \in [Invocations -> [pc : {"queued", "session", "sent", "backoff", "answered",
                                        "error", "threw"},
                                  attempt : 0..MaxRetries, known : BOOLEAN]]
    BY <2>1 DEF NodeInit, NewItem
  <2>3. output \in Seq(Invocations) /\ executed \in [Invocations -> Nat]
        /\ hints \in [Invocations -> Nat]
    BY DEF NodeInit
  <2> QED
    BY <1>2, <2>2, <2>3 DEF NodeTypeOK, NodeInit, SessionIInv
<1>5. Settings
  BY <1>1 DEF NodeInit, Settings, Sql
<1>6. InvocationFollows
  BY <1>3 DEF InvocationFollows, NewItem
<1>7. Counted
  <2> SUFFICES ASSUME NEW i \in Invocations
               PROVE  0 <= 0 + Cardinality(Allowance(i)) + IF Ended(Carrier(i)) THEN 1 ELSE 0
    BY <1>3 DEF Counted
  <2>1. Allowance(i) = {}
    BY DEF Allowance, UsedUp, NodeInit, Init
  <2> QED
    BY <2>1, FS_EmptySet
<1>8. Recorded
  <2>1. ToSet(output) = {} /\ DOMAIN output = {}
    BY DEF NodeInit, ToSet
  <2> QED
    BY <1>3, <2>1 DEF Recorded, NodeInit, NewItem
<1>9. TakenInOrder
  <2>1. \A i \in Work : item[i].pc = "queued"
    <3>1. 1 \in Invocations
      BY <1>1, NodeExecutionAssumption
    <3> QED
      BY <1>3, <3>1 DEF Work, NewItem
  <2> QED
    BY <2>1 DEF TakenInOrder, Active
<1>10. SettledTogether
  BY DEF NodeInit, SettledTogether
<1> QED
  BY <1>2, <1>4, <1>5, <1>6, <1>7, <1>8, <1>9, <1>10 DEF NodeIInv

--------------------------------------------------------------------------------
\* Whatever plan the node executes, its invariant holds.
THEOREM NodeInvariance == NodeSpec => []NodeIInv
<1>1. ASSUME NodeIInv, UNCHANGED nvars PROVE NodeIInv'
  <2>1. /\ UNCHANGED <<setting, nodeVars>> /\ UNCHANGED vars /\ inv' = inv /\ expiring' = expiring
    BY <1>1 DEF nvars, vars
  <2>2. SessionIInv'
    BY <1>1, <2>1, SessionRests DEF NodeIInv
  <2>3. \A i \in Invocations : UsedUp(i) \subseteq UsedUp(i)'
    BY <2>1 DEF UsedUp
  <2> QED
    BY <1>1, <2>1, <2>2, <2>3, QuietStep
<1>2. ASSUME NodeIInv, NodeNext PROVE NodeIInv'
  BY <1>2, OwnKeeps, ReplyKeeps, HubKeeps, ReturnKeeps DEF NodeNext
<1> QED
  BY <1>1, <1>2, NodeInitIInv, PTL DEF NodeSpec

\* The invocations of the node share one login and one refresh, also when attempts are
\* repeated.
THEOREM OneSession == NodeSpec => []SessionShared
<1>1. NodeIInv => SessionShared
  BY DEF NodeIInv, SessionIInv, SessionShared
<1> QED
  BY <1>1, NodeInvariance, PTL

\* The agent runs an SQL command of the node once, and once more only for an error that it
\* called transient itself or, on the socket, for a token that expired: whatever else fails,
\* the command is not sent again.
THEOREM RunsAreAccountedFor == NodeSpec => []RunsAccountedFor
<1>1. ASSUME NodeIInv PROVE RunsAccountedFor
  <2> SUFFICES ASSUME NEW i \in Invocations, Sql(i)
               PROVE  executed[i] <= 1 + hints[i] + IF plan[i].channel = "socket"
                                                    THEN Cardinality(expiring) ELSE 0
    BY DEF RunsAccountedFor
  <2>1. executed[i] <= hints[i] + Cardinality(Allowance(i)) + IF Ended(Carrier(i)) THEN 1 ELSE 0
    BY <1>1 DEF NodeIInv, Counted
  <2>2. /\ IsFiniteSet(expiring) /\ Cardinality(expiring) \in Nat
        /\ Cardinality(Allowance(i)) \in Nat /\ executed[i] \in Nat /\ hints[i] \in Nat
    BY <1>1, Basics
  <2>3. CASE plan[i].channel = "socket"
    <3>1. Allowance(i) \subseteq expiring
      BY DEF Allowance, UsedUp
    <3>2. Cardinality(Allowance(i)) <= Cardinality(expiring)
      BY <2>2, <3>1, FS_Subset
    <3> QED
      BY <2>1, <2>2, <2>3, <3>2
  <2>4. CASE plan[i].channel # "socket"
    <3>1. Cardinality(Allowance(i)) = 0
      BY <2>4, FS_EmptySet DEF Allowance
    <3> QED
      BY <2>1, <2>2, <2>4, <3>1
  <2> QED
    BY <2>3, <2>4
<1> QED
  BY <1>1, NodeInvariance, PTL

\* Items that run side by side settle together: the node ends with none of them under way,
\* it throws the first error or returns one result for each item in their order, and a
\* command that may change data never runs together with another one.
THEOREM Together == NodeSpec => []ItemsTogether
<1>1. ASSUME NodeIInv PROVE WritesRunAlone
  <2> SUFFICES ASSUME NEW i \in Invocations, NEW k \in Invocations, i # k, Active(i), Active(k),
                      plan[i].kind = "write" \/ plan[k].kind = "write"
               PROVE  FALSE
    BY DEF WritesRunAlone
  <2>1. SideBySide = 1
    BY DEF SideBySide, ReadOnly
  <2>2. i \in Work /\ k \in Work
    BY <1>1 DEF NodeIInv, InvocationFollows, Active
  <2> QED
    BY <1>1, <2>1, <2>2 DEF NodeIInv, TakenInOrder
<1>2. NodeIInv => ItemsTogether
  BY <1>1 DEF NodeIInv, ItemsTogether
<1> QED
  BY <1>2, NodeInvariance, PTL
================================================================================
