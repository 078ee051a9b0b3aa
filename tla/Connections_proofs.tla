--------------------------- MODULE Connections_proofs ---------------------------
(*****************************************************************************)
(* Proofs about ManagedTransport and the two managers that share it: what    *)
(* the methods of the transport leave alone, which the other proofs cite in  *)
(* place of their definitions; then ConsumerManager and RelayManager, for    *)
(* every set of calls, agents and tokens.                                    *)
(*****************************************************************************)
EXTENDS ConsumerManager, RelayManager, Sums_proofs

--------------------------------------------------------------------------------
(* The managed transport.                                                  *)

\* A new transport has its fields' types.
LEMMA NewTransportType == ASSUME NEW T PROVE NewTransport \in Transports(T)
BY DEF NewTransport, Transports

\* acquire() counts one user more and does nothing else.
LEMMA AcquireEffect ==
    ASSUME NEW T, NEW m \in Transports(T)
    PROVE  /\ Acquire(m) \in Transports(T)
           /\ Acquire(m).active = m.active + 1
           /\ Acquire(m).conn = m.conn /\ Acquire(m).stale = m.stale
           /\ Acquire(m).created = m.created /\ Acquire(m).disposals = m.disposals
           /\ Acquire(m).identityChanges = m.identityChanges
BY DEF Acquire, Transports

\* markStale() only marks.
LEMMA MarkStaleEffect ==
    ASSUME NEW T, NEW m \in Transports(T)
    PROVE  /\ MarkStale(m) \in Transports(T)
           /\ MarkStale(m).active = m.active
           /\ MarkStale(m).conn = m.conn /\ MarkStale(m).stale = TRUE
           /\ MarkStale(m).created = m.created /\ MarkStale(m).disposals = m.disposals
           /\ MarkStale(m).identityChanges = m.identityChanges
BY DEF MarkStale, Transports

\* disposeNow() runs onDispose once.
LEMMA DisposeNowEffect ==
    ASSUME NEW T, NEW m \in Transports(T)
    PROVE  /\ DisposeNow(m) \in Transports(T)
           /\ DisposeNow(m).active = m.active /\ DisposeNow(m).conn = 0
           /\ DisposeNow(m).stale = m.stale /\ DisposeNow(m).created = m.created
           /\ DisposeNow(m).disposals = m.disposals + 1
           /\ DisposeNow(m).identityChanges = m.identityChanges
<1>1. 0 \in Nat /\ m.disposals + 1 \in Nat
  BY DEF Transports
<1>2. DisposeNow(m) \in Transports(T)
  BY <1>1, Zenon DEF DisposeNow, Transports
<1> QED
  BY <1>2 DEF DisposeNow, Transports

\* dispose() takes the connection away only if nobody uses it.
LEMMA DisposeEffect ==
    ASSUME NEW T, NEW m \in Transports(T)
    PROVE  /\ Dispose(m) \in Transports(T)
           /\ Dispose(m).active = m.active
           /\ Dispose(m).identityChanges = m.identityChanges
           /\ m.active > 0 => /\ Dispose(m).conn = m.conn
                              /\ Dispose(m).disposals = m.disposals
           /\ m.active = 0 => /\ Dispose(m).conn = 0
                              /\ Dispose(m).disposals = m.disposals + 1
<1>1. CASE m.active > 0
  <2>1. Dispose(m) = [m EXCEPT !.stale = TRUE, !.disposePending = TRUE]
    BY <1>1 DEF Dispose
  <2>2. Dispose(m) \in Transports(T)
    BY <2>1 DEF Transports
  <2> QED
    BY <1>1, <2>1, <2>2 DEF Transports
<1>2. CASE m.active = 0
  <2>1. Dispose(m) = DisposeNow(m)
    BY <1>2 DEF Dispose
  <2> QED
    BY <1>2, <2>1, DisposeNowEffect
<1>3. m.active > 0 \/ m.active = 0
  BY DEF Transports
<1> QED
  BY <1>1, <1>2, <1>3

\* release() counts one user less, never below none, and takes the connection away only
\* when that was the last one.
LEMMA ReleaseEffect ==
    ASSUME NEW T, NEW m \in Transports(T)
    PROVE  /\ Release(m) \in Transports(T)
           /\ Release(m).active = IF m.active > 0 THEN m.active - 1 ELSE 0
           /\ Release(m).identityChanges = m.identityChanges
           /\ Release(m).stale = m.stale /\ Release(m).created = m.created
           /\ \/ /\ Release(m).conn = m.conn
                 /\ Release(m).disposals = m.disposals
              \/ /\ m.active <= 1
                 /\ Release(m).conn = 0
                 /\ Release(m).disposals = m.disposals + 1
<1> DEFINE left == [m EXCEPT !.active = Decrement(m.active)]
<1>1. Decrement(m.active) \in Nat
  BY DEF Decrement, Transports
<1>2. left \in Transports(T)
  BY <1>1 DEF Transports
<1>3. /\ left.active = Decrement(m.active) /\ left.conn = m.conn /\ left.stale = m.stale
      /\ left.created = m.created
      /\ left.disposals = m.disposals /\ left.identityChanges = m.identityChanges
  BY DEF Transports
<1>4. Release(m) = IF m.disposePending /\ m.active <= 1 THEN DisposeNow(left) ELSE left
  BY DEF Release, LastUser
<1> HIDE DEF left
<1>5. CASE m.disposePending /\ m.active <= 1
  BY <1>2, <1>3, <1>4, <1>5, DisposeNowEffect DEF Decrement
<1>6. CASE ~(m.disposePending /\ m.active <= 1)
  BY <1>2, <1>3, <1>4, <1>6 DEF Decrement
<1> QED
  BY <1>5, <1>6

\* close() leaves no connection and no user.
LEMMA CloseEffect ==
    ASSUME NEW T, NEW m \in Transports(T)
    PROVE  /\ CloseTransport(m) \in Transports(T)
           /\ CloseTransport(m).active = 0 /\ CloseTransport(m).conn = 0
           /\ CloseTransport(m).created = m.created
           /\ CloseTransport(m).disposals = m.disposals + 1
           /\ CloseTransport(m).identityChanges = m.identityChanges
<1> DEFINE unused == [m EXCEPT !.active = 0]
<1> DEFINE gone == DisposeNow(unused)
<1>1. /\ unused \in Transports(T) /\ unused.active = 0 /\ unused.created = m.created
      /\ unused.disposals = m.disposals /\ unused.identityChanges = m.identityChanges
  BY DEF Transports
<1>2. CloseTransport(m) = [gone EXCEPT !.stale = FALSE]
  BY DEF CloseTransport
<1> HIDE DEF unused
<1>3. /\ gone \in Transports(T) /\ gone.active = 0 /\ gone.conn = 0
      /\ gone.created = m.created
      /\ gone.disposals = m.disposals + 1 /\ gone.identityChanges = m.identityChanges
  BY <1>1, DisposeNowEffect
<1> HIDE DEF gone
<1> QED
  BY <1>2, <1>3 DEF Transports

\* ensureTransport() returns with a connection; as long as somebody uses the one there
\* was, it is the same one and onDispose has not run.
LEMMA EnsureEffect ==
    ASSUME NEW T, NEW m \in Transports(T), NEW t \in T \cup {NoToken}
    PROVE  /\ EnsureTransport(m, t) \in Transports(T)
           /\ EnsureTransport(m, t).active = m.active
           /\ EnsureTransport(m, t).conn # 0
           /\ EnsureTransport(m, t).identityChanges - m.identityChanges \in Nat
           /\ EnsureTransport(m, t).disposals - m.disposals \in Nat
           /\ m.active > 0 /\ m.conn # 0 =>
                 /\ EnsureTransport(m, t).conn = m.conn
                 /\ EnsureTransport(m, t).disposals = m.disposals
<1> DEFINE noted == IF m.conn # 0 /\ m.token # t
                    THEN [m EXCEPT !.identityChanges = @ + 1] ELSE m
<1>1. /\ noted \in Transports(T) /\ noted.active = m.active /\ noted.conn = m.conn
      /\ noted.disposals = m.disposals /\ noted.created = m.created
      /\ noted.identityChanges - m.identityChanges \in Nat
  BY DEF Transports
<1>2. CASE m.conn # 0 /\ ~NeedsNew(m, t)
  BY <1>2 DEF EnsureTransport, Transports
<1>3. CASE m.conn # 0 /\ NeedsNew(m, t) /\ KeepForUsers(m)
  <2>1. EnsureTransport(m, t) =
           [noted EXCEPT !.disposePending = TRUE, !.stale = TRUE, !.token = t]
    BY <1>3 DEF EnsureTransport
  <2> HIDE DEF noted
  <2> DEFINE kept == EnsureTransport(m, t)
  <2>2. kept \in Transports(T)
    BY <1>1, <2>1 DEF Transports
  <2>3. /\ kept.active = noted.active /\ kept.conn = noted.conn
        /\ kept.identityChanges = noted.identityChanges
        /\ kept.disposals = noted.disposals
    BY <1>1, <2>1 DEF Transports
  <2> HIDE DEF kept
  <2>4. m.disposals - m.disposals \in Nat
    BY DEF Transports
  <2> QED
    BY <1>1, <1>3, <2>2, <2>3, <2>4 DEF kept
<1>4. CASE ~(m.conn # 0 /\ (~NeedsNew(m, t) \/ KeepForUsers(m)))
  <2> DEFINE gone == DisposeNow(noted)
  <2> DEFINE made == EnsureTransport(m, t)
  <2>1. made = [gone EXCEPT !.conn = noted.created + 1, !.created = @ + 1, !.token = t,
                            !.stale = FALSE]
    BY <1>4 DEF EnsureTransport, Connect
  <2>2. ~(m.active > 0 /\ m.conn # 0)
    BY <1>4 DEF KeepForUsers
  <2> HIDE DEF noted
  <2>3. /\ gone \in Transports(T) /\ gone.active = m.active
        /\ gone.created = noted.created /\ gone.disposals = m.disposals + 1
        /\ gone.identityChanges = noted.identityChanges
    BY <1>1, DisposeNowEffect
  <2> HIDE DEF gone
  <2>4. noted.created + 1 \in Nat /\ gone.created + 1 \in Nat /\ noted.created + 1 # 0
    BY <1>1, <2>3 DEF Transports
  <2>5. made \in Transports(T)
    BY <2>1, <2>3, <2>4, Zenon DEF Transports
  <2>6. /\ made.active = gone.active /\ made.conn = noted.created + 1
        /\ made.identityChanges = gone.identityChanges
        /\ made.disposals = gone.disposals
    BY <2>1, <2>3 DEF Transports
  <2> HIDE DEF made
  <2>7. gone.disposals - m.disposals \in Nat
    BY <2>3 DEF Transports
  <2> QED
    BY <1>1, <2>2, <2>3, <2>4, <2>5, <2>6, <2>7 DEF made
<1> QED
  BY <1>2, <1>3, <1>4

\* It keeps the connection as it is, keeps it for its users and marks it stale, or makes
\* the next one.
LEMMA EnsureCases ==
    ASSUME NEW T, NEW m \in Transports(T), NEW t \in T \cup {NoToken},
           NEW n, n = EnsureTransport(m, t)
    PROVE  \/ n = m
           \/ /\ n.conn = m.conn /\ n.created = m.created /\ n.disposals = m.disposals
              /\ n.stale /\ m.active > 0
           \/ /\ n.conn = m.created + 1 /\ n.created = m.created + 1
              /\ n.disposals = m.disposals + 1
<1> DEFINE noted == IF m.conn # 0 /\ m.token # t
                    THEN [m EXCEPT !.identityChanges = @ + 1] ELSE m
<1>1. /\ noted \in Transports(T) /\ noted.conn = m.conn
      /\ noted.disposals = m.disposals /\ noted.created = m.created
  BY DEF Transports
<1>2. CASE m.conn # 0 /\ ~NeedsNew(m, t)
  BY <1>2 DEF EnsureTransport
<1>3. CASE m.conn # 0 /\ NeedsNew(m, t) /\ KeepForUsers(m)
  <2>1. n = [noted EXCEPT !.disposePending = TRUE, !.stale = TRUE, !.token = t]
    BY <1>3 DEF EnsureTransport
  <2> HIDE DEF noted
  <2>2. n.conn = m.conn /\ n.created = m.created /\ n.disposals = m.disposals /\ n.stale
    BY <1>1, <2>1 DEF Transports
  <2> QED
    BY <1>3, <2>2 DEF KeepForUsers
<1>4. CASE ~(m.conn # 0 /\ (~NeedsNew(m, t) \/ KeepForUsers(m)))
  <2> DEFINE gone == DisposeNow(noted)
  <2>1. n = [gone EXCEPT !.conn = noted.created + 1, !.created = @ + 1, !.token = t,
                         !.stale = FALSE]
    BY <1>4 DEF EnsureTransport, Connect
  <2> HIDE DEF noted
  <2>2. /\ gone \in Transports(T) /\ gone.created = m.created
        /\ gone.disposals = m.disposals + 1
    BY <1>1, DisposeNowEffect
  <2> HIDE DEF gone
  <2> QED
    BY <1>1, <2>1, <2>2 DEF Transports
<1> QED
  BY <1>2, <1>3, <1>4

--------------------------------------------------------------------------------
(* The commands over the consumer connection.                              *)

\* The call that started a probe is itself among those who await it.
OwnProbe == \A p \in Probing : exec[p].pc = "probing" /\ exec[p].awaits = p

\* A connection in use exists.
InUseIsConnected == Open /\ mt.active > 0 => mt.conn # 0

\* The probe that later calls join is under way, and it is the last one started.
JoinedIsLatest ==
    Open /\ inFlight # None => inFlight \in Probing /\ probe[inFlight].number = probeGeneration

IInv ==
    /\ TypeOK
    /\ CountExact
    /\ NeverTornDown
    /\ OneProbe
    /\ NoVainWait
    /\ CachesCurrent
    /\ OwnProbe
    /\ InUseIsConnected
    /\ JoinedIsLatest

--------------------------------------------------------------------------------
\* Sets of calls can be counted.
LEMMA Counting ==
    ASSUME NEW S \in SUBSET Execs
    PROVE  /\ Cardinality(S) \in Nat
           /\ Cardinality(S) = 0 => S = {}
           /\ \A e \in S : Cardinality(S \ {e}) = Cardinality(S) - 1
           /\ \A e \in Execs \ S : Cardinality(S \cup {e}) = Cardinality(S) + 1
<1>1. IsFiniteSet(S)
  BY ConsumerManagerAssumption, FS_Subset
<1> QED
  BY <1>1, FS_CardinalityType, FS_EmptySet, FS_AddElement, FS_RemoveElement

\* With nobody counted, no command and no probe is under way; with one, it is the only one.
LEMMA Users ==
    ASSUME IInv, Open
    PROVE  /\ mt.active \in Nat
           /\ mt.active = 0 => Running = {} /\ Probing = {}
           /\ \A e \in Running : mt.active > 0 /\ (mt.active = 1 => Running = {e} /\ Probing = {})
           /\ \A p \in Probing : mt.active > 0 /\ (mt.active = 1 => Probing = {p} /\ Running = {})
<1>1. /\ Running \in SUBSET Execs /\ Probing \in SUBSET Execs
      /\ mt.active = Cardinality(Running) + Cardinality(Probing)
  BY DEF IInv, CountExact, Running, Probing
<1> HIDE DEF Running, Probing
<1>2. /\ Cardinality(Running) \in Nat /\ Cardinality(Probing) \in Nat
      /\ Cardinality(Running) = 0 => Running = {}
      /\ Cardinality(Probing) = 0 => Probing = {}
  BY <1>1, Counting
<1>3. ASSUME NEW S \in SUBSET Execs, NEW e \in S
      PROVE  /\ Cardinality(S) \in Nat /\ Cardinality(S) > 0
             /\ Cardinality(S) = 1 => S = {e}
  <2>1. /\ Cardinality(S) \in Nat /\ Cardinality(S \ {e}) \in Nat
        /\ Cardinality(S \ {e}) = Cardinality(S) - 1
        /\ Cardinality(S \ {e}) = 0 => S \ {e} = {}
    BY Counting
  <2>2. S \ {e} = {} => S = {e}
    OBVIOUS
  <2> QED
    BY <2>1, <2>2
<1>4. ASSUME NEW e \in Running
      PROVE  mt.active > 0 /\ (mt.active = 1 => Running = {e} /\ Probing = {})
  BY <1>1, <1>2, <1>3
<1>5. ASSUME NEW p \in Probing
      PROVE  mt.active > 0 /\ (mt.active = 1 => Probing = {p} /\ Running = {})
  BY <1>1, <1>2, <1>3
<1> QED
  BY <1>1, <1>2, <1>4, <1>5

--------------------------------------------------------------------------------
\* What a handler may make of the transport: n takes one user off m, and onDispose runs
\* only if that was the last one.
Frees(m, n) ==
    /\ n \in Transports(Tokens)
    /\ n.disposals - m.disposals \in Nat /\ n.identityChanges = m.identityChanges
    /\ m.active > 0 => /\ n.active = m.active - 1
                       /\ \/ n.conn = m.conn /\ n.disposals = m.disposals
                          \/ m.active = 1 /\ n.conn = 0

\* n has a connection, and m's if it is in use.
Ensures(m, n) ==
    /\ n \in Transports(Tokens)
    /\ n.disposals - m.disposals \in Nat /\ n.identityChanges - m.identityChanges \in Nat
    /\ n.active = m.active /\ n.conn # 0
    /\ m.active > 0 /\ m.conn # 0 => n.conn = m.conn /\ n.disposals = m.disposals

\* The endings of a command and of a probe release the connection once.
LEMMA EndsFree ==
    ASSUME TypeOK
    PROVE  /\ Frees(mt, Release(mt)) /\ Frees(mt, Release(MarkStale(mt)))
           /\ Frees(mt, Release(Dispose(MarkStale(mt))))
<1>1. mt \in Transports(Tokens) /\ mt.disposals \in Nat /\ mt.active \in Nat
  BY DEF TypeOK, Transports
<1>2. Frees(mt, Release(mt))
  BY <1>1, ReleaseEffect DEF Frees
<1>3. /\ MarkStale(mt) \in Transports(Tokens) /\ MarkStale(mt).active = mt.active
      /\ MarkStale(mt).conn = mt.conn /\ MarkStale(mt).disposals = mt.disposals
      /\ MarkStale(mt).identityChanges = mt.identityChanges
  BY <1>1, MarkStaleEffect
<1>4. Frees(mt, Release(MarkStale(mt)))
  BY <1>1, <1>3, ReleaseEffect DEF Frees
<1> DEFINE d == Dispose(MarkStale(mt))
<1>5. /\ d \in Transports(Tokens) /\ d.active = mt.active
      /\ d.identityChanges = mt.identityChanges
      /\ mt.active > 0 => d.conn = mt.conn /\ d.disposals = mt.disposals
      /\ mt.active = 0 => d.disposals = mt.disposals + 1
  BY <1>3, DisposeEffect
<1> HIDE DEF d
<1>6. Frees(mt, Release(d))
  <2>1. /\ Release(d) \in Transports(Tokens)
        /\ Release(d).active = IF d.active > 0 THEN d.active - 1 ELSE 0
        /\ Release(d).identityChanges = d.identityChanges
        /\ \/ Release(d).conn = d.conn /\ Release(d).disposals = d.disposals
           \/ d.active <= 1 /\ Release(d).conn = 0 /\ Release(d).disposals = d.disposals + 1
    BY <1>5, ReleaseEffect
  <2>2. CASE mt.active > 0
    BY <1>1, <1>5, <2>1, <2>2 DEF Frees
  <2>3. CASE mt.active = 0
    BY <1>1, <1>5, <2>1, <2>3 DEF Frees
  <2>4. mt.active > 0 \/ mt.active = 0
    BY <1>1
  <2> QED
    BY <2>2, <2>3, <2>4
<1> QED
  BY <1>2, <1>4, <1>6 DEF d

\* ensureTransport keeps what the executor relies on of the transport, or replaces it.
LEMMA EnsureEnsures ==
    ASSUME TypeOK, NEW t \in Tokens \cup {NoToken}
    PROVE  Ensures(mt, EnsureTransport(mt, t))
BY EnsureEffect DEF TypeOK, Ensures

\* The callbacks keep what is cached apart from other connections and identities.
LEMMA CachesStayCurrent ==
    ASSUME TypeOK, NEW m \in Transports(Tokens),
           NEW cap \in {"unknown", "supported", "unsupported"}, NEW ttl \in BOOLEAN,
           NEW of \in Nat, NEW h \in {0 - 1, Generation(mt)},
           cap = "supported" => of = Generation(mt), Caches(m, cap, ttl, of, h)
    PROVE  /\ mt' = m
           /\ capability' \in {"unknown", "supported", "unsupported"}
           /\ fresh' \in BOOLEAN /\ capabilityOf' \in Nat /\ hints' \in Nat \cup {0 - 1}
           /\ CachesCurrent'
<1>1. Generation(m) \in Nat /\ Generation(mt) \in Nat
  BY DEF Generation, Transports, TypeOK
<1>2. Generation(mt)' = Generation(m)
  BY DEF Caches, Generation
<1>3. CASE Generation(m) # Generation(mt)
  BY <1>1, <1>2, <1>3 DEF Caches, CachesCurrent
<1>4. CASE Generation(m) = Generation(mt)
  BY <1>1, <1>2, <1>4 DEF Caches, CachesCurrent
<1> QED
  BY <1>3, <1>4

--------------------------------------------------------------------------------
\* The end of a probe: everyone who awaited it goes on, and nobody else was probing.
LEMMA ProbeEndsKeeps ==
    ASSUME IInv, NEW p \in Probing, NEW m, Frees(mt, m), mt' = m,
           capability' \in {"unknown", "supported", "unsupported"},
           fresh' \in BOOLEAN, capabilityOf' \in Nat, hints' \in Nat \cup {0 - 1},
           CachesCurrent',
           NEW result \in {"supported", "unsupported", "failed"}, ProbeEnds(p, m, result)
    PROVE  IInv'
<1> USE DEF IInv, Probes, Calls
<1>1. /\ p \in Execs /\ closed' = closed
      /\ probe' = [probe EXCEPT ![p] = NoProbe]
      /\ exec' = [e \in Execs |-> IF e \in Settle(p) THEN [exec[e] EXCEPT !.pc = result]
                                  ELSE exec[e]]
      /\ Forget(m, IF probeGeneration = probe[p].number THEN None ELSE inFlight)
  BY DEF ProbeEnds, Probing
<1>2. /\ mt' \in Transports(Tokens) /\ m.disposals - mt.disposals \in Nat
      /\ mt.disposals \in Nat /\ m.disposals \in Nat
  BY DEF Frees, TypeOK, Transports
<1>3. \A e \in Execs : /\ e \in Settle(p) => exec'[e].pc = result
                       /\ e \notin Settle(p) => exec'[e] = exec[e]
                       /\ exec'[e].awaits = exec[e].awaits /\ exec'[e].conn = exec[e].conn
  BY <1>1 DEF TypeOK
<1>4. TypeOK'
  <2>1. exec' \in [Execs -> Calls]
    <3>1. \A e \in Execs : [exec[e] EXCEPT !.pc = result] \in Calls
      BY DEF TypeOK
    <3> QED
      BY <1>1, <3>1 DEF TypeOK
  <2>2. probe' \in [Execs -> Probes]
    BY <1>1 DEF TypeOK, NoProbe
  <2>3. probeGeneration' \in Nat /\ inFlight' \in Execs \cup {None}
    BY <1>1, <1>2 DEF TypeOK, Forget
  <2> QED
    BY <1>1, <1>2, <2>1, <2>2, <2>3 DEF TypeOK
<1>5. Probing' = Probing \ {p}
  BY <1>1 DEF Probing, NoProbe, TypeOK
<1>6. Running' = Running
  BY <1>3 DEF Running, Settle
<1>7. \A q \in Probing' : probe'[q] = probe[q]
  BY <1>1, <1>5 DEF Probing, TypeOK
<1>8. NoVainWait' /\ OwnProbe'
  <2>1. ASSUME NEW e \in Execs, exec'[e].pc = "probing"
        PROVE  e \notin Settle(p) /\ exec[e].pc = "probing" /\ exec[e].awaits # p
    BY <1>3, <2>1 DEF Settle
  <2>2. NoVainWait'
    BY <1>3, <1>5, <2>1 DEF NoVainWait
  <2>3. \A q \in Probing' : q \notin Settle(p) /\ q \in Execs
    BY <1>5 DEF OwnProbe, Settle, Probing
  <2>4. OwnProbe'
    BY <1>3, <1>5, <2>3 DEF OwnProbe
  <2> QED
    BY <2>2, <2>4
<1>9. ASSUME Open'
      PROVE  /\ m.active = Cardinality(Running') + Cardinality(Probing')
             /\ \A e \in Running' : exec'[e].conn = m.conn
             /\ \A q \in Probing' : probe'[q].conn = m.conn /\ inFlight' = q
             /\ m.active > 0 => m.conn # 0
             /\ inFlight' # None => inFlight' \in Probing' /\ probe'[inFlight'].number = probeGeneration'
  <2>1. Open
    BY <1>1, <1>9 DEF Open
  <2>2. /\ mt.active > 0
        /\ mt.active = 1 => Running = {}
        /\ inFlight = p /\ Probing = {p}
        /\ mt.active = Cardinality(Running) + Cardinality(Probing)
    BY <2>1, Users DEF OneProbe, CountExact
  <2>3. Cardinality(Probing') = Cardinality(Probing) - 1 /\ Cardinality(Running) \in Nat
        /\ Cardinality(Probing) \in Nat
    BY <1>5, Counting DEF Probing, Running
  <2>4. m.active = Cardinality(Running') + Cardinality(Probing')
    BY <1>6, <2>2, <2>3 DEF Frees
  <2>5. Probing' = {}
    BY <1>5, <2>2
  <2>6. \A e \in Running' : exec'[e].conn = m.conn
    BY <1>3, <1>6, <2>1, <2>2 DEF Frees, NeverTornDown, Running
  <2>7. inFlight' = None
    BY <1>1, <1>2, <2>1, <2>2, ConsumerManagerAssumption DEF Forget, JoinedIsLatest, Probing
  <2>8. m.active > 0 => m.conn # 0
    BY <2>1, <2>2 DEF Frees, InUseIsConnected, TypeOK, Transports
  <2> QED
    BY <2>4, <2>5, <2>6, <2>7, <2>8
<1>10. CountExact' /\ NeverTornDown' /\ OneProbe' /\ InUseIsConnected' /\ JoinedIsLatest'
  BY <1>9 DEF CountExact, NeverTornDown, OneProbe, InUseIsConnected, JoinedIsLatest
<1> QED
  BY <1>4, <1>8, <1>10

\* The outcomes of a probe.
LEMMA ProbeKeeps == ASSUME IInv, NEW p \in Execs, ProbeStep(p) PROVE IInv'
<1> USE DEF IInv, Probes, Calls
<1>1. /\ Frees(mt, Release(mt)) /\ Frees(mt, Release(Dispose(MarkStale(mt))))
      /\ Release(mt) \in Transports(Tokens)
      /\ Release(Dispose(MarkStale(mt))) \in Transports(Tokens)
  BY EndsFree DEF Frees
<1>2. /\ probe[p].generation \in Nat /\ capability \in {"unknown", "supported", "unsupported"}
      /\ fresh \in BOOLEAN /\ capabilityOf \in Nat /\ hints \in {0 - 1, Generation(mt)}
      /\ capability = "supported" => capabilityOf = Generation(mt)
      /\ probe[p].state # "none" => p \in Probing
  BY DEF TypeOK, CachesCurrent, Probing
<1>3. CASE ProbeSucceeds(p)
  <2>1. CASE Current(probe[p].generation)
    BY <1>1, <1>2, <1>3, <2>1, CachesStayCurrent, ProbeEndsKeeps DEF ProbeSucceeds, Current
  <2>2. CASE ~Current(probe[p].generation)
    BY <1>1, <1>2, <1>3, <2>2, CachesStayCurrent, ProbeEndsKeeps DEF ProbeSucceeds, Keep
  <2> QED
    BY <2>1, <2>2
<1>4. CASE BackoffEnds(p)
  BY <1>1, <1>2, <1>4, CachesStayCurrent, ProbeEndsKeeps DEF BackoffEnds
<1>5. CASE BatchProbeTimesOut(p)
  BY <1>1, <1>2, <1>5, CachesStayCurrent, ProbeEndsKeeps DEF BatchProbeTimesOut, Keep
<1>6. ASSUME NEW answered \in BOOLEAN, ProbeFails(p, answered) PROVE IInv'
  <2>1. CASE answered /\ Current(probe[p].generation)
    BY <1>1, <1>2, <1>6, <2>1, CachesStayCurrent, ProbeEndsKeeps DEF ProbeFails, Current
  <2>2. CASE ~(answered /\ Current(probe[p].generation))
    BY <1>1, <1>2, <1>6, <2>2, CachesStayCurrent, ProbeEndsKeeps DEF ProbeFails, Keep
  <2> QED
    BY <2>1, <2>2
<1>7. CASE ProbeTimesOut(p)
  <2>1. /\ probe' = [probe EXCEPT ![p].state = "backoff"] /\ p \in Probing
        /\ UNCHANGED <<mt, cache, probeGeneration, inFlight, exec, hints, closed>>
    BY <1>7 DEF ProbeTimesOut, Probing
  <2>2. TypeOK'
    BY <2>1 DEF TypeOK, cache
  <2>3. Probing' = Probing /\ Running' = Running
    BY <2>1 DEF TypeOK, Probing, Running
  <2>4. \A q \in Execs : probe'[q].conn = probe[q].conn /\ probe'[q].number = probe[q].number
    BY <2>1 DEF TypeOK
  <2>5. Probing \subseteq Execs
    BY DEF Probing
  <2> HIDE DEF IInv
  <2>6. CountExact' /\ InUseIsConnected' /\ CachesCurrent'
    BY <2>1, <2>3 DEF IInv, CountExact, InUseIsConnected, CachesCurrent, Open, Generation, cache
  <2>7. NeverTornDown' /\ OneProbe'
    BY <2>1, <2>3, <2>4, <2>5 DEF IInv, NeverTornDown, OneProbe, Open
  <2>8. NoVainWait' /\ OwnProbe'
    BY <2>1, <2>3 DEF IInv, NoVainWait, OwnProbe
  <2>9. JoinedIsLatest'
    BY <2>1, <2>3, <2>4, <2>5 DEF IInv, JoinedIsLatest, Open
  <2> QED
    BY <2>2, <2>6, <2>7, <2>8, <2>9 DEF IInv
<1> QED
  BY <1>3, <1>4, <1>5, <1>6, <1>7 DEF ProbeStep

--------------------------------------------------------------------------------
\* Ensuring a transport takes nothing away from those who use one.
LEMMA EnsureSpares ==
    ASSUME IInv, Open, NEW m, Ensures(mt, m)
    PROVE  /\ m.disposals # mt.disposals => mt.active = 0 /\ Running = {} /\ Probing = {}
           /\ \A e \in Running : exec[e].conn = m.conn
           /\ \A p \in Probing : probe[p].conn = m.conn
<1>1. /\ mt.active \in Nat
      /\ mt.active = 0 => Running = {} /\ Probing = {}
      /\ mt.active > 0 => mt.conn # 0
  BY Users DEF IInv, InUseIsConnected
<1>2. CASE mt.active = 0
  BY <1>1, <1>2
<1>3. CASE mt.active > 0
  <2>1. m.conn = mt.conn /\ m.disposals = mt.disposals
    BY <1>1, <1>3 DEF Ensures
  <2> QED
    BY <2>1 DEF IInv, NeverTornDown
<1> QED
  BY <1>1, <1>2, <1>3

\* A call that finds the cache fresh, joins the pending probe or starts one.
LEMMA StartKeeps == ASSUME IInv, NEW e \in Execs, Start(e) PROVE IInv'
<1> USE DEF IInv, Probes, Calls
<1>1. PICK t \in Tokens : Cached(e, t) \/ Joins(e, t) \/ StartsProbe(e, t)
  BY DEF Start
<1> DEFINE m == EnsureTransport(mt, t)
<1>2. Open /\ exec[e].pc = "idle" /\ e \notin Running /\ e \notin Probing
  BY DEF Start, Running, OwnProbe
<1>3. Ensures(mt, m) /\ m \in Transports(Tokens)
  BY EnsureEnsures DEF Ensures
<1>4. /\ m.disposals \in Nat /\ mt.disposals \in Nat /\ m.disposals - mt.disposals \in Nat
      /\ m.active = mt.active /\ m.conn # 0 /\ Generation(m) \in Nat
      /\ m.conn \in Nat
  BY <1>3 DEF Ensures, TypeOK, Transports, Generation
<1>5. /\ capability \in {"unknown", "supported", "unsupported"}
      /\ fresh \in BOOLEAN /\ capabilityOf \in Nat /\ hints \in {0 - 1, Generation(mt)}
      /\ capability = "supported" => capabilityOf = Generation(mt)
  BY DEF TypeOK, CachesCurrent
<1>6. /\ m.disposals # mt.disposals => mt.active = 0 /\ Running = {} /\ Probing = {}
      /\ \A f \in Running : exec[f].conn = m.conn
      /\ \A p \in Probing : probe[p].conn = m.conn
  BY <1>2, <1>3, EnsureSpares
<1>7. Running \subseteq Execs /\ Probing \subseteq Execs
  BY DEF Running, Probing
<1> HIDE DEF m
<1>8. ASSUME UNCHANGED <<probe, closed>>, Keep(m), Forget(m, inFlight),
             NEW pc \in {"probing", "supported", "unsupported"}, NEW awaits \in Execs \cup {None},
             exec' = [exec EXCEPT ![e].token = t, ![e].pc = pc, ![e].awaits = awaits],
             pc = "probing" => awaits \in Probing
      PROVE  IInv'
  <2>1. /\ mt' = m /\ CachesCurrent' /\ probe' = probe /\ closed' = closed
        /\ capability' \in {"unknown", "supported", "unsupported"}
        /\ fresh' \in BOOLEAN /\ capabilityOf' \in Nat /\ hints' \in Nat \cup {0 - 1}
    BY <1>3, <1>5, <1>8, CachesStayCurrent DEF Keep
  <2>2. probeGeneration' \in Nat /\ inFlight' \in Execs \cup {None}
    BY <1>4, <1>8 DEF TypeOK, Forget
  <2>3. exec' \in [Execs -> Calls]
    <3>1. [exec[e] EXCEPT !.token = t, !.pc = pc, !.awaits = awaits] \in Calls
      BY <1>8 DEF TypeOK, Calls
    <3> QED
      BY <1>8, <3>1 DEF TypeOK
  <2>4. TypeOK'
    BY <1>3, <2>1, <2>2, <2>3 DEF TypeOK
  <2>5. /\ \A f \in Execs \ {e} : exec'[f] = exec[f]
        /\ exec'[e].pc = pc /\ exec'[e].awaits = awaits
    BY <1>8 DEF TypeOK, Calls
  <2>6. Running' = Running /\ Probing' = Probing
    BY <1>2, <2>1, <2>5 DEF Running, Probing
  <2>7. CountExact' /\ NeverTornDown'
    BY <1>2, <1>4, <1>6, <1>7, <2>1, <2>5, <2>6 DEF CountExact, NeverTornDown, Open
  <2>8. NoVainWait' /\ OwnProbe'
    <3>1. NoVainWait'
      <4>1. ASSUME NEW f \in Execs, exec'[f].pc = "probing" PROVE exec'[f].awaits \in Probing
        <5>1. CASE f = e
          BY <1>8, <2>5, <4>1, <5>1
        <5>2. CASE f # e
          BY <2>5, <4>1, <5>2 DEF NoVainWait
        <5> QED
          BY <5>1, <5>2
      <4> QED
        BY <2>6, <4>1 DEF NoVainWait
    <3>2. OwnProbe'
      BY <1>2, <1>7, <2>5, <2>6 DEF OwnProbe
    <3> QED
      BY <3>1, <3>2
  <2>9. OneProbe' /\ InUseIsConnected' /\ JoinedIsLatest'
    <3>1. CASE m.disposals = mt.disposals
      <4>1. inFlight' = inFlight /\ probeGeneration' = probeGeneration
        BY <1>4, <1>8, <3>1 DEF Forget, TypeOK
      <4> QED
        BY <1>4, <2>1, <2>6, <4>1 DEF OneProbe, InUseIsConnected, JoinedIsLatest, Open
    <3>2. CASE m.disposals # mt.disposals
      BY <1>4, <1>6, <1>8, <2>1, <2>6, <3>2
         DEF OneProbe, InUseIsConnected, JoinedIsLatest, Forget
    <3> QED
      BY <3>1, <3>2
  <2> QED
    BY <2>1, <2>4, <2>7, <2>8, <2>9
<1>9. CASE Cached(e, t)
  <2>1. /\ UNCHANGED <<probe, closed>> /\ Keep(m) /\ Forget(m, inFlight)
        /\ CacheSays(e, m) # "unknown"
        /\ exec' = [exec EXCEPT ![e].token = t, ![e].pc = CacheSays(e, m)]
    BY <1>9 DEF Cached, m
  <2>2. CacheSays(e, m) \in {"supported", "unsupported"}
    BY <1>5, <2>1 DEF CacheSays
  <2>3. exec' = [exec EXCEPT ![e].token = t, ![e].pc = CacheSays(e, m),
                             ![e].awaits = exec[e].awaits]
    BY <2>1 DEF TypeOK
  <2>4. exec[e].awaits \in Execs \cup {None}
    BY DEF TypeOK
  <2> QED
    BY <1>8, <2>1, <2>2, <2>3, <2>4
<1>10. CASE Joins(e, t)
  <2>1. /\ UNCHANGED <<probe, closed>> /\ Keep(m) /\ Forget(m, inFlight)
        /\ Pending(m) # None
        /\ exec' = [exec EXCEPT ![e].token = t, ![e].pc = "probing", ![e].awaits = inFlight]
    BY <1>10 DEF Joins, m
  <2>2. inFlight \in Probing /\ inFlight \in Execs \cup {None}
    BY <1>2, <2>1 DEF Pending, JoinedIsLatest, TypeOK
  <2> QED
    BY <1>8, <2>1, <2>2
<1>11. CASE StartsProbe(e, t)
  <2> DEFINE number == probeGeneration + (m.disposals - mt.disposals) + 1
  <2>1. /\ Pending(m) = None /\ Keep(Acquire(m)) /\ closed' = closed
        /\ inFlight' = e /\ probeGeneration' = number
        /\ probe' = [probe EXCEPT ![e] = [state |-> "running", conn |-> m.conn,
                                          generation |-> Generation(m), number |-> number]]
        /\ exec' = [exec EXCEPT ![e].token = t, ![e].pc = "probing", ![e].awaits = e]
    BY <1>11 DEF StartsProbe, m
  <2>2. number \in Nat
    BY <1>4 DEF TypeOK
  <2> HIDE DEF number
  <2>3. /\ Acquire(m) \in Transports(Tokens) /\ Acquire(m).active = mt.active + 1
        /\ Acquire(m).conn = m.conn
    BY <1>3, <1>4, AcquireEffect
  <2>4. /\ mt' = Acquire(m) /\ CachesCurrent'
        /\ capability' \in {"unknown", "supported", "unsupported"}
        /\ fresh' \in BOOLEAN /\ capabilityOf' \in Nat /\ hints' \in Nat \cup {0 - 1}
    BY <1>5, <2>1, <2>3, CachesStayCurrent DEF Keep
  <2>5. exec' \in [Execs -> Calls]
    <3>1. [exec[e] EXCEPT !.token = t, !.pc = "probing", !.awaits = e] \in Calls
      BY DEF TypeOK
    <3> QED
      BY <2>1, <3>1 DEF TypeOK
  <2>6. probe' \in [Execs -> Probes]
    BY <1>4, <2>1, <2>2 DEF TypeOK
  <2>7. TypeOK'
    BY <2>1, <2>2, <2>3, <2>4, <2>5, <2>6 DEF TypeOK
  <2>8. /\ \A f \in Execs \ {e} : exec'[f] = exec[f] /\ probe'[f] = probe[f]
        /\ exec'[e].pc = "probing" /\ exec'[e].awaits = e
        /\ probe'[e].state = "running" /\ probe'[e].conn = m.conn /\ probe'[e].number = number
    <3>1. \A f \in Execs \ {e} : exec'[f] = exec[f] /\ probe'[f] = probe[f]
      BY <2>1 DEF TypeOK
    <3>2. exec'[e].pc = "probing" /\ exec'[e].awaits = e
      BY <2>1 DEF TypeOK, Calls
    <3>3. probe'[e] = [state |-> "running", conn |-> m.conn, generation |-> Generation(m),
                       number |-> number]
      BY <2>1 DEF TypeOK
    <3> QED
      BY <3>1, <3>2, <3>3
  <2>9. Probing = {}
    BY <1>2, <1>6, <1>7, <2>1, ConsumerManagerAssumption DEF Pending, OneProbe
  <2>10. Running' = Running /\ Probing' = {e}
    BY <1>2, <2>8, <2>9 DEF Running, Probing
  <2>11. CountExact'
    <3>1. Cardinality({e}) = 1 /\ Cardinality({}) = 0
      BY FS_Singleton, FS_EmptySet
    <3>2. Cardinality(Running) \in Nat
      BY <1>7, Counting
    <3> QED
      BY <1>2, <2>3, <2>4, <2>9, <2>10, <3>1, <3>2 DEF CountExact
  <2>12. NeverTornDown'
    BY <1>2, <1>6, <1>7, <2>3, <2>4, <2>8, <2>10 DEF NeverTornDown
  <2>13. NoVainWait' /\ OwnProbe'
    BY <2>8, <2>9, <2>10 DEF NoVainWait, OwnProbe
  <2>14. OneProbe' /\ InUseIsConnected' /\ JoinedIsLatest'
    BY <1>4, <2>1, <2>3, <2>4, <2>8, <2>10 DEF OneProbe, InUseIsConnected, JoinedIsLatest
  <2> QED
    BY <2>4, <2>7, <2>11, <2>12, <2>13, <2>14
<1> QED
  BY <1>1, <1>9, <1>10, <1>11

--------------------------------------------------------------------------------
\* A call that is not probing moves on, while the transport, its callbacks and the caches
\* do what the handler made of them.
LEMMA CallMovesOn ==
    ASSUME IInv, NEW e \in Execs, exec[e].pc # "probing",
           NEW m \in Transports(Tokens), m.disposals - mt.disposals \in Nat,
           NEW h \in {0 - 1, Generation(mt)},
           Caches(m, capability, fresh, capabilityOf, h), Forget(m, inFlight),
           NEW moved \in Calls, moved.pc # "probing", exec' = [exec EXCEPT ![e] = moved],
           UNCHANGED <<probe, closed>>,
           Open => /\ m.active = Cardinality(Running') + Cardinality(Probing)
                   /\ \A f \in Running' : exec'[f].conn = m.conn
                   /\ \A p \in Probing : probe[p].conn = m.conn
                   /\ m.active > 0 => m.conn # 0
                   /\ m.disposals # mt.disposals => Probing = {}
    PROVE  IInv'
<1>1. /\ mt' = m /\ CachesCurrent' /\ probe' = probe /\ closed' = closed
      /\ capability' \in {"unknown", "supported", "unsupported"}
      /\ fresh' \in BOOLEAN /\ capabilityOf' \in Nat /\ hints' \in Nat \cup {0 - 1}
  <2>1. /\ capability \in {"unknown", "supported", "unsupported"}
        /\ fresh \in BOOLEAN /\ capabilityOf \in Nat
        /\ capability = "supported" => capabilityOf = Generation(mt)
    BY DEF IInv, TypeOK, CachesCurrent
  <2> QED
    BY <2>1, CachesStayCurrent DEF IInv
<1>2. probeGeneration' \in Nat /\ inFlight' \in Execs \cup {None}
  BY DEF IInv, TypeOK, Forget
<1>3. TypeOK'
  BY <1>1, <1>2 DEF IInv, TypeOK
<1>4. exec'[e] = moved /\ \A f \in Execs \ {e} : exec'[f] = exec[f]
  BY DEF IInv, TypeOK
<1>5. Probing' = Probing /\ Probing \subseteq Execs /\ e \notin Probing
  BY <1>1 DEF IInv, Probing, OwnProbe
<1>6. CountExact' /\ NeverTornDown' /\ InUseIsConnected'
  BY <1>1, <1>5 DEF CountExact, NeverTornDown, InUseIsConnected, Open
<1>7. NoVainWait' /\ OwnProbe'
  BY <1>4, <1>5 DEF IInv, NoVainWait, OwnProbe
<1>8. OneProbe' /\ JoinedIsLatest'
  <2>1. CASE m.disposals = mt.disposals
    <3>1. inFlight' = inFlight /\ probeGeneration' = probeGeneration
      BY <2>1 DEF Forget, IInv, TypeOK, Transports
    <3> QED
      BY <1>1, <1>5, <3>1 DEF IInv, OneProbe, JoinedIsLatest, Open
  <2>2. CASE m.disposals # mt.disposals
    BY <1>1, <1>5, <2>2 DEF OneProbe, JoinedIsLatest, Forget, Open
  <2> QED
    BY <2>1, <2>2
<1> QED
  BY <1>1, <1>3, <1>6, <1>7, <1>8 DEF IInv

\* execute() after the probe: it is refused, falls back, or runs its command.
LEMMA ExecKeeps == ASSUME IInv, NEW e \in Execs, ExecStep(e) PROVE IInv'
<1>1. /\ exec \in [Execs -> Calls] /\ exec[e] \in Calls /\ mt \in Transports(Tokens)
      /\ mt.disposals \in Nat /\ mt.active \in Nat
      /\ hints \in {0 - 1, Generation(mt)}
      /\ Probing \subseteq Execs /\ Running \subseteq Execs
      /\ Cardinality(Running) \in Nat /\ Cardinality(Probing) \in Nat
  BY Counting DEF IInv, TypeOK, CachesCurrent, Transports, Probing, Running
<1>2. Open => /\ mt.active = Cardinality(Running) + Cardinality(Probing)
              /\ \A f \in Running : exec[f].conn = mt.conn
              /\ \A p \in Probing : probe[p].conn = mt.conn
              /\ mt.active > 0 => mt.conn # 0
              /\ mt.active = 0 => Running = {} /\ Probing = {}
  BY Users DEF IInv, CountExact, NeverTornDown, InUseIsConnected
<1>3. ASSUME NEW moved \in Calls, exec' = [exec EXCEPT ![e] = moved]
      PROVE  /\ exec'[e] = moved /\ \A f \in Execs \ {e} : exec'[f] = exec[f]
             /\ moved.pc = "running" => Running' = Running \cup {e}
             /\ moved.pc # "running" => Running' = Running \ {e}
  BY <1>1, <1>3 DEF Running
<1>4. CASE Refused(e)
  <2> DEFINE moved == [exec[e] EXCEPT !.pc = "failed"]
  <2>1. moved \in Calls /\ moved.pc = "failed"
    BY <1>1 DEF Calls
  <2>2. /\ exec[e].pc \in {"supported", "unsupported"}
        /\ exec' = [exec EXCEPT ![e] = moved]
        /\ UNCHANGED <<mt, cache, probeGeneration, inFlight, probe, hints, closed>>
    BY <1>4 DEF Refused, Ends
  <2> HIDE DEF moved
  <2>3. Running' = Running
    BY <1>3, <2>1, <2>2 DEF Running
  <2>4. Keep(mt) /\ Forget(mt, inFlight)
    BY <1>1, <2>2 DEF Keep, Caches, Forget, cache, IInv, TypeOK
  <2>5. mt.disposals - mt.disposals \in Nat
    BY <1>1
  <2>6. \A f \in Running : exec'[f] = exec[f]
    BY <1>1, <1>3, <2>1, <2>2 DEF Running
  <2>7. Open => /\ mt.active = Cardinality(Running') + Cardinality(Probing)
                /\ \A f \in Running' : exec'[f].conn = mt.conn
                /\ \A p \in Probing : probe[p].conn = mt.conn
                /\ mt.active > 0 => mt.conn # 0
    BY <1>2, <2>3, <2>6
  <2> QED
    BY <1>1, <2>1, <2>2, <2>4, <2>5, <2>7, CallMovesOn DEF Keep
<1>5. CASE FallsBack(e)
  <2> DEFINE m == Dispose(mt)
  <2> DEFINE moved == [exec[e] EXCEPT !.pc = "relay"]
  <2>1. moved \in Calls /\ moved.pc = "relay"
    BY <1>1 DEF Calls
  <2>2. /\ exec[e].pc = "unsupported" /\ exec' = [exec EXCEPT ![e] = moved]
        /\ Keep(m) /\ Forget(m, inFlight) /\ UNCHANGED <<probe, closed>>
    BY <1>5 DEF FallsBack, Ends
  <2>3. /\ m \in Transports(Tokens) /\ m.active = mt.active
        /\ mt.active > 0 => m.conn = mt.conn /\ m.disposals = mt.disposals
        /\ mt.active = 0 => m.disposals = mt.disposals + 1
    BY <1>1, DisposeEffect
  <2> HIDE DEF moved, m
  <2>4. Running' = Running
    BY <1>3, <2>1, <2>2 DEF Running
  <2>5. m.disposals - mt.disposals \in Nat
    BY <1>1, <2>3
  <2>6. ASSUME Open
        PROVE  /\ m.active = Cardinality(Running') + Cardinality(Probing)
               /\ \A f \in Running' : exec'[f].conn = m.conn
               /\ \A p \in Probing : probe[p].conn = m.conn
               /\ m.active > 0 => m.conn # 0
               /\ m.disposals # mt.disposals => Probing = {}
    <3>1. CASE mt.active > 0
      <4>1. \A f \in Running : exec'[f] = exec[f]
        BY <1>1, <1>3, <2>1, <2>2 DEF Running
      <4> QED
        BY <1>2, <2>3, <2>4, <2>6, <3>1, <4>1
    <3>2. CASE mt.active = 0
      BY <1>2, <2>3, <2>4, <2>6, <3>2
    <3> QED
      BY <1>1, <3>1, <3>2
  <2> QED
    BY <1>1, <2>1, <2>2, <2>3, <2>5, <2>6, CallMovesOn DEF Keep
<1>6. CASE Dispatches(e)
  <2> DEFINE m == EnsureTransport(mt, exec[e].token)
  <2> DEFINE moved == [exec[e] EXCEPT !.pc = "running", !.conn = m.conn,
                                      !.generation = Generation(m)]
  <2>1. Ensures(mt, m)
    BY <1>1, EnsureEnsures DEF IInv, Calls
  <2>2. /\ m \in Transports(Tokens) /\ m.disposals - mt.disposals \in Nat
        /\ m.active = mt.active /\ m.conn # 0 /\ m.conn \in Nat /\ Generation(m) \in Nat
    BY <2>1 DEF Ensures, Transports, Generation
  <2>3. /\ Open /\ exec[e].pc = "supported" /\ e \notin Running
        /\ exec' = [exec EXCEPT ![e] = moved]
        /\ Keep(Acquire(m)) /\ Forget(m, inFlight) /\ UNCHANGED <<probe, closed>>
    BY <1>6 DEF Dispatches, Running
  <2>4. /\ m.disposals # mt.disposals => Running = {} /\ Probing = {}
        /\ \A f \in Running : exec[f].conn = m.conn
        /\ \A p \in Probing : probe[p].conn = m.conn
    BY <2>1, <2>3, EnsureSpares
  <2> HIDE DEF m
  <2>5. moved \in Calls /\ moved.pc = "running" /\ moved.conn = m.conn
    BY <1>1, <2>2 DEF Calls
  <2>6. /\ Acquire(m) \in Transports(Tokens) /\ Acquire(m).active = m.active + 1
        /\ Acquire(m).conn = m.conn /\ Acquire(m).disposals = m.disposals
    BY <2>2, AcquireEffect
  <2>7. Forget(Acquire(m), inFlight)
    BY <2>3, <2>6 DEF Forget
  <2> HIDE DEF moved
  <2>8. Running' = Running \cup {e} /\ Cardinality(Running') = Cardinality(Running) + 1
    BY <1>1, <1>3, <2>3, <2>5, Counting
  <2>9. /\ Acquire(m).active = Cardinality(Running') + Cardinality(Probing)
        /\ \A f \in Running' : exec'[f].conn = m.conn
    BY <1>1, <1>2, <1>3, <2>2, <2>3, <2>4, <2>5, <2>6, <2>8
  <2> DEFINE used == Acquire(m)
  <2> HIDE DEF used
  <2>10. /\ used \in Transports(Tokens) /\ used.disposals - mt.disposals \in Nat
         /\ Caches(used, capability, fresh, capabilityOf, hints) /\ Forget(used, inFlight)
         /\ used.active = Cardinality(Running') + Cardinality(Probing)
         /\ \A f \in Running' : exec'[f].conn = used.conn
         /\ \A p \in Probing : probe[p].conn = used.conn
         /\ used.conn # 0
         /\ used.disposals # mt.disposals => Probing = {}
    BY <2>2, <2>3, <2>4, <2>6, <2>7, <2>9 DEF used, Keep
  <2> QED
    BY <1>1, <2>3, <2>5, <2>10, CallMovesOn
<1>7. ASSUME NEW m, Frees(mt, m), NEW h \in {0 - 1, Generation(mt)},
             Caches(m, capability, fresh, capabilityOf, h), Forget(m, inFlight),
             NEW how \in {"returned", "failed"}, Ends(e, how), exec[e].pc = "running",
             UNCHANGED <<probe, closed>>
      PROVE  IInv'
  <2> DEFINE moved == [exec[e] EXCEPT !.pc = how]
  <2>1. moved \in Calls /\ moved.pc = how
    BY <1>1 DEF Calls
  <2>2. exec' = [exec EXCEPT ![e] = moved] /\ e \in Running
    BY <1>7 DEF Ends, Running
  <2> HIDE DEF moved
  <2>3. Running' = Running \ {e} /\ Cardinality(Running') = Cardinality(Running) - 1
    BY <1>1, <1>3, <2>1, <2>2, Counting
  <2>4. ASSUME Open
        PROVE  /\ m.active = Cardinality(Running') + Cardinality(Probing)
               /\ \A f \in Running' : exec'[f].conn = m.conn
               /\ \A p \in Probing : probe[p].conn = m.conn
               /\ m.active > 0 => m.conn # 0
               /\ m.disposals # mt.disposals => Probing = {}
    <3>1. mt.active > 0 /\ (mt.active = 1 => Running = {e} /\ Probing = {})
      BY <2>2, <2>4, Users
    <3>2. m.active = Cardinality(Running') + Cardinality(Probing)
      BY <1>1, <1>2, <1>7, <2>3, <2>4, <3>1 DEF Frees
    <3>3. CASE m.conn = mt.conn /\ m.disposals = mt.disposals
      BY <1>1, <1>2, <1>3, <2>1, <2>2, <2>3, <2>4, <3>1, <3>2, <3>3
    <3>4. CASE mt.active = 1 /\ m.conn = 0
      <4>1. Running' = {} /\ Probing = {} /\ m.active = 0
        BY <1>7, <2>3, <3>1, <3>4 DEF Frees
      <4> QED
        BY <3>2, <4>1
    <3> QED
      BY <1>7, <3>1, <3>3, <3>4 DEF Frees
  <2>5. m \in Transports(Tokens) /\ m.disposals - mt.disposals \in Nat
    BY <1>7 DEF Frees
  <2> QED
    BY <1>1, <1>7, <2>1, <2>2, <2>4, <2>5, CallMovesOn
<1>8. Frees(mt, Release(mt)) /\ Frees(mt, Release(MarkStale(mt)))
  BY EndsFree DEF IInv
<1>9. CASE CommandReturns(e)
  BY <1>1, <1>7, <1>8, <1>9 DEF CommandReturns, Current
<1>10. CASE CommandFails(e)
  BY <1>1, <1>7, <1>8, <1>10 DEF CommandFails, Keep
<1> QED
  BY <1>4, <1>5, <1>6, <1>9, <1>10 DEF ExecStep

--------------------------------------------------------------------------------
\* Events of the connection and of time, and close().
LEMMA OthersKeep == IInv /\ (Terminal \/ TtlPasses \/ Close \/ UNCHANGED vars) => IInv'
<1> SUFFICES ASSUME IInv, Terminal \/ TtlPasses \/ Close \/ UNCHANGED vars PROVE IInv'
  OBVIOUS
<1>1. mt \in Transports(Tokens) /\ mt.disposals \in Nat
  BY DEF IInv, TypeOK, Transports
<1>2. ASSUME UNCHANGED <<probeGeneration, inFlight, probe, exec, closed>>
      PROVE  /\ Probing' = Probing /\ Running' = Running /\ Open' = Open
             /\ NoVainWait' /\ OwnProbe' /\ OneProbe' /\ JoinedIsLatest'
  BY <1>2 DEF IInv, Probing, Running, Open, NoVainWait, OwnProbe, OneProbe, JoinedIsLatest
<1>3. CASE Terminal
  <2>1. /\ mt' = MarkStale(mt)
        /\ UNCHANGED <<cache, probeGeneration, inFlight, probe, exec, hints, closed>>
    BY <1>3 DEF Terminal
  <2>2. /\ mt' \in Transports(Tokens) /\ mt'.active = mt.active /\ mt'.conn = mt.conn
        /\ mt'.disposals = mt.disposals /\ mt'.identityChanges = mt.identityChanges
    BY <1>1, <2>1, MarkStaleEffect
  <2>3. TypeOK'
    BY <2>1, <2>2 DEF IInv, TypeOK, cache
  <2>4. CountExact' /\ NeverTornDown' /\ InUseIsConnected'
    BY <1>2, <2>1, <2>2 DEF IInv, CountExact, NeverTornDown, InUseIsConnected
  <2>5. CachesCurrent'
    BY <2>1, <2>2 DEF IInv, CachesCurrent, Generation, cache
  <2> QED
    BY <1>2, <2>1, <2>3, <2>4, <2>5 DEF IInv
<1>4. CASE TtlPasses
  <2>1. /\ fresh' = FALSE
        /\ UNCHANGED <<mt, capability, capabilityOf, probeGeneration, inFlight, probe, exec,
                       hints, closed>>
    BY <1>4 DEF TtlPasses
  <2>2. TypeOK' /\ CachesCurrent'
    BY <2>1 DEF IInv, TypeOK, CachesCurrent, Generation
  <2>3. CountExact' /\ NeverTornDown' /\ InUseIsConnected'
    BY <1>2, <2>1 DEF IInv, CountExact, NeverTornDown, InUseIsConnected
  <2> QED
    BY <1>2, <2>1, <2>2, <2>3 DEF IInv
<1>5. CASE Close
  <2> DEFINE m == CloseTransport(mt)
  <2>1. closed' = TRUE /\ Keep(m) /\ Forget(m, inFlight) /\ UNCHANGED <<probe, exec>>
    BY <1>5 DEF Close
  <2>2. m \in Transports(Tokens) /\ m.disposals - mt.disposals \in Nat
    BY <1>1, CloseEffect
  <2> HIDE DEF m
  <2>3. /\ mt' = m /\ CachesCurrent'
        /\ capability' \in {"unknown", "supported", "unsupported"}
        /\ fresh' \in BOOLEAN /\ capabilityOf' \in Nat /\ hints' \in Nat \cup {0 - 1}
    <3>1. /\ capability \in {"unknown", "supported", "unsupported"}
          /\ fresh \in BOOLEAN /\ capabilityOf \in Nat /\ hints \in {0 - 1, Generation(mt)}
          /\ capability = "supported" => capabilityOf = Generation(mt)
      BY DEF IInv, TypeOK, CachesCurrent
    <3> QED
      BY <2>1, <2>2, <3>1, CachesStayCurrent DEF IInv, Keep
  <2>4. TypeOK'
    BY <2>1, <2>2, <2>3 DEF IInv, TypeOK, Forget
  <2>5. NoVainWait' /\ OwnProbe'
    BY <2>1 DEF IInv, NoVainWait, OwnProbe, Probing
  <2> QED
    BY <2>1, <2>3, <2>4, <2>5
       DEF IInv, CountExact, NeverTornDown, OneProbe, InUseIsConnected, JoinedIsLatest, Open
<1>6. CASE UNCHANGED vars
  <2>1. UNCHANGED <<mt, capability, fresh, capabilityOf, hints, probeGeneration, inFlight,
                    probe, exec, closed>>
    BY <1>6 DEF vars, cache
  <2>2. TypeOK' /\ CachesCurrent'
    BY <2>1 DEF IInv, TypeOK, CachesCurrent, Generation
  <2>3. CountExact' /\ NeverTornDown' /\ InUseIsConnected'
    BY <1>2, <2>1 DEF IInv, CountExact, NeverTornDown, InUseIsConnected
  <2> QED
    BY <1>2, <2>1, <2>2, <2>3 DEF IInv
<1> QED
  BY <1>3, <1>4, <1>5, <1>6

\* A new manager: no connection, no probe, nothing cached.
LEMMA InitIInv == Init => IInv
<1> SUFFICES ASSUME Init PROVE IInv
  OBVIOUS
<1> USE DEF Init
<1>1. mt \in Transports(Tokens) /\ mt.active = 0
  BY NewTransportType DEF NewTransport
<1>2. TypeOK
  BY <1>1 DEF TypeOK, Probes, Calls, NoProbe, NewExec
<1>3. Running = {} /\ Probing = {}
  BY DEF Running, Probing, NoProbe, NewExec
<1>4. CountExact
  BY <1>1, <1>3, FS_EmptySet DEF CountExact
<1>5. NeverTornDown /\ OneProbe /\ OwnProbe /\ InUseIsConnected /\ JoinedIsLatest
  BY <1>1, <1>3 DEF NeverTornDown, OneProbe, OwnProbe, InUseIsConnected, JoinedIsLatest
<1>6. NoVainWait /\ CachesCurrent
  BY DEF NoVainWait, CachesCurrent, NewExec
<1> QED
  BY <1>2, <1>4, <1>5, <1>6 DEF IInv

\* The inductive invariant holds of every execution of the manager.
THEOREM Invariance == Spec => []IInv
<1>1. IInv /\ [Next]_vars => IInv'
  BY StartKeeps, ProbeKeeps, ExecKeeps, OthersKeep DEF Next
<1> QED
  BY InitIInv, <1>1, PTL DEF Spec

\* The reference count is exact, and so neither a probe timeout nor an identity change nor
\* a sibling's failure takes the connection away from under a command or a probe.
THEOREM SharedConnection == Spec => []ConnectionShared
<1>1. IInv => ConnectionShared
  BY DEF IInv, ConnectionShared
<1> QED
  BY <1>1, Invariance, PTL

\* Commands share one probe, none awaits one that will not end, and what probes and
\* commands left in the caches is of the present connection and identity.
THEOREM SharedProbe == Spec => []ProbeShared
<1>1. IInv => ProbeShared
  BY DEF IInv, ProbeShared
<1> QED
  BY <1>1, Invariance, PTL

--------------------------------------------------------------------------------
(* The commands over the relay.                                            *)

Started == {e \in RelayExecs : relayExec[e].pc # "idle"}

\* The calls can be numbered in the order in which they took their places: each waits for
\* the agent's latest call before it, the queue's end is the last one, and only what comes
\* before a call that began has finished.
Ordered(rank) ==
    /\ \A e \in Started : rank[e] < Cardinality(Started)
    /\ \A e, f \in Started : rank[e] = rank[f] => e = f
    /\ \A f \in Started : relayExec[f].previous # NoCall =>
          /\ relayExec[f].previous \in Started /\ AgentOf[relayExec[f].previous] = AgentOf[f]
          /\ rank[relayExec[f].previous] < rank[f]
    /\ \A e, f \in Started : AgentOf[e] = AgentOf[f] /\ rank[e] < rank[f] =>
          /\ relayExec[f].previous # NoCall /\ rank[e] <= rank[relayExec[f].previous]
          /\ relayExec[f].pc # "queued" => relayExec[e].pc \in Finished
    /\ RelayOpen => \A f \in Started : /\ last[AgentOf[f]] \in Started
                                       /\ rank[f] <= rank[last[AgentOf[f]]]
    /\ RelayOpen => \A a \in Agents : last[a] # NoCall => last[a] \in Started /\ AgentOf[last[a]] = a

InOrder == \E rank \in [RelayExecs -> 0..Cardinality(RelayExecs)] : Ordered(rank)

\* The reference count of the transport, whose connection exists while it is in use.
RelayCountExact ==
    /\ RelayOpen => relayTransport.active = Cardinality(RelayRunning)
    /\ RelayOpen /\ relayTransport.active > 0 => relayTransport.conn # 0
    /\ relayTransport.conn <= relayTransport.created

\* A conversation belongs to the agent of the command that opened it, on a connection that
\* existed; no other command knows of it before.
OpenedFirst ==
    /\ \A c \in RelayExecs : /\ hub[c].conn <= relayTransport.created
                             /\ hub[c].state = "open" => hub[c].conn # 0
                             /\ hub[c].state # "none" =>
                                   relayExec[c].pc \in Finished \/ relayExec[c].conversation = c
    /\ \A e \in RelayExecs : relayExec[e].conversation # NoCall =>
          /\ AgentOf[relayExec[e].conversation] = AgentOf[e]
          /\ hub[relayExec[e].conversation].state # "none"
    /\ \A a \in Agents : agentSessions[a] # NoCall =>
          AgentOf[agentSessions[a]] = a /\ hub[agentSessions[a]].state # "none"
    /\ \A e \in RelayExecs : relayExec[e].pc \in {"idle", "queued"} => relayExec[e].conversation = NoCall

\* A running command runs on what was kept for its agent, and knows the present identity
\* unless the connection has been marked for replacement.
RunsOnKept ==
    RelayOpen => \A e \in RelayRunning :
                    /\ agentSessions[AgentOf[e]] \in {NoCall, relayExec[e].conversation}
                    /\ relayExec[e].generation = Generation(relayTransport) \/ relayTransport.stale

RelayInv ==
    /\ RelayTypeOK
    /\ InOrder
    /\ RelayCountExact
    /\ OpenedFirst
    /\ RunsOnKept
    /\ OwnConversation
    /\ KeptIsLive
    /\ KeptUnderThisIdentity
    /\ NoLeakedConversation


--------------------------------------------------------------------------------
\* The releases of n failed commands, one after the other: n users less, and the
\* connection is disposed of only if there were no more than n.
ReleasedBy(m, n, r) ==
    /\ r \in Transports(RelayTokens)
    /\ r.active = IF m.active > n THEN m.active - n ELSE 0
    /\ r.identityChanges = m.identityChanges
    /\ r.stale = m.stale /\ r.created = m.created
    /\ \/ r.conn = m.conn /\ r.disposals = m.disposals
       \/ m.active <= n /\ n > 0 /\ r.conn = 0 /\ r.disposals - m.disposals \in Nat \ {0}

IsChain(m, n, after) ==
    after = [k \in 0..n |-> IF k = 0 THEN m ELSE Release(after[k - 1])]

\* The transports a number of releases pass through are defined for every number.
LEMMA ChainExists == ASSUME NEW m PROVE \A n \in Nat : \E after : IsChain(m, n, after)
<1> DEFINE S == {n \in Nat : \E after : IsChain(m, n, after)}
<1>1. 0 \in S
  <2> DEFINE after == [k \in 0..0 |-> m]
  <2>1. IsChain(m, 0, after)
    BY DEF IsChain
  <2> QED
    BY <2>1
<1>2. ASSUME NEW n \in Nat, n \in S PROVE n + 1 \in S
  <2>1. PICK before : IsChain(m, n, before)
    BY <1>2
  <2> DEFINE after == [k \in 0..(n + 1) |-> IF k = n + 1 THEN Release(before[n]) ELSE before[k]]
  <2>2. IsChain(m, n + 1, after)
    BY <2>1 DEF IsChain
  <2> QED
    BY <2>2
<1> HIDE DEF S
<1>3. Nat \subseteq S
  BY <1>1, <1>2, SetInduction
<1> QED
  BY <1>3 DEF S

\* ReleaseAll(m, n) is what n releases make of m, whatever n is.
LEMMA ReleaseAllEffect ==
    ASSUME NEW m \in Transports(RelayTokens), NEW n \in Nat
    PROVE  ReleasedBy(m, n, ReleaseAll(m, n))
<1> DEFINE after == CHOOSE f : f = [k \in 0..n |-> IF k = 0 THEN m ELSE Release(f[k - 1])]
<1>1. ReleaseAll(m, n) = after[n]
  BY DEF ReleaseAll
<1>2. \E f : f = [k \in 0..n |-> IF k = 0 THEN m ELSE Release(f[k - 1])]
  BY ChainExists DEF IsChain
<1>3. after = [k \in 0..n |-> IF k = 0 THEN m ELSE Release(after[k - 1])]
  BY <1>2
<1> HIDE DEF after
<1>4. m.active \in Nat /\ m.disposals \in Nat
  BY DEF Transports
<1> DEFINE S == {k \in Nat : k <= n => ReleasedBy(m, k, after[k])}
<1>5. 0 \in S
  <2>1. after[0] = m
    BY <1>3
  <2> QED
    BY <1>4, <2>1 DEF ReleasedBy
<1>6. ASSUME NEW k \in Nat, k \in S PROVE k + 1 \in S
  <2> SUFFICES ASSUME k + 1 <= n PROVE ReleasedBy(m, k + 1, after[k + 1])
    OBVIOUS
  <2>1. after[k + 1] = Release(after[k])
    BY <1>3
  <2>2. ReleasedBy(m, k, after[k])
    BY <1>6
  <2> DEFINE r == after[k]
  <2> HIDE DEF r
  <2>3. /\ Release(r) \in Transports(RelayTokens)
        /\ Release(r).active = IF r.active > 0 THEN r.active - 1 ELSE 0
        /\ Release(r).identityChanges = r.identityChanges
        /\ Release(r).stale = r.stale /\ Release(r).created = r.created
        /\ \/ Release(r).conn = r.conn /\ Release(r).disposals = r.disposals
           \/ r.active <= 1 /\ Release(r).conn = 0 /\ Release(r).disposals = r.disposals + 1
    BY <2>2, ReleaseEffect DEF r, ReleasedBy
  <2>4. r.active \in Nat /\ r.disposals \in Nat
    BY <2>2 DEF r, ReleasedBy, Transports
  <2>5. ReleasedBy(m, k, r)
    BY <2>2 DEF r
  <2>6. ReleasedBy(m, k + 1, Release(r))
    <3>1. Release(r).active = IF m.active > k + 1 THEN m.active - (k + 1) ELSE 0
      BY <1>4, <2>3, <2>5 DEF ReleasedBy
    <3>2. \/ Release(r).conn = m.conn /\ Release(r).disposals = m.disposals
          \/ /\ m.active <= k + 1 /\ k + 1 > 0 /\ Release(r).conn = 0
             /\ Release(r).disposals - m.disposals \in Nat \ {0}
      BY <1>4, <2>3, <2>4, <2>5 DEF ReleasedBy
    <3> QED
      BY <2>3, <2>5, <3>1, <3>2 DEF ReleasedBy
  <2> QED
    BY <2>1, <2>6 DEF r
<1> HIDE DEF S
<1>7. Nat \subseteq S
  BY <1>5, <1>6, SetInduction
<1> QED
  BY <1>1, <1>7 DEF S

--------------------------------------------------------------------------------
\* One command of an agent runs at a time.
OneAtATime == \A e, f \in RelayRunning : AgentOf[e] = AgentOf[f] => e = f

\* Executions in the order of their agent's queue do not run at once.
LEMMA TakeTurns == RelayTypeOK /\ InOrder => OneAtATime
<1> SUFFICES ASSUME RelayTypeOK, InOrder, NEW e \in RelayRunning, NEW f \in RelayRunning,
                    AgentOf[e] = AgentOf[f], e # f
             PROVE  FALSE
  BY DEF OneAtATime
<1>1. PICK rank \in [RelayExecs -> 0..Cardinality(RelayExecs)] : Ordered(rank)
  BY DEF InOrder
<1>2. e \in Started /\ f \in Started /\ relayExec[e].pc = "running" /\ relayExec[f].pc = "running"
  BY DEF RelayRunning, Started
<1>3. rank[e] \in Int /\ rank[f] \in Int /\ rank[e] # rank[f]
  BY <1>1, <1>2 DEF Ordered, Started
<1>4. rank[e] < rank[f] \/ rank[f] < rank[e]
  BY <1>3
<1> QED
  BY <1>1, <1>2, <1>4 DEF Ordered, Finished

\* The order survives whatever a call does when it is its turn.
LEMMA TurnsKeepOrder ==
    ASSUME RelayTypeOK, InOrder, relayClosed' \/ (relayClosed' = relayClosed /\ last' = last),
           \A e \in RelayExecs : relayExec'[e].previous = relayExec[e].previous,
           \A e \in RelayExecs : \/ relayExec'[e].pc = relayExec[e].pc
                                 \/ /\ relayExec[e].pc = "queued" /\ MyTurn(e)
                                    /\ relayExec'[e].pc \in {"running"} \cup Finished
                                 \/ relayExec[e].pc = "running" /\ relayExec'[e].pc \in Finished
    PROVE  InOrder'
<1>1. PICK rank \in [RelayExecs -> 0..Cardinality(RelayExecs)] : Ordered(rank)
  BY DEF InOrder
<1>2. Started' = Started /\ Started \subseteq RelayExecs
  BY DEF Started, Finished
<1>3. \A e \in Started : rank[e] \in Int
  BY <1>1, <1>2
<1>4. ASSUME NEW e \in Started, NEW f \in Started, AgentOf[e] = AgentOf[f], rank[e] < rank[f]
      PROVE  /\ relayExec'[f].previous # NoCall /\ rank[e] <= rank[relayExec'[f].previous]
             /\ relayExec'[f].pc # "queued" => relayExec'[e].pc \in Finished
  <2> DEFINE p == relayExec[f].previous
  <2>1. /\ p # NoCall /\ rank[e] <= rank[p] /\ p \in Started /\ AgentOf[p] = AgentOf[f]
        /\ relayExec[f].pc # "queued" => relayExec[e].pc \in Finished
    BY <1>1, <1>4 DEF Ordered
  <2>2. relayExec'[f].previous = p
    BY <1>2
  <2>3. ASSUME relayExec[e].pc \in Finished PROVE relayExec'[e].pc \in Finished
    BY <1>2, <2>3 DEF Finished
  <2>4. ASSUME relayExec[f].pc = "queued", MyTurn(f) PROVE relayExec[e].pc \in Finished
    <3>1. relayExec[p].pc \in Finished
      BY <1>2, <2>1, <2>4 DEF MyTurn
    <3>2. CASE rank[e] = rank[p]
      BY <1>1, <2>1, <3>1, <3>2 DEF Ordered
    <3>3. CASE rank[e] < rank[p]
      BY <1>1, <1>4, <2>1, <3>1, <3>3 DEF Ordered, Finished
    <3> QED
      BY <1>3, <2>1, <3>2, <3>3
  <2>5. relayExec'[f].pc # "queued" => relayExec'[e].pc \in Finished
    BY <1>2, <2>1, <2>3, <2>4
  <2> QED
    BY <2>1, <2>2, <2>5
<1>5. Ordered(rank)'
  BY <1>1, <1>2, <1>4 DEF Ordered, RelayOpen
<1> QED
  BY <1>1, <1>5 DEF InOrder

\* A new call is the last.
LEMMA CallKeepsOrder == ASSUME RelayTypeOK, InOrder, NEW e \in RelayExecs, Call(e) PROVE InOrder'
<1>1. PICK rank \in [RelayExecs -> 0..Cardinality(RelayExecs)] : Ordered(rank)
  BY DEF InOrder
<1>2. PICK t \in RelayTokens : relayExec' = [relayExec EXCEPT ![e].pc = "queued", ![e].token = t,
                                                              ![e].previous = last[AgentOf[e]]]
  BY DEF Call
<1>3. /\ RelayOpen /\ relayExec[e].pc = "idle" /\ relayClosed' = relayClosed
      /\ last' = [last EXCEPT ![AgentOf[e]] = e]
  BY DEF Call
<1>4. /\ relayExec'[e].pc = "queued" /\ relayExec'[e].previous = last[AgentOf[e]]
      /\ \A f \in RelayExecs \ {e} : relayExec'[f] = relayExec[f]
  BY <1>2 DEF RelayTypeOK, RelayCalls
<1>5. Started' = Started \cup {e} /\ e \notin Started /\ Started \subseteq RelayExecs
  BY <1>3, <1>4 DEF Started
<1>6. /\ AgentOf[e] \in Agents /\ last'[AgentOf[e]] = e
      /\ \A a \in Agents \ {AgentOf[e]} : last'[a] = last[a]
  BY <1>3, RelayManagerAssumption DEF RelayTypeOK
<1>7. PICK n \in Nat :
         /\ n = Cardinality(Started) /\ Cardinality(Started') = n + 1
         /\ n + 1 <= Cardinality(RelayExecs) /\ Cardinality(RelayExecs) \in Nat
  <2> HIDE DEF Started
  <2>1. IsFiniteSet(Started) /\ IsFiniteSet(RelayExecs)
    BY <1>5, FS_Subset, RelayManagerAssumption
  <2>2. Cardinality(Started \cup {e}) = Cardinality(Started) + 1
    BY <1>5, <2>1, FS_AddElement
  <2>3. Cardinality(Started \cup {e}) <= Cardinality(RelayExecs)
    BY <1>5, <2>1, FS_Subset
  <2> QED
    BY <1>5, <2>1, <2>2, <2>3, FS_CardinalityType
<1>8. PICK rank2 \in [RelayExecs -> 0..Cardinality(RelayExecs)] :
         /\ rank2[e] = n
         /\ \A f \in RelayExecs \ {e} : rank2[f] = rank[f]
         /\ \A f \in RelayExecs : rank[f] \in Int
  <2>1. [rank EXCEPT ![e] = n] \in [RelayExecs -> 0..Cardinality(RelayExecs)]
    BY <1>7
  <2>2. /\ [rank EXCEPT ![e] = n][e] = n
        /\ \A f \in RelayExecs \ {e} : [rank EXCEPT ![e] = n][f] = rank[f]
        /\ \A f \in RelayExecs : rank[f] \in Int
    BY <1>7
  <2> QED
    BY <2>1, <2>2
<1>9. \A f \in Started : rank2[f] = rank[f] /\ rank2[f] < n /\ relayExec'[f] = relayExec[f]
  BY <1>1, <1>4, <1>5, <1>7, <1>8 DEF Ordered
<1>10. \A f \in Started' : rank2[f] < Cardinality(Started') /\ rank2[f] \in Int
  BY <1>5, <1>7, <1>8, <1>9
<1>11. \A f, g \in Started' : rank2[f] = rank2[g] => f = g
  BY <1>1, <1>5, <1>7, <1>8, <1>9 DEF Ordered
<1>12. ASSUME NEW f \in Started', relayExec'[f].previous # NoCall
       PROVE  /\ relayExec'[f].previous \in Started /\ AgentOf[relayExec'[f].previous] = AgentOf[f]
              /\ rank2[relayExec'[f].previous] < rank2[f]
  <2>1. CASE f = e
    BY <1>1, <1>3, <1>4, <1>6, <1>8, <1>9, <1>12, <2>1 DEF Ordered
  <2>2. CASE f # e
    BY <1>1, <1>5, <1>9, <1>12, <2>2 DEF Ordered
  <2> QED
    BY <2>1, <2>2
<1>13. ASSUME NEW f \in Started', NEW g \in Started', AgentOf[f] = AgentOf[g],
              rank2[f] < rank2[g]
       PROVE  /\ relayExec'[g].previous # NoCall /\ rank2[f] <= rank2[relayExec'[g].previous]
              /\ relayExec'[g].pc # "queued" => relayExec'[f].pc \in Finished
  <2>1. f \in Started
    BY <1>5, <1>8, <1>9, <1>13, <1>10
  <2>2. CASE g = e
    <3>1. last[AgentOf[e]] \in Started /\ rank[f] <= rank[last[AgentOf[e]]]
      BY <1>1, <1>3, <1>13, <2>1, <2>2 DEF Ordered
    <3> QED
      BY <1>4, <1>5, <1>9, <2>1, <2>2, <3>1, RelayManagerAssumption
  <2>3. CASE g # e
    <3>1. g \in Started
      BY <1>5, <2>3
    <3>2. /\ relayExec[g].previous # NoCall /\ rank[f] <= rank[relayExec[g].previous]
          /\ relayExec[g].previous \in Started
          /\ relayExec[g].pc # "queued" => relayExec[f].pc \in Finished
      BY <1>1, <1>9, <1>13, <2>1, <3>1 DEF Ordered
    <3> QED
      BY <1>9, <2>1, <3>1, <3>2
  <2> QED
    BY <2>2, <2>3
<1>14. \A f \in Started' : /\ last'[AgentOf[f]] \in Started'
                           /\ rank2[f] <= rank2[last'[AgentOf[f]]]
  <2> SUFFICES ASSUME NEW f \in Started'
               PROVE  last'[AgentOf[f]] \in Started' /\ rank2[f] <= rank2[last'[AgentOf[f]]]
    OBVIOUS
  <2>1. f \in RelayExecs /\ AgentOf[f] \in Agents
    BY <1>5, RelayManagerAssumption
  <2>2. CASE AgentOf[f] = AgentOf[e]
    BY <1>5, <1>6, <1>7, <1>8, <1>9, <2>2
  <2>3. CASE AgentOf[f] # AgentOf[e]
    BY <1>1, <1>3, <1>5, <1>6, <1>9, <2>1, <2>3 DEF Ordered
  <2> QED
    BY <2>2, <2>3
<1>15. \A a \in Agents : last'[a] # NoCall => last'[a] \in Started' /\ AgentOf[last'[a]] = a
  BY <1>1, <1>3, <1>5, <1>6 DEF Ordered
<1>16. Ordered(rank2)'
  BY <1>5, <1>10, <1>11, <1>12, <1>13, <1>14, <1>15 DEF Ordered
<1> QED
  BY <1>8, <1>16 DEF InOrder

\* In order, some call of the agent behind which a call waits is at work or may begin.
LEMMA SomebodyMoves == RelayTypeOK /\ InOrder => QueueMoves
<1> SUFFICES ASSUME RelayTypeOK, InOrder, NEW e \in RelayExecs, relayExec[e].pc = "queued"
             PROVE  \E f \in RelayExecs : /\ AgentOf[f] = AgentOf[e]
                                          /\ f \in RelayRunning \/ (relayExec[f].pc = "queued" /\ MyTurn(f))
  BY DEF QueueMoves
<1>1. PICK rank \in [RelayExecs -> 0..Cardinality(RelayExecs)] : Ordered(rank)
  BY DEF InOrder
<1> DEFINE Waiting == {f \in RelayExecs : AgentOf[f] = AgentOf[e] /\ relayExec[f].pc \in {"queued", "running"}}
<1> DEFINE Places == {rank[f] : f \in Waiting}
<1>2. Places \in SUBSET Nat /\ Places # {}
  BY <1>1
<1>3. PICK n \in Places : \A k \in Places : n <= k
  BY <1>2, LeastElement
<1>4. PICK f \in Waiting : \A g \in Waiting : rank[f] <= rank[g]
  BY <1>3
<1>5. f \in Started /\ rank[f] \in Int
  BY <1>1 DEF Started
<1>6. ASSUME NEW p \in RelayExecs, relayExec[f].previous = p PROVE relayExec[p].pc \in Finished
  <2>1. p \in Started /\ AgentOf[p] = AgentOf[f] /\ rank[p] < rank[f] /\ rank[p] \in Int
    BY <1>1, <1>5, <1>6, RelayManagerAssumption DEF Ordered
  <2>2. p \notin Waiting
    BY <1>4, <1>5, <2>1
  <2>3. relayExec[p].pc \in {"idle", "queued", "running"} \cup Finished /\ relayExec[p].pc # "idle"
    BY <2>1 DEF RelayTypeOK, RelayCalls, Started
  <2> QED
    BY <2>1, <2>2, <2>3
<1> QED
  BY <1>4, <1>6 DEF RelayRunning, MyTurn

--------------------------------------------------------------------------------
\* What the types and the reference count say of a state.
LEMMA Facts ==
    ASSUME RelayInv
    PROVE  /\ relayTransport \in Transports(RelayTokens) /\ relayTransport.active \in Nat /\ relayTransport.conn \in Nat
           /\ relayTransport.created \in Nat /\ relayTransport.disposals \in Nat /\ relayTransport.identityChanges \in Nat
           /\ \A e \in RelayExecs : relayExec[e] \in RelayCalls /\ AgentOf[e] \in Agents
           /\ RelayRunning \subseteq RelayExecs /\ IsFiniteSet(RelayRunning) /\ Cardinality(RelayRunning) \in Nat
           /\ RelayOpen => relayTransport.active = Cardinality(RelayRunning)
           /\ RelayOpen /\ relayTransport.active > 0 => relayTransport.conn # 0
           /\ OneAtATime
<1>1. RelayRunning \subseteq RelayExecs
  BY DEF RelayRunning
<1>2. IsFiniteSet(RelayRunning) /\ Cardinality(RelayRunning) \in Nat
  BY <1>1, FS_Subset, FS_CardinalityType, RelayManagerAssumption
<1>3. relayTransport \in Transports(RelayTokens) /\ \A e \in RelayExecs : relayExec[e] \in RelayCalls /\ AgentOf[e] \in Agents
  BY RelayManagerAssumption DEF RelayInv, RelayTypeOK
<1>4. OneAtATime
  BY TakeTurns DEF RelayInv
<1> QED
  BY <1>1, <1>2, <1>3, <1>4 DEF RelayInv, RelayCountExact, Transports

\* As long as some command keeps running, n endings leave the connection to it.
LEMMA LeavesToOthers ==
    ASSUME RelayInv, RelayOpen, NEW S \in SUBSET RelayRunning, NEW f \in RelayRunning \ S, NEW m, NEW k,
           k.active = relayTransport.active, k.conn = relayTransport.conn, k.disposals = relayTransport.disposals,
           ReleasedBy(k, Cardinality(S), m)
    PROVE  m.conn = relayTransport.conn /\ m.disposals = relayTransport.disposals /\ m.active > 0
<1>1. /\ RelayRunning \subseteq RelayExecs /\ IsFiniteSet(RelayRunning) /\ Cardinality(RelayRunning) \in Nat
      /\ relayTransport.active = Cardinality(RelayRunning)
  BY Facts
<1> HIDE DEF RelayRunning
<1>2. S \cup {f} \subseteq RelayRunning /\ f \notin S
  OBVIOUS
<1>3. IsFiniteSet(S)
  BY <1>1, FS_Subset
<1>4. Cardinality(S \cup {f}) = Cardinality(S) + 1 /\ Cardinality(S) \in Nat
  BY <1>2, <1>3, FS_AddElement, FS_CardinalityType
<1>5. Cardinality(S) + 1 <= Cardinality(RelayRunning)
  BY <1>1, <1>2, <1>4, FS_Subset
<1> QED
  BY <1>1, <1>4, <1>5 DEF ReleasedBy

\* What the hub may come to know when the commands S fail: conversations of theirs end,
\* and one that was asked for too late opens on the connection in use.
HubAfter(S) ==
    /\ hub' \in [RelayExecs -> Conversations]
    /\ \A c \in RelayExecs :
          \/ hub'[c] = hub[c]
          \/ /\ c \in EndsConversation(S)
             /\ hub'[c].state = "ended" /\ hub'[c].conn = hub[c].conn
          \/ /\ c \in S /\ RelayOpen /\ relayExec[c].conversation = NoCall
             /\ hub'[c].state = "open" /\ hub'[c].conn = relayTransport.conn

\* The commands S fail, together or one of them.
LEMMA FailKeeps ==
    ASSUME RelayInv, NEW S \in SUBSET RelayRunning, Fail(S), HubAfter(S)
    PROVE  RelayInv'
<1> DEFINE m == ReleaseAll(MarksStale(relayTransport), Cardinality(S))
<1> DEFINE k == MarksStale(relayTransport)
<1>1. /\ relayTransport \in Transports(RelayTokens) /\ relayTransport.active \in Nat /\ relayTransport.conn \in Nat
      /\ relayTransport.created \in Nat /\ relayTransport.disposals \in Nat /\ relayTransport.identityChanges \in Nat
      /\ RelayOpen /\ RelayRunning # {} => relayTransport.conn # 0
      /\ RelayRunning \subseteq RelayExecs /\ IsFiniteSet(RelayRunning) /\ Cardinality(RelayRunning) \in Nat
      /\ RelayOpen => relayTransport.active = Cardinality(RelayRunning)
      /\ OneAtATime
  <2>1. RelayRunning # {} => Cardinality(RelayRunning) # 0
    BY Facts, FS_EmptySet
  <2> QED
    BY <2>1, Facts
<1>2. IsFiniteSet(S) /\ Cardinality(S) \in Nat
  BY <1>1, FS_Subset, FS_CardinalityType
<1>3. /\ k \in Transports(RelayTokens) /\ k.active = relayTransport.active /\ k.conn = relayTransport.conn
      /\ k.created = relayTransport.created /\ k.disposals = relayTransport.disposals
      /\ k.identityChanges = relayTransport.identityChanges
  BY <1>1, MarkStaleEffect DEF MarksStale
<1>4. k.stale
  BY <1>1 DEF MarksStale, MarkStale, Transports
<1>5. /\ relayTransport' = m /\ agentSessions' = Forgotten(m, DropSessions(S, agentSessions))
      /\ relayExec' = [e \in RelayExecs |-> IF e \in S THEN [relayExec[e] EXCEPT !.pc = "failed"] ELSE relayExec[e]]
      /\ last' = last /\ relayClosed' = relayClosed
  BY DEF Fail
<1> HIDE DEF k
<1>6. ReleasedBy(k, Cardinality(S), m)
  BY <1>2, <1>3, ReleaseAllEffect DEF k
<1> HIDE DEF m
<1>7. /\ m \in Transports(RelayTokens) /\ m.created = relayTransport.created /\ m.stale = k.stale
      /\ m.active = IF relayTransport.active > Cardinality(S) THEN relayTransport.active - Cardinality(S) ELSE 0
      /\ m.identityChanges = relayTransport.identityChanges
      /\ \/ m.conn = relayTransport.conn /\ m.disposals = relayTransport.disposals
         \/ /\ relayTransport.active <= Cardinality(S) /\ m.conn = 0
            /\ m.disposals - relayTransport.disposals \in Nat \ {0}
  BY <1>3, <1>6 DEF ReleasedBy
<1>8. /\ \A e \in RelayExecs : /\ relayExec'[e].conversation = relayExec[e].conversation
                               /\ relayExec'[e].generation = relayExec[e].generation
                               /\ relayExec'[e].previous = relayExec[e].previous
      /\ \A e \in RelayExecs \ S : relayExec'[e] = relayExec[e]
      /\ \A e \in S : relayExec'[e].pc = "failed" /\ relayExec[e].pc = "running"
  BY <1>1, <1>5 DEF RelayInv, RelayTypeOK, RelayCalls, RelayRunning
<1>9. /\ RelayRunning' = RelayRunning \ S
      /\ \A e \in RelayExecs : relayExec'[e].pc \in Finished \/ relayExec'[e].pc = relayExec[e].pc
  BY <1>1, <1>8 DEF RelayRunning, Finished
<1>10. /\ agentSessions' \in [Agents -> RelayExecs \cup {NoCall}]
       /\ \A a \in Agents : agentSessions'[a] # NoCall =>
             /\ agentSessions'[a] = agentSessions[a]
             /\ \A e \in S : AgentOf[e] # a
             /\ m.conn = relayTransport.conn /\ m.disposals = relayTransport.disposals
             /\ Generation(m) = Generation(relayTransport)
       /\ m.disposals = relayTransport.disposals => agentSessions' = DropSessions(S, agentSessions)
  <2>1. Generation(m) = Generation(relayTransport) <=> m.disposals = relayTransport.disposals
    BY <1>1, <1>7 DEF Generation, Transports
  <2> QED
    BY <1>1, <1>5, <1>7, <2>1 DEF Forgotten, NoSessions, DropSessions, RelayInv, RelayTypeOK
<1>11. RelayTypeOK'
  <2>1. \A e \in RelayExecs : [relayExec[e] EXCEPT !.pc = "failed"] \in RelayCalls
    BY DEF RelayInv, RelayTypeOK, RelayCalls, Finished
  <2>2. relayExec' \in [RelayExecs -> RelayCalls]
    BY <1>5, <2>1 DEF RelayInv, RelayTypeOK
  <2> QED
    BY <1>5, <1>7, <1>10, <2>2 DEF RelayInv, RelayTypeOK, HubAfter
<1>12. InOrder'
  <2>1. \A e \in RelayExecs : \/ relayExec'[e].pc = relayExec[e].pc
                              \/ relayExec[e].pc = "running" /\ relayExec'[e].pc \in Finished
    BY <1>8 DEF Finished
  <2> QED
    BY <1>5, <1>8, <2>1, TurnsKeepOrder DEF RelayInv
<1>13. RelayCountExact'
  <2>1. Cardinality(RelayRunning \ S) = Cardinality(RelayRunning) - Cardinality(S)
    <3>1. RelayRunning \cap S = S
      OBVIOUS
    <3>2. Cardinality(RelayRunning \ S) = Cardinality(RelayRunning) - Cardinality(RelayRunning \cap S)
      BY <1>1, FS_Difference
    <3> QED
      BY <3>1, <3>2
  <2>2. Cardinality(RelayRunning \ S) \in Nat
    BY <1>1, FS_Difference, FS_CardinalityType
  <2>3. m.conn <= m.created
    BY <1>1, <1>7 DEF RelayInv, RelayCountExact
  <2>4. RelayOpen => m.active = Cardinality(RelayRunning \ S)
    BY <1>1, <1>2, <1>7, <2>1, <2>2
  <2>5. RelayOpen /\ m.active > 0 => m.conn # 0
    BY <1>1, <1>2, <1>7 DEF RelayInv, RelayCountExact
  <2> QED
    BY <1>5, <1>9, <2>3, <2>4, <2>5 DEF RelayCountExact, RelayOpen
<1>14. OpenedFirst'
  <2>1. ASSUME NEW c \in EndsConversation(S)
        PROVE  hub[c].state # "none"
    BY <1>1, <2>1 DEF EndsConversation, RelayInv, OpenedFirst
  <2>2. ASSUME NEW c \in RelayExecs
        PROVE  /\ hub'[c].conn <= m.created
               /\ hub'[c].state = "open" => hub'[c].conn # 0
               /\ hub'[c].state # "none" =>
                     relayExec'[c].pc \in Finished \/ relayExec'[c].conversation = c
               /\ hub[c].state # "none" => hub'[c].state # "none"
    <3>1. /\ hub[c].conn <= relayTransport.created
          /\ hub[c].state = "open" => hub[c].conn # 0
          /\ hub[c].state # "none" => relayExec[c].pc \in Finished \/ relayExec[c].conversation = c
      BY DEF RelayInv, OpenedFirst
    <3>2. relayExec[c].pc \in Finished \/ relayExec[c].conversation = c
             => relayExec'[c].pc \in Finished \/ relayExec'[c].conversation = c
      BY <1>8, <1>9
    <3>3. hub[c].conn <= m.created /\ relayTransport.conn <= m.created
      BY <1>7, <3>1 DEF RelayInv, RelayCountExact
    <3>4. CASE hub'[c] = hub[c]
      BY <3>1, <3>2, <3>3, <3>4
    <3>5. CASE c \in EndsConversation(S) /\ hub'[c].state = "ended" /\ hub'[c].conn = hub[c].conn
      BY <2>1, <3>1, <3>2, <3>3, <3>5
    <3>6. CASE c \in S /\ RelayOpen /\ hub'[c].state = "open" /\ hub'[c].conn = relayTransport.conn
      BY <1>1, <1>8, <3>3, <3>6 DEF Finished
    <3> QED
      BY <3>4, <3>5, <3>6 DEF HubAfter
  <2>3. ASSUME NEW e \in RelayExecs, relayExec'[e].conversation # NoCall
        PROVE  /\ AgentOf[relayExec'[e].conversation] = AgentOf[e]
               /\ hub'[relayExec'[e].conversation].state # "none"
    <3>1. relayExec[e].conversation \in RelayExecs
      BY <1>8, <2>3 DEF RelayInv, RelayTypeOK, RelayCalls
    <3> QED
      BY <1>8, <2>2, <2>3, <3>1 DEF RelayInv, OpenedFirst
  <2>4. ASSUME NEW a \in Agents, agentSessions'[a] # NoCall
        PROVE  AgentOf[agentSessions'[a]] = a /\ hub'[agentSessions'[a]].state # "none"
    <3>1. agentSessions[a] \in RelayExecs
      BY <1>10, <2>4 DEF RelayInv, RelayTypeOK
    <3> QED
      BY <1>10, <2>2, <2>4, <3>1 DEF RelayInv, OpenedFirst
  <2>5. ASSUME NEW e \in RelayExecs, relayExec'[e].pc \in {"idle", "queued"}
        PROVE  relayExec'[e].conversation = NoCall
    BY <1>8, <2>5 DEF RelayInv, OpenedFirst
  <2> QED
    BY <1>5, <2>2, <2>3, <2>4, <2>5 DEF OpenedFirst
<1>15. RunsOnKept'
  <2> SUFFICES ASSUME RelayOpen, NEW f \in RelayRunning \ S
               PROVE  agentSessions'[AgentOf[f]] \in {NoCall, relayExec'[f].conversation}
    BY <1>4, <1>5, <1>7, <1>9 DEF RunsOnKept, RelayOpen
  <2>1. AgentOf[f] \in Agents /\ agentSessions[AgentOf[f]] \in {NoCall, relayExec[f].conversation}
    BY <1>1, RelayManagerAssumption DEF RelayInv, RunsOnKept
  <2> QED
    BY <1>1, <1>8, <1>10, <2>1
<1>16. OwnConversation'
  <2> SUFFICES ASSUME RelayOpen, NEW f \in RelayRunning \ S, relayExec'[f].conversation # NoCall
               PROVE  /\ relayExec'[f].conversation \in LiveConversations'
                      /\ \A g \in (RelayRunning \ S) \ {f} : relayExec'[g].conversation # relayExec'[f].conversation
    BY <1>5, <1>9 DEF OwnConversation, RelayOpen
  <2> DEFINE c == relayExec[f].conversation
  <2>1. /\ c \in RelayExecs /\ relayExec'[f].conversation = c /\ hub[c].state = "open"
        /\ hub[c].conn = relayTransport.conn
        /\ \A g \in RelayRunning \ {f} : relayExec[g].conversation # c
    BY <1>1, <1>8 DEF RelayInv, OwnConversation, LiveConversations
  <2>2. m.conn = relayTransport.conn
    BY <1>3, <1>6, LeavesToOthers
  <2>3. c \notin EndsConversation(S)
    BY <2>1 DEF EndsConversation
  <2>4. ~(c \in S /\ relayExec[c].conversation = NoCall)
    BY <1>8, <2>1 DEF RelayInv, OpenedFirst, Finished
  <2>5. hub'[c] = hub[c]
    BY <2>1, <2>3, <2>4 DEF HubAfter
  <2>6. c \in LiveConversations'
    BY <1>5, <2>1, <2>2, <2>5 DEF LiveConversations
  <2> QED
    BY <1>1, <1>8, <2>1, <2>6
<1>17. KeptIsLive'
  <2> SUFFICES ASSUME RelayOpen, m.conn # 0, NEW a \in Agents, agentSessions'[a] # NoCall
               PROVE  agentSessions'[a] \in LiveConversations'
    BY <1>5 DEF KeptIsLive, RelayOpen
  <2> DEFINE c == agentSessions[a]
  <2>1. /\ agentSessions'[a] = c /\ m.conn = relayTransport.conn /\ c \in LiveConversations
        /\ AgentOf[c] = a /\ \A e \in S : AgentOf[e] # a
    BY <1>10 DEF RelayInv, KeptIsLive, OpenedFirst
  <2>2. c \notin EndsConversation(S) /\ c \notin S
    BY <1>1, <2>1 DEF EndsConversation, RelayInv, OpenedFirst
  <2>3. hub'[c] = hub[c]
    BY <2>1, <2>2 DEF HubAfter, LiveConversations
  <2> QED
    BY <1>5, <2>1, <2>3 DEF LiveConversations
<1>18. KeptUnderThisIdentity'
  <2> SUFFICES ASSUME NEW a \in Agents, agentSessions'[a] # NoCall
               PROVE  \E e \in RelayExecs : /\ relayExec'[e].pc = "returned"
                                            /\ relayExec'[e].conversation = agentSessions'[a]
                                            /\ relayExec'[e].generation = Generation(m)
    BY <1>5 DEF KeptUnderThisIdentity, Generation
  <2>1. agentSessions'[a] = agentSessions[a] /\ Generation(m) = Generation(relayTransport)
    BY <1>10
  <2>2. PICK e \in RelayExecs : /\ relayExec[e].pc = "returned"
                                /\ relayExec[e].conversation = agentSessions[a]
                                /\ relayExec[e].generation = Generation(relayTransport)
    BY <2>1 DEF RelayInv, KeptUnderThisIdentity
  <2>3. relayExec'[e] = relayExec[e]
    BY <1>8, <2>2
  <2> QED
    BY <2>1, <2>2, <2>3
<1>19. NoLeakedConversation'
  BY <1>4, <1>5, <1>7 DEF NoLeakedConversation
<1> QED
  BY <1>11, <1>12, <1>13, <1>14, <1>15, <1>16, <1>17, <1>18, <1>19 DEF RelayInv

--------------------------------------------------------------------------------
\* What starting a command does to the connection: it stays, or is marked for
\* replacement, unless nobody uses it.
LEMMA EnsureKeepsUsers ==
    ASSUME RelayInv, RelayOpen, NEW t \in RelayTokens \cup {NoToken}, NEW n, n = EnsureTransport(relayTransport, t)
    PROVE  /\ n \in Transports(RelayTokens) /\ n.active = relayTransport.active /\ n.conn # 0
           /\ \/ n = relayTransport
              \/ /\ n.conn = relayTransport.conn /\ n.created = relayTransport.created /\ n.disposals = relayTransport.disposals
                 /\ n.stale
              \/ /\ RelayRunning = {}
                 /\ n.conn = relayTransport.created + 1 /\ n.created = relayTransport.created + 1
                 /\ Generation(n) # Generation(relayTransport)
<1>1. /\ relayTransport \in Transports(RelayTokens) /\ relayTransport.active \in Nat
      /\ relayTransport.disposals \in Nat /\ relayTransport.identityChanges \in Nat
      /\ IsFiniteSet(RelayRunning) /\ relayTransport.active = Cardinality(RelayRunning)
      /\ relayTransport.active > 0 => relayTransport.conn # 0
  BY Facts
<1>2. /\ n \in Transports(RelayTokens) /\ n.active = relayTransport.active /\ n.conn # 0
      /\ n.identityChanges - relayTransport.identityChanges \in Nat
      /\ relayTransport.active > 0 => n.disposals = relayTransport.disposals
  BY <1>1, EnsureEffect
<1>3. \/ n = relayTransport
      \/ /\ n.conn = relayTransport.conn /\ n.created = relayTransport.created /\ n.disposals = relayTransport.disposals
         /\ n.stale
      \/ /\ n.conn = relayTransport.created + 1 /\ n.created = relayTransport.created + 1
         /\ n.disposals = relayTransport.disposals + 1
  BY <1>1, EnsureCases
<1>4. ASSUME n.disposals = relayTransport.disposals + 1
      PROVE  RelayRunning = {} /\ Generation(n) # Generation(relayTransport)
  <2>1. relayTransport.active = 0
    BY <1>1, <1>2, <1>4
  <2>2. RelayRunning = {}
    BY <1>1, <2>1, FS_EmptySet
  <2>3. n.identityChanges \in Nat
    BY <1>2 DEF Transports
  <2> QED
    BY <1>1, <1>2, <1>4, <2>2, <2>3 DEF Generation
<1> QED
  BY <1>2, <1>3, <1>4

\* A command that begins runs on what was kept for its agent, if the connection stays.
LEMMA BeginKeeps == ASSUME RelayInv, NEW e \in RelayExecs, Begin(e) PROVE RelayInv'
<1> DEFINE n == EnsureTransport(relayTransport, relayExec[e].token)
<1> DEFINE sessions == Forgotten(n, agentSessions)
<1>1. /\ RelayOpen /\ relayExec[e].pc = "queued" /\ MyTurn(e) /\ e \notin RelayRunning
      /\ relayTransport' = Acquire(n) /\ agentSessions' = sessions
      /\ relayExec' = [relayExec EXCEPT ![e].pc = "running", ![e].generation = Generation(n),
                                        ![e].conversation = sessions[AgentOf[e]]]
      /\ last' = last /\ relayClosed' = relayClosed /\ hub' = hub
  BY DEF Begin, RelayRunning
<1>2. /\ relayTransport \in Transports(RelayTokens) /\ relayTransport.conn \in Nat /\ relayTransport.created \in Nat
      /\ RelayRunning \subseteq RelayExecs /\ IsFiniteSet(RelayRunning) /\ Cardinality(RelayRunning) \in Nat
      /\ relayTransport.active = Cardinality(RelayRunning) /\ AgentOf[e] \in Agents
      /\ relayTransport.conn <= relayTransport.created
  BY <1>1, Facts DEF RelayInv, RelayCountExact
<1>3. relayExec[e].token \in RelayTokens \cup {NoToken}
  BY DEF RelayInv, RelayTypeOK, RelayCalls
<1>4. /\ n \in Transports(RelayTokens) /\ n.active = relayTransport.active /\ n.conn # 0
      /\ \/ n = relayTransport
         \/ /\ n.conn = relayTransport.conn /\ n.created = relayTransport.created /\ n.disposals = relayTransport.disposals
            /\ n.stale
         \/ /\ RelayRunning = {}
            /\ n.conn = relayTransport.created + 1 /\ n.created = relayTransport.created + 1
            /\ Generation(n) # Generation(relayTransport)
  BY <1>1, <1>3, EnsureKeepsUsers
<1> HIDE DEF n
<1>5. /\ relayTransport' \in Transports(RelayTokens) /\ relayTransport'.active = relayTransport.active + 1 /\ relayTransport'.conn = n.conn
      /\ relayTransport'.stale = n.stale /\ relayTransport'.created = n.created /\ Generation(relayTransport') = Generation(n)
      /\ Generation(n) \in Nat
  <2>1. Generation(n) \in Nat
    BY <1>4 DEF Transports, Generation
  <2> QED
    BY <1>1, <1>4, <2>1, AcquireEffect DEF Generation
<1>6. /\ sessions \in [Agents -> RelayExecs \cup {NoCall}]
      /\ \A a \in Agents : sessions[a] # NoCall =>
            /\ sessions[a] = agentSessions[a] /\ Generation(n) = Generation(relayTransport)
            /\ n.conn = relayTransport.conn
      /\ Generation(n) = Generation(relayTransport) => sessions = agentSessions
  BY <1>4 DEF Forgotten, NoSessions, RelayInv, RelayTypeOK
<1> HIDE DEF sessions
<1>7. /\ relayExec'[e].pc = "running" /\ relayExec'[e].generation = Generation(n)
      /\ relayExec'[e].conversation = sessions[AgentOf[e]]
      /\ relayExec'[e].previous = relayExec[e].previous
      /\ \A f \in RelayExecs \ {e} : relayExec'[f] = relayExec[f]
  BY <1>1 DEF RelayInv, RelayTypeOK, RelayCalls
<1>8. RelayRunning' = RelayRunning \cup {e}
  BY <1>1, <1>2, <1>7 DEF RelayRunning
<1>9. ASSUME NEW f \in RelayRunning PROVE f # e /\ relayExec'[f] = relayExec[f] /\ relayTransport'.conn = relayTransport.conn
  BY <1>1, <1>2, <1>4, <1>5, <1>7, <1>9
<1>10. RelayTypeOK'
  <2>1. [relayExec[e] EXCEPT !.pc = "running", !.generation = Generation(n),
                             !.conversation = sessions[AgentOf[e]]] \in RelayCalls
    BY <1>2, <1>5, <1>6 DEF RelayInv, RelayTypeOK, RelayCalls
  <2>2. relayExec' \in [RelayExecs -> RelayCalls]
    BY <1>1, <2>1 DEF RelayInv, RelayTypeOK
  <2> QED
    BY <1>1, <1>5, <1>6, <2>2 DEF RelayInv, RelayTypeOK
<1>11. InOrder'
  <2>1. \A f \in RelayExecs : relayExec'[f].previous = relayExec[f].previous
    BY <1>7
  <2>2. \A f \in RelayExecs : \/ relayExec'[f].pc = relayExec[f].pc
                              \/ /\ relayExec[f].pc = "queued" /\ MyTurn(f)
                                 /\ relayExec'[f].pc \in {"running"} \cup Finished
    BY <1>1, <1>7
  <2> QED
    BY <1>1, <2>1, <2>2, TurnsKeepOrder DEF RelayInv
<1>12. OneAtATime'
  BY <1>10, <1>11, TakeTurns, PTL
<1>13. RelayCountExact'
  <2>1. Cardinality(RelayRunning \cup {e}) = Cardinality(RelayRunning) + 1
    BY <1>1, <1>2, FS_AddElement
  <2>2. relayTransport'.conn <= relayTransport'.created
    BY <1>2, <1>4, <1>5
  <2> QED
    BY <1>2, <1>4, <1>5, <1>8, <2>1, <2>2 DEF RelayCountExact
<1>14. OpenedFirst'
  <2>1. hub[e].state = "none"
    BY <1>1, RelayManagerAssumption DEF RelayInv, OpenedFirst, Finished
  <2>2. ASSUME NEW c \in RelayExecs PROVE hub[c].conn <= relayTransport'.created
    <3>1. hub[c].conn <= relayTransport.created /\ hub[c].conn \in Nat
      BY DEF RelayInv, OpenedFirst, RelayTypeOK, Conversations
    <3> QED
      BY <1>2, <1>4, <1>5, <3>1
  <2>3. ASSUME NEW c \in RelayExecs, hub[c].state # "none"
        PROVE  relayExec'[c].pc \in Finished \/ relayExec'[c].conversation = c
    BY <1>7, <2>1, <2>3 DEF RelayInv, OpenedFirst
  <2>4. ASSUME NEW f \in RelayExecs, relayExec'[f].conversation # NoCall
        PROVE  /\ AgentOf[relayExec'[f].conversation] = AgentOf[f]
               /\ hub[relayExec'[f].conversation].state # "none"
    BY <1>2, <1>6, <1>7, <2>4 DEF RelayInv, OpenedFirst
  <2>5. ASSUME NEW a \in Agents, sessions[a] # NoCall
        PROVE  AgentOf[sessions[a]] = a /\ hub[sessions[a]].state # "none"
    BY <1>6, <2>5 DEF RelayInv, OpenedFirst
  <2>6. ASSUME NEW f \in RelayExecs, relayExec'[f].pc \in {"idle", "queued"}
        PROVE  relayExec'[f].conversation = NoCall
    BY <1>7, <2>6 DEF RelayInv, OpenedFirst
  <2>7. ASSUME NEW c \in RelayExecs, hub[c].state = "open" PROVE hub[c].conn # 0
    BY <2>7 DEF RelayInv, OpenedFirst
  <2> QED
    BY <1>1, <2>2, <2>3, <2>4, <2>5, <2>6, <2>7 DEF OpenedFirst
<1>15. RunsOnKept'
  <2>1. ASSUME NEW f \in RelayRunning
        PROVE  /\ sessions[AgentOf[f]] \in {NoCall, relayExec'[f].conversation}
               /\ relayExec'[f].generation = Generation(relayTransport') \/ relayTransport'.stale
    <3>1. AgentOf[f] \in Agents /\ agentSessions[AgentOf[f]] \in {NoCall, relayExec[f].conversation}
          /\ (relayExec[f].generation = Generation(relayTransport) \/ relayTransport.stale)
      BY <1>1, <1>2, RelayManagerAssumption DEF RelayInv, RunsOnKept
    <3> QED
      BY <1>4, <1>5, <1>6, <1>9, <3>1
  <2> QED
    BY <1>1, <1>5, <1>7, <1>8, <2>1 DEF RunsOnKept, Generation
<1>16. OwnConversation'
  <2>1. ASSUME NEW f \in RelayRunning \cup {e}, relayExec'[f].conversation # NoCall
        PROVE  relayExec'[f].conversation \in LiveConversations'
    <3>1. CASE f = e
      <4>1. /\ agentSessions[AgentOf[e]] = relayExec'[e].conversation
            /\ relayTransport'.conn = relayTransport.conn /\ relayTransport.conn # 0
        BY <1>2, <1>4, <1>5, <1>6, <1>7, <2>1, <3>1
      <4>2. agentSessions[AgentOf[e]] \in LiveConversations
        BY <1>1, <1>2, <2>1, <3>1, <4>1 DEF RelayInv, KeptIsLive
      <4> QED
        BY <1>1, <3>1, <4>1, <4>2 DEF LiveConversations
    <3>2. CASE f \in RelayRunning
      <4>1. relayExec[f].conversation \in LiveConversations
        BY <1>1, <1>9, <2>1, <3>2 DEF RelayInv, OwnConversation
      <4> QED
        BY <1>1, <1>9, <3>2, <4>1 DEF LiveConversations
    <3> QED
      BY <3>1, <3>2
  <2>2. ASSUME NEW f \in RelayRunning', NEW g \in RelayRunning', relayExec'[f].conversation # NoCall,
               relayExec'[f].conversation = relayExec'[g].conversation
        PROVE  f = g
    <3>1. f \in RelayExecs /\ g \in RelayExecs
      BY <1>2, <1>8
    <3>2. AgentOf[f] = AgentOf[g]
      BY <1>14, <2>2, <3>1 DEF OpenedFirst
    <3> QED
      BY <1>12, <2>2, <3>2 DEF OneAtATime
  <2> QED
    BY <1>8, <2>1, <2>2 DEF OwnConversation
<1>17. KeptIsLive'
  <2> SUFFICES ASSUME NEW a \in Agents, sessions[a] # NoCall
               PROVE  sessions[a] \in LiveConversations'
    BY <1>1 DEF KeptIsLive
  <2>1. agentSessions[a] = sessions[a] /\ relayTransport'.conn = relayTransport.conn /\ relayTransport.conn # 0
    BY <1>4, <1>5, <1>6
  <2>2. agentSessions[a] \in LiveConversations
    BY <1>1, <2>1 DEF RelayInv, KeptIsLive
  <2> QED
    BY <1>1, <2>1, <2>2 DEF LiveConversations
<1>18. KeptUnderThisIdentity'
  <2> SUFFICES ASSUME NEW a \in Agents, agentSessions'[a] # NoCall
               PROVE  \E f \in RelayExecs : /\ relayExec'[f].pc = "returned"
                                            /\ relayExec'[f].conversation = agentSessions'[a]
                                            /\ relayExec'[f].generation = Generation(n)
    <3>1. Generation(relayTransport)' = Generation(n)
      BY <1>5 DEF Generation
    <3> QED
      BY <3>1 DEF KeptUnderThisIdentity
  <2>1. agentSessions[a] = agentSessions'[a] /\ Generation(n) = Generation(relayTransport)
    BY <1>1, <1>6
  <2>2. PICK f \in RelayExecs : /\ relayExec[f].pc = "returned"
                                /\ relayExec[f].conversation = agentSessions[a]
                                /\ relayExec[f].generation = Generation(relayTransport)
    BY <2>1 DEF RelayInv, KeptUnderThisIdentity
  <2> QED
    BY <1>1, <1>7, <2>1, <2>2
<1>19. NoLeakedConversation'
  <2> SUFFICES ASSUME ~relayTransport'.stale, NEW c \in LiveConversations'
               PROVE  \/ \E a \in Agents : sessions[a] = c
                      \/ \E f \in RelayRunning' : relayExec'[f].conversation = c
    BY <1>1 DEF NoLeakedConversation
  <2>1. c \in RelayExecs /\ hub[c].state = "open" /\ hub[c].conn = relayTransport'.conn
    BY <1>1 DEF LiveConversations
  <2>2. hub[c].conn <= relayTransport.created /\ hub[c].conn \in Nat
    BY <2>1 DEF RelayInv, OpenedFirst, RelayTypeOK, Conversations
  <2>3. n = relayTransport
    BY <1>2, <1>4, <1>5, <2>1, <2>2
  <2>4. c \in LiveConversations /\ ~relayTransport.stale
    BY <1>5, <2>1, <2>3 DEF LiveConversations
  <2> QED
    BY <1>1, <1>6, <1>8, <1>9, <2>3, <2>4 DEF RelayInv, NoLeakedConversation
<1> QED
  BY <1>10, <1>11, <1>13, <1>14, <1>15, <1>16, <1>17, <1>18, <1>19 DEF RelayInv

\* A call that finds the manager closed fails.
LEMMA RefusedClosedKeeps == ASSUME RelayInv, NEW e \in RelayExecs, RefusedClosed(e) PROVE RelayInv'
<1>1. /\ relayClosed /\ relayExec[e].pc = "queued" /\ MyTurn(e)
      /\ relayExec' = [relayExec EXCEPT ![e].pc = "failed"]
      /\ relayTransport' = relayTransport /\ agentSessions' = agentSessions /\ last' = last /\ relayClosed' = relayClosed
      /\ hub' = hub
  BY DEF RefusedClosed
<1>2. /\ relayExec'[e].pc = "failed" /\ relayExec'[e].previous = relayExec[e].previous
      /\ relayExec'[e].conversation = relayExec[e].conversation
      /\ \A f \in RelayExecs \ {e} : relayExec'[f] = relayExec[f]
  BY <1>1 DEF RelayInv, RelayTypeOK, RelayCalls
<1>3. RelayTypeOK'
  <2>1. [relayExec[e] EXCEPT !.pc = "failed"] \in RelayCalls
    BY DEF RelayInv, RelayTypeOK, RelayCalls, Finished
  <2> QED
    BY <1>1, <2>1 DEF RelayInv, RelayTypeOK
<1>4. InOrder'
  BY <1>1, <1>2, TurnsKeepOrder DEF RelayInv, Finished
<1>5. RelayCountExact' /\ RunsOnKept' /\ OwnConversation' /\ KeptIsLive' /\ NoLeakedConversation'
  BY <1>1 DEF RelayCountExact, RunsOnKept, OwnConversation, KeptIsLive, NoLeakedConversation, RelayOpen,
              RelayInv
<1>6. OpenedFirst'
  <2>1. \A f \in RelayExecs : /\ relayExec'[f].conversation = relayExec[f].conversation
                              /\ relayExec'[f].pc \in Finished \/ relayExec'[f].pc = relayExec[f].pc
    BY <1>2 DEF Finished
  <2> QED
    BY <1>1, <2>1 DEF RelayInv, OpenedFirst, Finished
<1>7. KeptUnderThisIdentity'
  BY <1>1, <1>2 DEF RelayInv, KeptUnderThisIdentity, Generation
<1> QED
  BY <1>3, <1>4, <1>5, <1>6, <1>7 DEF RelayInv

\* The conversation the hub opens for a command is one nobody knew of.
LEMMA ConversationStartsKeeps ==
    ASSUME RelayInv, NEW e \in RelayExecs, ConversationStarts(e)
    PROVE  RelayInv'
<1>1. /\ RelayOpen /\ e \in RelayRunning /\ relayExec[e].pc = "running" /\ relayExec[e].conversation = NoCall
      /\ relayExec' = [relayExec EXCEPT ![e].conversation = e]
      /\ hub' = [hub EXCEPT ![e] = [state |-> "open", conn |-> relayTransport.conn]]
      /\ relayTransport' = relayTransport /\ agentSessions' = agentSessions /\ last' = last /\ relayClosed' = relayClosed
  BY DEF ConversationStarts, RelayRunning
<1>2. /\ relayTransport.conn \in Nat /\ RelayRunning \subseteq RelayExecs /\ AgentOf[e] \in Agents
      /\ relayTransport.conn # 0 /\ relayTransport.conn <= relayTransport.created
  <2>1. IsFiniteSet(RelayRunning) /\ Cardinality(RelayRunning) # 0
    BY <1>1, Facts, FS_EmptySet
  <2> QED
    BY <1>1, <2>1, Facts DEF RelayInv, RelayCountExact
<1>3. hub[e].state = "none" /\ NoCall # e
  BY <1>1, RelayManagerAssumption DEF RelayInv, OpenedFirst, Finished
<1>4. /\ hub'[e].state = "open" /\ hub'[e].conn = relayTransport.conn
      /\ \A c \in RelayExecs \ {e} : hub'[c] = hub[c]
  BY <1>1 DEF RelayInv, RelayTypeOK
<1>5. /\ relayExec'[e].conversation = e
      /\ \A f \in RelayExecs : /\ relayExec'[f].previous = relayExec[f].previous /\ relayExec'[f].pc = relayExec[f].pc
                                /\ relayExec'[f].generation = relayExec[f].generation
      /\ \A f \in RelayExecs \ {e} : relayExec'[f] = relayExec[f]
  BY <1>1 DEF RelayInv, RelayTypeOK, RelayCalls
<1>6. RelayRunning' = RelayRunning
  BY <1>5 DEF RelayRunning
<1>7. \A f \in RelayExecs : relayExec[f].conversation # NoCall => relayExec[f].conversation # e
  BY <1>3 DEF RelayInv, OpenedFirst
<1>8. \A a \in Agents : agentSessions[a] # NoCall => agentSessions[a] # e
  BY <1>3 DEF RelayInv, OpenedFirst
<1>9. RelayTypeOK'
  <2>1. [relayExec[e] EXCEPT !.conversation = e] \in RelayCalls
    BY DEF RelayInv, RelayTypeOK, RelayCalls
  <2>2. [state |-> "open", conn |-> relayTransport.conn] \in Conversations
    BY <1>2 DEF Conversations
  <2> QED
    BY <1>1, <2>1, <2>2 DEF RelayInv, RelayTypeOK
<1>10. InOrder'
  BY <1>1, <1>5, TurnsKeepOrder DEF RelayInv
<1>11. RelayCountExact'
  BY <1>1, <1>6 DEF RelayInv, RelayCountExact, RelayOpen
<1>12. OpenedFirst'
  <2>1. ASSUME NEW c \in RelayExecs
        PROVE  /\ hub'[c].conn <= relayTransport.created
               /\ hub'[c].state = "open" => hub'[c].conn # 0
               /\ hub'[c].state # "none" => relayExec[c].pc \in Finished \/ relayExec'[c].conversation = c
    <3>1. CASE c = e
      BY <1>2, <1>4, <1>5, <3>1
    <3>2. CASE c # e
      BY <1>4, <1>5, <3>2 DEF RelayInv, OpenedFirst
    <3> QED
      BY <3>1, <3>2
  <2>2. ASSUME NEW f \in RelayExecs, relayExec'[f].conversation # NoCall
        PROVE  /\ AgentOf[relayExec'[f].conversation] = AgentOf[f]
               /\ hub'[relayExec'[f].conversation].state # "none"
    <3>1. CASE f = e
      BY <1>4, <1>5, <3>1
    <3>2. CASE f # e
      <4>1. relayExec[f].conversation \in RelayExecs \ {e}
        BY <1>5, <1>7, <2>2, <3>2 DEF RelayInv, RelayTypeOK, RelayCalls
      <4> QED
        BY <1>4, <1>5, <2>2, <3>2, <4>1 DEF RelayInv, OpenedFirst
    <3> QED
      BY <3>1, <3>2
  <2>3. ASSUME NEW a \in Agents, agentSessions[a] # NoCall
        PROVE  AgentOf[agentSessions[a]] = a /\ hub'[agentSessions[a]].state # "none"
    <3>1. agentSessions[a] \in RelayExecs \ {e}
      BY <1>8, <2>3 DEF RelayInv, RelayTypeOK
    <3> QED
      BY <1>4, <2>3, <3>1 DEF RelayInv, OpenedFirst
  <2>4. ASSUME NEW f \in RelayExecs, relayExec[f].pc \in {"idle", "queued"}
        PROVE  relayExec'[f].conversation = NoCall
    BY <1>1, <1>5, <2>4 DEF RelayInv, OpenedFirst
  <2> QED
    BY <1>1, <1>5, <2>1, <2>2, <2>3, <2>4 DEF OpenedFirst
<1>13. RunsOnKept'
  <2> SUFFICES ASSUME NEW f \in RelayRunning
               PROVE  /\ agentSessions[AgentOf[f]] \in {NoCall, relayExec'[f].conversation}
                      /\ relayExec[f].generation = Generation(relayTransport) \/ relayTransport.stale
    BY <1>1, <1>2, <1>5, <1>6 DEF RunsOnKept, Generation
  <2>1. /\ agentSessions[AgentOf[f]] \in {NoCall, relayExec[f].conversation}
        /\ relayExec[f].generation = Generation(relayTransport) \/ relayTransport.stale
    BY <1>1 DEF RelayInv, RunsOnKept
  <2> QED
    BY <1>1, <1>2, <1>5, <2>1
<1>14. OwnConversation'
  <2> SUFFICES ASSUME NEW f \in RelayRunning, relayExec'[f].conversation # NoCall
               PROVE  /\ relayExec'[f].conversation \in LiveConversations'
                      /\ \A g \in RelayRunning \ {f} : relayExec'[g].conversation # relayExec'[f].conversation
    BY <1>6 DEF OwnConversation
  <2>1. CASE f = e
    BY <1>1, <1>2, <1>3, <1>4, <1>5, <1>7, <2>1 DEF LiveConversations
  <2>2. CASE f # e
    <3>1. /\ relayExec[f].conversation \in LiveConversations
          /\ \A g \in RelayRunning \ {f} : relayExec[g].conversation # relayExec[f].conversation
          /\ relayExec[f].conversation # e /\ relayExec'[f] = relayExec[f]
      BY <1>1, <1>2, <1>5, <1>7, <2>2 DEF RelayInv, OwnConversation
    <3>2. relayExec[f].conversation \in LiveConversations'
      BY <1>1, <1>4, <3>1 DEF LiveConversations
    <3>3. ASSUME NEW g \in RelayRunning \ {f} PROVE relayExec'[g].conversation # relayExec[f].conversation
      BY <1>2, <1>5, <3>1
    <3> QED
      BY <3>1, <3>2, <3>3
  <2> QED
    BY <2>1, <2>2
<1>15. KeptIsLive'
  <2> SUFFICES ASSUME NEW a \in Agents, agentSessions[a] # NoCall
               PROVE  agentSessions[a] \in LiveConversations'
    BY <1>1 DEF KeptIsLive
  <2>1. agentSessions[a] \in LiveConversations /\ agentSessions[a] # e
    BY <1>1, <1>2, <1>8 DEF RelayInv, KeptIsLive
  <2> QED
    BY <1>1, <1>4, <2>1 DEF LiveConversations
<1>16. KeptUnderThisIdentity'
  <2> SUFFICES ASSUME NEW a \in Agents, agentSessions[a] # NoCall
               PROVE  \E f \in RelayExecs : /\ relayExec'[f].pc = "returned"
                                            /\ relayExec'[f].conversation = agentSessions[a]
                                            /\ relayExec'[f].generation = Generation(relayTransport)
    BY <1>1 DEF KeptUnderThisIdentity, Generation
  <2>1. PICK f \in RelayExecs : /\ relayExec[f].pc = "returned"
                                /\ relayExec[f].conversation = agentSessions[a]
                                /\ relayExec[f].generation = Generation(relayTransport)
    BY DEF RelayInv, KeptUnderThisIdentity
  <2> QED
    BY <1>1, <1>5, <2>1
<1>17. NoLeakedConversation'
  <2> SUFFICES ASSUME ~relayTransport.stale, NEW c \in LiveConversations'
               PROVE  \/ \E a \in Agents : agentSessions[a] = c
                      \/ \E f \in RelayRunning : relayExec'[f].conversation = c
    BY <1>1, <1>6 DEF NoLeakedConversation
  <2>1. CASE c = e
    BY <1>1, <1>5, <2>1
  <2>2. CASE c # e
    <3>1. c \in LiveConversations
      BY <1>1, <1>4, <2>2 DEF LiveConversations
    <3>2. CASE \E a \in Agents : agentSessions[a] = c
      BY <3>2
    <3>3. ASSUME NEW f \in RelayRunning, relayExec[f].conversation = c
          PROVE  relayExec'[f].conversation = c
      <4>1. c # NoCall
        BY <3>1, RelayManagerAssumption DEF LiveConversations
      <4> QED
        BY <1>1, <1>2, <1>5, <3>3, <4>1
    <3> QED
      BY <1>1, <3>1, <3>2, <3>3 DEF RelayInv, NoLeakedConversation
  <2> QED
    BY <2>1, <2>2
<1> QED
  BY <1>9, <1>10, <1>11, <1>12, <1>13, <1>14, <1>15, <1>16, <1>17 DEF RelayInv

\* A command that returns keeps its conversation for the agent's next one, if nothing made
\* the manager forget its conversations meanwhile.
LEMMA ReturnsKeeps == ASSUME RelayInv, NEW e \in RelayExecs, Returns(e) PROVE RelayInv'
<1> DEFINE m == Release(relayTransport)
<1> DEFINE own == relayExec[e].conversation
<1>1. /\ RelayOpen /\ e \in RelayRunning /\ relayExec[e].pc = "running" /\ own # NoCall
      /\ relayTransport' = m /\ agentSessions' = Forgotten(m, Remember(e))
      /\ relayExec' = [relayExec EXCEPT ![e].pc = "returned"]
      /\ last' = last /\ relayClosed' = relayClosed /\ hub' = hub
  BY DEF Returns, RelayRunning
<1>2. /\ relayTransport \in Transports(RelayTokens) /\ relayTransport.conn \in Nat /\ relayTransport.active \in Nat
      /\ relayTransport.disposals \in Nat /\ relayTransport.identityChanges \in Nat /\ relayTransport.conn # 0
      /\ RelayRunning \subseteq RelayExecs /\ IsFiniteSet(RelayRunning) /\ Cardinality(RelayRunning) \in Nat
      /\ relayTransport.active = Cardinality(RelayRunning) /\ AgentOf[e] \in Agents
      /\ relayTransport.conn <= relayTransport.created /\ relayTransport.created \in Nat /\ OneAtATime
  <2>1. IsFiniteSet(RelayRunning) /\ Cardinality(RelayRunning) # 0
    BY <1>1, Facts, FS_EmptySet
  <2> QED
    BY <1>1, <2>1, Facts DEF RelayInv, RelayCountExact
<1>3. /\ m \in Transports(RelayTokens) /\ m.created = relayTransport.created /\ m.stale = relayTransport.stale
      /\ m.active = IF relayTransport.active > 0 THEN relayTransport.active - 1 ELSE 0
      /\ m.identityChanges = relayTransport.identityChanges
      /\ \/ m.conn = relayTransport.conn /\ m.disposals = relayTransport.disposals
         \/ relayTransport.active <= 1 /\ m.conn = 0 /\ m.disposals = relayTransport.disposals + 1
  BY <1>2, ReleaseEffect
<1> HIDE DEF m
<1>4. ASSUME NEW f \in RelayRunning \ {e} PROVE m.conn = relayTransport.conn /\ m.active > 0
  <2>1. Cardinality({e}) = 1 /\ {e} \in SUBSET RelayRunning
    BY <1>1, FS_Singleton
  <2>2. ReleasedBy(relayTransport, Cardinality({e}), m)
    BY <1>2, <1>3, <2>1 DEF ReleasedBy
  <2> QED
    BY <1>1, <2>1, <2>2, LeavesToOthers
<1>5. Generation(m) = Generation(relayTransport) <=> m.conn = relayTransport.conn
  BY <1>2, <1>3 DEF Generation, Transports
<1>6. /\ own \in LiveConversations /\ own \in RelayExecs
      /\ AgentOf[own] = AgentOf[e] /\ hub[own].state = "open"
      /\ agentSessions[AgentOf[e]] \in {NoCall, own}
      /\ relayExec[e].generation = Generation(relayTransport) \/ relayTransport.stale
  BY <1>1 DEF RelayInv, OwnConversation, LiveConversations, OpenedFirst, RunsOnKept
<1>7. /\ agentSessions' \in [Agents -> RelayExecs \cup {NoCall}]
      /\ m.conn # relayTransport.conn => \A a \in Agents : agentSessions'[a] = NoCall
      /\ \A a \in Agents \ {AgentOf[e]} : agentSessions'[a] \in {NoCall, agentSessions[a]}
      /\ m.conn = relayTransport.conn =>
            /\ \A a \in Agents \ {AgentOf[e]} : agentSessions'[a] = agentSessions[a]
            /\ agentSessions'[AgentOf[e]] =
                  IF relayExec[e].generation = Generation(relayTransport) THEN own ELSE agentSessions[AgentOf[e]]
  <2>1. /\ Remember(e) \in [Agents -> RelayExecs \cup {NoCall}]
        /\ \A a \in Agents \ {AgentOf[e]} : Remember(e)[a] = agentSessions[a]
        /\ Remember(e)[AgentOf[e]] =
              IF relayExec[e].generation = Generation(relayTransport) THEN own ELSE agentSessions[AgentOf[e]]
    BY <1>2, <1>6 DEF Remember, RelayInv, RelayTypeOK
  <2>2. agentSessions' = IF m.conn = relayTransport.conn THEN Remember(e) ELSE NoSessions
    BY <1>1, <1>5 DEF Forgotten
  <2>3. \A a \in Agents : NoSessions[a] = NoCall
    BY DEF NoSessions
  <2>4. NoSessions \in [Agents -> RelayExecs \cup {NoCall}]
    BY DEF NoSessions
  <2>5. CASE m.conn = relayTransport.conn
    BY <2>1, <2>2, <2>5
  <2>6. CASE m.conn # relayTransport.conn
    BY <2>2, <2>3, <2>4, <2>6
  <2> QED
    BY <2>5, <2>6
<1>8. /\ relayExec'[e].pc = "returned" /\ relayExec'[e].conversation = own
      /\ relayExec'[e].generation = relayExec[e].generation /\ relayExec'[e].previous = relayExec[e].previous
      /\ \A f \in RelayExecs \ {e} : relayExec'[f] = relayExec[f]
  BY <1>1 DEF RelayInv, RelayTypeOK, RelayCalls
<1>9. RelayRunning' = RelayRunning \ {e}
  BY <1>2, <1>8 DEF RelayRunning
<1>10. ASSUME NEW a \in Agents, agentSessions'[a] # NoCall
       PROVE  /\ m.conn = relayTransport.conn /\ agentSessions'[a] \in LiveConversations
              /\ AgentOf[agentSessions'[a]] = a
  <2>1. m.conn = relayTransport.conn
    BY <1>7, <1>10
  <2>2. CASE agentSessions'[a] = agentSessions[a]
    <3>1. agentSessions[a] \in LiveConversations /\ AgentOf[agentSessions[a]] = a
      BY <1>1, <1>2, <1>10, <2>2 DEF RelayInv, KeptIsLive, OpenedFirst
    <3> QED
      BY <2>1, <2>2, <3>1
  <2>3. CASE a = AgentOf[e] /\ agentSessions'[a] = own
    BY <1>6, <2>1, <2>3
  <2> QED
    BY <1>7, <2>1, <2>2, <2>3
<1>11. RelayTypeOK'
  <2>1. [relayExec[e] EXCEPT !.pc = "returned"] \in RelayCalls
    BY DEF RelayInv, RelayTypeOK, RelayCalls, Finished
  <2> QED
    BY <1>1, <1>3, <1>7, <2>1 DEF RelayInv, RelayTypeOK
<1>12. InOrder'
  BY <1>1, <1>8, TurnsKeepOrder DEF RelayInv, Finished
<1>13. RelayCountExact'
  <2>1. Cardinality(RelayRunning \ {e}) = Cardinality(RelayRunning) - 1
    BY <1>1, <1>2, FS_RemoveElement
  <2>2. Cardinality(RelayRunning \ {e}) = m.active
    <3>1. relayTransport.active # 0
      BY <1>1, <1>2, FS_EmptySet
    <3> QED
      BY <1>2, <1>3, <2>1, <3>1
  <2>3. m.conn <= m.created /\ (m.active > 0 => m.conn # 0)
    BY <1>2, <1>3
  <2> QED
    BY <1>1, <1>9, <2>2, <2>3 DEF RelayCountExact
<1>14. OpenedFirst'
  <2>1. \A f \in RelayExecs : /\ relayExec'[f].conversation = relayExec[f].conversation
                              /\ relayExec'[f].pc \in Finished \/ relayExec'[f].pc = relayExec[f].pc
    BY <1>8 DEF Finished
  <2>2. \A f \in RelayExecs : relayExec'[f].pc \in {"idle", "queued"} => relayExec[f].pc \in {"idle", "queued"}
    BY <1>8
  <2>3. ASSUME NEW c \in RelayExecs
        PROVE  /\ hub[c].conn <= m.created
               /\ hub[c].state = "open" => hub[c].conn # 0
               /\ hub[c].state # "none" =>
                     relayExec'[c].pc \in Finished \/ relayExec'[c].conversation = c
    BY <1>3, <2>1 DEF RelayInv, OpenedFirst
  <2>4. ASSUME NEW a \in Agents, agentSessions'[a] # NoCall
        PROVE  AgentOf[agentSessions'[a]] = a /\ hub[agentSessions'[a]].state # "none"
    BY <1>10, <2>4 DEF LiveConversations
  <2>5. ASSUME NEW f \in RelayExecs, relayExec[f].conversation # NoCall
        PROVE  /\ AgentOf[relayExec[f].conversation] = AgentOf[f]
               /\ hub[relayExec[f].conversation].state # "none"
    BY <2>5 DEF RelayInv, OpenedFirst
  <2>6. ASSUME NEW f \in RelayExecs, relayExec'[f].pc \in {"idle", "queued"}
        PROVE  relayExec'[f].conversation = NoCall
    BY <2>1, <2>2, <2>6 DEF RelayInv, OpenedFirst
  <2> QED
    BY <1>1, <2>1, <2>3, <2>4, <2>5, <2>6 DEF OpenedFirst
<1>15. RunsOnKept'
  <2> SUFFICES ASSUME NEW f \in RelayRunning \ {e}
               PROVE  /\ agentSessions'[AgentOf[f]] \in {NoCall, relayExec'[f].conversation}
                      /\ relayExec'[f].generation = Generation(m) \/ m.stale
    BY <1>1, <1>9 DEF RunsOnKept, Generation
  <2>1. /\ agentSessions[AgentOf[f]] \in {NoCall, relayExec[f].conversation}
        /\ relayExec[f].generation = Generation(relayTransport) \/ relayTransport.stale
        /\ AgentOf[f] \in Agents \ {AgentOf[e]}
    BY <1>1, <1>2, RelayManagerAssumption DEF RelayInv, RunsOnKept, OneAtATime
  <2>2. Generation(m) = Generation(relayTransport) /\ m.stale = relayTransport.stale /\ relayExec'[f] = relayExec[f]
    BY <1>2, <1>3, <1>4, <1>5, <1>8
  <2> QED
    BY <1>7, <2>1, <2>2
<1>16. OwnConversation'
  <2> SUFFICES ASSUME NEW f \in RelayRunning \ {e}, relayExec[f].conversation # NoCall
               PROVE  /\ relayExec[f].conversation \in LiveConversations'
                      /\ \A g \in RelayRunning \ {e, f} : relayExec[g].conversation # relayExec[f].conversation
    BY <1>2, <1>8, <1>9 DEF OwnConversation
  <2> QED
    BY <1>1, <1>4 DEF RelayInv, OwnConversation, LiveConversations
<1>17. KeptIsLive'
  BY <1>1, <1>10 DEF KeptIsLive, LiveConversations
<1>18. KeptUnderThisIdentity'
  <2> SUFFICES ASSUME NEW a \in Agents, agentSessions'[a] # NoCall
               PROVE  \E f \in RelayExecs : /\ relayExec'[f].pc = "returned"
                                            /\ relayExec'[f].conversation = agentSessions'[a]
                                            /\ relayExec'[f].generation = Generation(m)
    BY <1>1 DEF KeptUnderThisIdentity, Generation
  <2>1. m.conn = relayTransport.conn /\ Generation(m) = Generation(relayTransport)
    BY <1>5, <1>10
  <2>2. CASE agentSessions'[a] = agentSessions[a]
    <3>1. PICK f \in RelayExecs : /\ relayExec[f].pc = "returned"
                                  /\ relayExec[f].conversation = agentSessions[a]
                                  /\ relayExec[f].generation = Generation(relayTransport)
      BY <2>2 DEF RelayInv, KeptUnderThisIdentity
    <3>2. relayExec'[f] = relayExec[f]
      BY <1>1, <1>8, <3>1
    <3> QED
      BY <2>1, <2>2, <3>1, <3>2
  <2>3. CASE agentSessions'[a] = own /\ relayExec[e].generation = Generation(relayTransport)
    BY <1>8, <2>1, <2>3
  <2> QED
    BY <1>7, <2>1, <2>2, <2>3
<1>19. NoLeakedConversation'
  <2> SUFFICES ASSUME ~m.stale, NEW c \in LiveConversations'
               PROVE  \/ \E a \in Agents : agentSessions'[a] = c
                      \/ \E f \in RelayRunning \ {e} : relayExec'[f].conversation = c
    BY <1>1, <1>9 DEF NoLeakedConversation
  <2>1. c \in RelayExecs /\ hub[c].state = "open" /\ hub[c].conn = m.conn /\ hub[c].conn # 0
    BY <1>1 DEF LiveConversations, RelayInv, OpenedFirst
  <2>2. /\ m.conn = relayTransport.conn /\ c \in LiveConversations /\ ~relayTransport.stale
        /\ agentSessions'[AgentOf[e]] = own
    BY <1>3, <1>6, <1>7, <2>1 DEF LiveConversations
  <2>3. ASSUME NEW a \in Agents, agentSessions[a] = c
        PROVE  agentSessions'[a] = c
    BY <1>6, <1>7, <2>1, <2>2, <2>3, RelayManagerAssumption
  <2>4. ASSUME NEW f \in RelayRunning, relayExec[f].conversation = c
        PROVE  agentSessions'[AgentOf[e]] = c \/ (f # e /\ relayExec'[f].conversation = c)
    BY <1>2, <1>8, <2>2, <2>4
  <2> QED
    BY <1>1, <1>2, <2>2, <2>3, <2>4 DEF RelayInv, NoLeakedConversation
<1> QED
  BY <1>11, <1>12, <1>13, <1>14, <1>15, <1>16, <1>17, <1>18, <1>19 DEF RelayInv

\* A new call disturbs nothing but the order of the calls.
LEMMA CallKeeps == ASSUME RelayInv, NEW e \in RelayExecs, Call(e) PROVE RelayInv'
<1>1. PICK t \in RelayTokens : relayExec' = [relayExec EXCEPT ![e].pc = "queued", ![e].token = t,
                                                              ![e].previous = last[AgentOf[e]]]
  BY DEF Call
<1>2. /\ RelayOpen /\ relayExec[e].pc = "idle" /\ last' = [last EXCEPT ![AgentOf[e]] = e]
      /\ relayTransport' = relayTransport /\ agentSessions' = agentSessions /\ relayClosed' = relayClosed /\ hub' = hub
  BY DEF Call
<1>3. /\ relayExec'[e].pc = "queued"
      /\ \A f \in RelayExecs : /\ relayExec'[f].conversation = relayExec[f].conversation
                                /\ relayExec'[f].generation = relayExec[f].generation
      /\ \A f \in RelayExecs \ {e} : relayExec'[f] = relayExec[f]
  BY <1>1 DEF RelayInv, RelayTypeOK, RelayCalls
<1>4. RelayRunning' = RelayRunning /\ e \notin RelayRunning
  BY <1>2, <1>3 DEF RelayRunning
<1>5. RelayTypeOK'
  <2>1. last[AgentOf[e]] \in RelayExecs \cup {NoCall}
    BY RelayManagerAssumption DEF RelayInv, RelayTypeOK
  <2>2. [relayExec[e] EXCEPT !.pc = "queued", !.token = t, !.previous = last[AgentOf[e]]] \in RelayCalls
    BY <2>1 DEF RelayInv, RelayTypeOK, RelayCalls
  <2> QED
    BY <1>1, <1>2, <2>2 DEF RelayInv, RelayTypeOK
<1>6. InOrder'
  BY CallKeepsOrder DEF RelayInv
<1>7. RelayCountExact' /\ RunsOnKept' /\ KeptIsLive'
  BY <1>2, <1>3, <1>4 DEF RelayInv, RelayCountExact, RunsOnKept, KeptIsLive, LiveConversations, RelayOpen,
                          Generation, RelayRunning
<1>8. OwnConversation'
  BY <1>2, <1>3, <1>4 DEF RelayInv, OwnConversation, LiveConversations, RelayOpen, RelayRunning
<1>9. NoLeakedConversation'
  BY <1>2, <1>3, <1>4 DEF RelayInv, NoLeakedConversation, LiveConversations, RelayOpen, RelayRunning
<1>10. OpenedFirst'
  <2>1. relayExec[e].conversation = NoCall /\ hub[e].state = "none"
    BY <1>2, RelayManagerAssumption DEF RelayInv, OpenedFirst, Finished
  <2>2. ASSUME NEW f \in RelayExecs
        PROVE  /\ hub[f].state # "none" => relayExec'[f].pc \in Finished \/ relayExec'[f].conversation = f
               /\ relayExec'[f].pc \in {"idle", "queued"} => relayExec'[f].conversation = NoCall
    <3>1. CASE f = e
      BY <1>3, <2>1, <3>1
    <3>2. CASE f # e
      BY <1>3, <3>2 DEF RelayInv, OpenedFirst
    <3> QED
      BY <3>1, <3>2
  <2> QED
    BY <1>2, <1>3, <2>2 DEF RelayInv, OpenedFirst
<1>11. KeptUnderThisIdentity'
  <2> SUFFICES ASSUME NEW a \in Agents, agentSessions[a] # NoCall
               PROVE  \E f \in RelayExecs : /\ relayExec'[f].pc = "returned"
                                            /\ relayExec'[f].conversation = agentSessions[a]
                                            /\ relayExec'[f].generation = Generation(relayTransport)
    BY <1>2 DEF KeptUnderThisIdentity, Generation
  <2>1. PICK f \in RelayExecs : /\ relayExec[f].pc = "returned"
                                /\ relayExec[f].conversation = agentSessions[a]
                                /\ relayExec[f].generation = Generation(relayTransport)
    BY DEF RelayInv, KeptUnderThisIdentity
  <2> QED
    BY <1>2, <1>3, <2>1
<1> QED
  BY <1>5, <1>6, <1>7, <1>8, <1>9, <1>10, <1>11 DEF RelayInv

\* close() leaves nothing for anybody to run on.
LEMMA CloseKeeps == ASSUME RelayInv, RelayClose PROVE RelayInv'
<1> DEFINE kept == {agentSessions[a] : a \in Agents} \ {NoCall}
<1>1. /\ relayClosed' = TRUE /\ relayTransport' = CloseTransport(relayTransport) /\ agentSessions' = NoSessions
      /\ last' = [a \in Agents |-> NoCall] /\ relayExec' = relayExec
      /\ hub' = [c \in RelayExecs |-> IF c \in kept
                                   THEN [hub[c] EXCEPT !.state = "ended"] ELSE hub[c]]
  BY DEF RelayClose, HubEnds
<1>2. /\ relayTransport' \in Transports(RelayTokens) /\ relayTransport'.conn = 0 /\ relayTransport'.created = relayTransport.created
      /\ relayTransport.created \in Nat
  <2>1. relayTransport \in Transports(RelayTokens) /\ relayTransport.created \in Nat
    BY Facts
  <2> QED
    BY <1>1, <2>1, CloseEffect
<1>3. \A c \in kept : hub[c].state # "none"
  BY DEF RelayInv, OpenedFirst
<1> HIDE DEF kept
<1>4. \A c \in RelayExecs :
         /\ hub'[c] \in Conversations /\ hub'[c].conn = hub[c].conn
         /\ hub'[c].state = "open" => hub[c].state = "open"
         /\ hub'[c].state # "none" <=> hub[c].state # "none"
  BY <1>1, <1>3 DEF RelayInv, RelayTypeOK, Conversations
<1>5. \A a \in Agents : agentSessions'[a] = NoCall
  BY <1>1 DEF NoSessions
<1>6. RelayTypeOK'
  BY <1>1, <1>2, <1>4 DEF RelayInv, RelayTypeOK, NoSessions
<1>7. InOrder'
  BY <1>1, TurnsKeepOrder DEF RelayInv
<1>8. RelayCountExact' /\ RunsOnKept' /\ OwnConversation' /\ KeptIsLive' /\ NoLeakedConversation'
  BY <1>1, <1>2 DEF RelayCountExact, RunsOnKept, OwnConversation, KeptIsLive, NoLeakedConversation, RelayOpen
<1>9. OpenedFirst'
  <2>1. ASSUME NEW e \in RelayExecs, relayExec[e].conversation # NoCall
        PROVE  /\ AgentOf[relayExec[e].conversation] = AgentOf[e]
               /\ hub'[relayExec[e].conversation].state # "none"
    <3>1. relayExec[e].conversation \in RelayExecs
      BY <2>1 DEF RelayInv, RelayTypeOK, RelayCalls
    <3> QED
      BY <1>4, <2>1, <3>1 DEF RelayInv, OpenedFirst
  <2>2. ASSUME NEW c \in RelayExecs
        PROVE  /\ hub'[c].conn <= relayTransport.created
               /\ hub'[c].state = "open" => hub'[c].conn # 0
               /\ hub'[c].state # "none" => relayExec[c].pc \in Finished \/ relayExec[c].conversation = c
    BY <1>4 DEF RelayInv, OpenedFirst
  <2>3. \A e \in RelayExecs : relayExec[e].pc \in {"idle", "queued"} => relayExec[e].conversation = NoCall
    BY DEF RelayInv, OpenedFirst
  <2> QED
    BY <1>1, <1>2, <1>5, <2>1, <2>2, <2>3 DEF OpenedFirst
<1>10. KeptUnderThisIdentity'
  BY <1>5 DEF KeptUnderThisIdentity
<1> QED
  BY <1>6, <1>7, <1>8, <1>9, <1>10 DEF RelayInv

\* The ways in which commands fail, one or all of them.
LEMMA FailuresKeep ==
    ASSUME RelayInv,
           \/ RelayTerminal
           \/ \E e \in RelayExecs : RelayCommandFails(e) \/ StartsTooLate(e) \/ MergeFails(e) \/ EndsClosed(e)
    PROVE  RelayInv'
<1>1. /\ hub \in [RelayExecs -> Conversations] /\ relayTransport.conn \in Nat
      /\ \A S \in SUBSET RelayRunning : EndsConversation(S) \subseteq RelayExecs
  BY Facts DEF RelayInv, RelayTypeOK, EndsConversation, RelayCalls, RelayRunning
<1>2. ASSUME NEW S \in SUBSET RelayRunning, HubEnds(EndsConversation(S)) PROVE HubAfter(S)
  <2>1. \A c \in RelayExecs :
           hub'[c] = IF c \in EndsConversation(S) THEN [hub[c] EXCEPT !.state = "ended"] ELSE hub[c]
    BY <1>2 DEF HubEnds
  <2>2. \A c \in RelayExecs : [hub[c] EXCEPT !.state = "ended"] \in Conversations
    BY <1>1 DEF Conversations
  <2>3. hub' \in [RelayExecs -> Conversations]
    BY <1>1, <1>2, <2>2 DEF HubEnds
  <2> QED
    BY <1>1, <2>1, <2>3 DEF HubAfter, Conversations
<1>3. CASE RelayTerminal
  <2>1. Fail(RelayRunning) /\ HubEnds(EndsConversation(RelayRunning))
    BY <1>3 DEF RelayTerminal
  <2> QED
    BY <1>2, <2>1, FailKeeps
<1>4. ASSUME NEW e \in RelayExecs, RelayCommandFails(e) PROVE RelayInv'
  <2>1. Fail({e}) /\ HubEnds(EndsConversation({e})) /\ {e} \in SUBSET RelayRunning
    BY <1>4 DEF RelayCommandFails
  <2> QED
    BY <1>2, <2>1, FailKeeps
<1>5. ASSUME NEW e \in RelayExecs, StartsTooLate(e) PROVE RelayInv'
  <2>1. /\ Fail({e}) /\ RelayOpen /\ relayExec[e].conversation = NoCall /\ {e} \in SUBSET RelayRunning
        /\ hub' = [hub EXCEPT ![e] = [state |-> "open", conn |-> relayTransport.conn]]
    BY <1>5 DEF StartsTooLate
  <2>2. [state |-> "open", conn |-> relayTransport.conn] \in Conversations
    BY <1>1 DEF Conversations
  <2>3. HubAfter({e})
    BY <1>1, <2>1, <2>2 DEF HubAfter
  <2> QED
    BY <2>1, <2>3, FailKeeps
<1>6. ASSUME NEW e \in RelayExecs, MergeFails(e) \/ EndsClosed(e) PROVE RelayInv'
  <2>1. Fail({e}) /\ hub' = hub /\ {e} \in SUBSET RelayRunning
    BY <1>6 DEF MergeFails, EndsClosed
  <2>2. HubAfter({e})
    BY <1>1, <2>1 DEF HubAfter
  <2> QED
    BY <2>1, <2>2, FailKeeps
<1> QED
  BY <1>3, <1>4, <1>5, <1>6

\* Before the first command nothing is queued, remembered or open.
LEMMA InitRelayInv == RelayInit => RelayInv
<1> SUFFICES ASSUME RelayInit PROVE RelayInv
  OBVIOUS
<1>1. /\ \A e \in RelayExecs : relayExec[e] = NewRelayExec
      /\ \A c \in RelayExecs : hub[c] = NoConversation
      /\ \A a \in Agents : agentSessions[a] = NoCall
  BY DEF RelayInit
<1>2. /\ NewRelayExec.pc = "idle" /\ NewRelayExec.conversation = NoCall
      /\ NoConversation.state = "none" /\ NoConversation.conn = 0
  BY DEF NewRelayExec, NoConversation
<1>3. Started = {} /\ RelayRunning = {}
  BY <1>1, <1>2 DEF Started, RelayRunning
<1>4. relayTransport.active = 0 /\ relayTransport.conn = 0 /\ relayTransport.created = 0 /\ relayTransport \in Transports(RelayTokens)
  BY NewTransportType DEF RelayInit, NewTransport
<1>5. RelayTypeOK
  <2>1. NewRelayExec \in RelayCalls /\ NoConversation \in Conversations
    BY DEF NewRelayExec, RelayCalls, NoConversation, Conversations
  <2> QED
    BY <1>4, <2>1 DEF RelayInit, RelayTypeOK
<1>6. InOrder
  <2>1. Cardinality(RelayExecs) \in Nat
    BY RelayManagerAssumption, FS_CardinalityType
  <2>2. [e \in RelayExecs |-> 0] \in [RelayExecs -> 0..Cardinality(RelayExecs)]
    BY <2>1
  <2>3. Ordered([e \in RelayExecs |-> 0])
    BY <1>3 DEF Ordered, RelayInit
  <2> QED
    BY <2>2, <2>3 DEF InOrder
<1>7. RelayCountExact
  BY <1>3, <1>4, FS_EmptySet DEF RelayCountExact
<1>8. OpenedFirst
  BY <1>1, <1>2, <1>4 DEF OpenedFirst
<1>9. RunsOnKept /\ OwnConversation
  BY <1>3 DEF RunsOnKept, OwnConversation
<1>10. KeptIsLive /\ KeptUnderThisIdentity
  BY <1>1 DEF KeptIsLive, KeptUnderThisIdentity
<1>11. NoLeakedConversation
  BY <1>1, <1>2 DEF NoLeakedConversation, LiveConversations
<1> QED
  BY <1>5, <1>6, <1>7, <1>8, <1>9, <1>10, <1>11 DEF RelayInv

\* The invariant holds in every state of the manager.
THEOREM RelayInvariance == RelaySpec => []RelayInv
<1>1. ASSUME RelayInv, UNCHANGED relayVars PROVE RelayInv'
  <2> USE <1>1 DEF relayVars
  <2>1. RelayRunning' = RelayRunning /\ LiveConversations' = LiveConversations /\ RelayOpen' = RelayOpen
    BY DEF RelayRunning, LiveConversations, RelayOpen
  <2>2. RelayTypeOK' /\ RelayCountExact' /\ OpenedFirst'
    BY <2>1 DEF RelayInv, RelayTypeOK, RelayCountExact, OpenedFirst
  <2>3. InOrder'
    BY TurnsKeepOrder DEF RelayInv
  <2>4. RunsOnKept' /\ OwnConversation' /\ KeptIsLive'
    BY <2>1 DEF RelayInv, RunsOnKept, OwnConversation, KeptIsLive, Generation
  <2>5. KeptUnderThisIdentity' /\ NoLeakedConversation'
    BY <2>1 DEF RelayInv, KeptUnderThisIdentity, NoLeakedConversation, Generation
  <2> QED
    BY <2>2, <2>3, <2>4, <2>5 DEF RelayInv
<1>2. ASSUME RelayInv, RelayNext PROVE RelayInv'
  <2>1. CASE RelayTerminal \/ \E e \in RelayExecs : \/ RelayCommandFails(e) \/ StartsTooLate(e)
                                              \/ MergeFails(e) \/ EndsClosed(e)
    BY <1>2, <2>1, FailuresKeep
  <2>2. CASE RelayClose
    BY <1>2, <2>2, CloseKeeps
  <2>3. ASSUME NEW e \in RelayExecs,
               \/ Call(e) \/ Begin(e) \/ RefusedClosed(e) \/ ConversationStarts(e) \/ Returns(e)
        PROVE  RelayInv'
    BY <1>2, <2>3, CallKeeps, BeginKeeps, RefusedClosedKeeps, ConversationStartsKeeps,
       ReturnsKeeps
  <2> QED
    BY <1>2, <2>1, <2>2, <2>3 DEF RelayNext, RelayExecStep
<1> QED
  BY <1>1, <1>2, InitRelayInv, PTL DEF RelaySpec

\* Whoever runs on a conversation has it alone and finds it open on its own connection.
THEOREM ConversationsOwned == RelaySpec => []OwnConversation
<1>1. RelayInv => OwnConversation
  BY DEF RelayInv
<1> QED
  BY <1>1, RelayInvariance, PTL

\* Conversations are kept only while they are live and of this identity, and none that is
\* open at the hub is left without somebody who answers for it.
THEOREM NoneLeaked == RelaySpec => []ConversationsKept
<1>1. RelayInv => ConversationsKept
  BY DEF RelayInv, ConversationsKept
<1> QED
  BY <1>1, RelayInvariance, PTL

\* A call that waits for its agent waits for a call that is at work or may begin.
THEOREM TheQueueMoves == RelaySpec => []QueueMoves
<1>1. RelayInv => QueueMoves
  BY SomebodyMoves DEF RelayInv
<1> QED
  BY <1>1, RelayInvariance, PTL
================================================================================
