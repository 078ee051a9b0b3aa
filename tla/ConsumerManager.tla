----------------------------- MODULE ConsumerManager -----------------------------
(***************************************************************************)
(* socketCommandExecutor.ts: the commands of one execution over the shared  *)
(* consumer connection, behind a capability probe that is cached and made   *)
(* once for all the commands that wait for it, with a fallback to the relay *)
(* for a single command when the probe times out.                          *)
(*                                                                         *)
(* A step is the code between two awaits.                                   *)
(***************************************************************************)
EXTENDS ManagedTransport, FiniteSets

CONSTANTS
    Execs,        \* calls of execute()
    BatchExecs,   \* those whose command is a batch
    Tokens,       \* access tokens of the sessions they run with
    None,         \* the undefined call
    Faults        \* connections and commands may fail, probes may time out

ASSUME ConsumerManagerAssumption ==
    /\ IsFiniteSet(Execs)
    /\ BatchExecs \subseteq Execs
    /\ NoToken \notin Tokens
    /\ None \notin Execs
    /\ Faults \in BOOLEAN

VARIABLES
    mt,           \* managedTransport
    capability,   \* "unknown", "supported", "unsupported"
    fresh,        \* capabilityCheckedAtMs is less than capabilityTtlMs ago
    probeGeneration,
    inFlight,     \* capabilityProbeInFlight: the exec that started it, None if undefined
    probe,        \* exec -> the probe it started
    exec,         \* exec -> where its execute() stands
    hints,        \* cacheGeneration when agentStreamLimits was last filled, -1 if empty
    closed,
    capabilityOf  \* history: cacheGeneration of the probe that set capability

cache == <<capability, fresh, capabilityOf>>
vars == <<mt, cache, probeGeneration, inFlight, probe, exec, hints, closed>>

NoProbe == [state |-> "none", conn |-> 0, generation |-> 0, number |-> 0]
NewExec == [pc |-> "idle", token |-> NoToken, awaits |-> None, conn |-> 0, generation |-> 0]

Init ==
    /\ mt = NewTransport
    /\ capability = "unknown" /\ fresh = FALSE /\ capabilityOf = 0
    /\ probeGeneration = 0 /\ inFlight = None
    /\ probe = [e \in Execs |-> NoProbe]
    /\ exec = [e \in Execs |-> NewExec]
    /\ hints = 0 - 1
    /\ closed = FALSE

--------------------------------------------------------------------------------
\* The managed transport becomes m; its callbacks reset the caches over the values
\* cap, ttl, of (and h for the hints) the handler had set before.
Caches(m, cap, ttl, of, h) ==
    /\ mt' = m
    /\ IF Generation(m) # Generation(mt)
       THEN capability' = "unknown" /\ fresh' = FALSE /\ capabilityOf' = Generation(m)
            /\ hints' = 0 - 1
       ELSE capability' = cap /\ fresh' = ttl /\ capabilityOf' = of /\ hints' = h

Keep(m) == Caches(m, capability, fresh, capabilityOf, hints)

\* onDispose forgets the probe in flight.
Forget(m, pending) ==
    /\ inFlight' = IF m.disposals # mt.disposals THEN None ELSE pending
    /\ probeGeneration' = probeGeneration + (m.disposals - mt.disposals)

Ends(e, how) == exec' = [exec EXCEPT ![e].pc = how]
Open == ~closed

--------------------------------------------------------------------------------
(* execute() up to its first await: the transport is ensured, then the cache is
   asked, then the pending probe is joined or one is started.                *)

\* An identity change and a disposal clear the cache before it is read.
CacheSays(e, m) ==
    IF Generation(m) # Generation(mt) \/ ~fresh THEN "unknown"
    ELSE IF capability = "unsupported" /\ e \in BatchExecs THEN "unknown"
    ELSE capability

Pending(m) == IF m.disposals # mt.disposals THEN None ELSE inFlight

Cached(e, t) ==
    LET m == EnsureTransport(mt, t)
    IN  /\ CacheSays(e, m) # "unknown"
        /\ Keep(m) /\ Forget(m, inFlight)
        /\ exec' = [exec EXCEPT ![e].token = t, ![e].pc = CacheSays(e, m)]
        /\ UNCHANGED <<probe, closed>>

Joins(e, t) ==
    LET m == EnsureTransport(mt, t)
    IN  /\ CacheSays(e, m) = "unknown"
        /\ Pending(m) # None
        /\ Keep(m) /\ Forget(m, inFlight)
        /\ exec' = [exec EXCEPT ![e].token = t, ![e].pc = "probing", ![e].awaits = inFlight]
        /\ UNCHANGED <<probe, closed>>

StartsProbe(e, t) ==
    LET m == EnsureTransport(mt, t)
        number == probeGeneration + (m.disposals - mt.disposals) + 1
    IN  /\ CacheSays(e, m) = "unknown"
        /\ Pending(m) = None
        /\ Keep(Acquire(m))
        /\ inFlight' = e /\ probeGeneration' = number
        /\ probe' = [probe EXCEPT ![e] = [state |-> "running", conn |-> m.conn,
                                          generation |-> Generation(m), number |-> number]]
        /\ exec' = [exec EXCEPT ![e].token = t, ![e].pc = "probing", ![e].awaits = e]
        /\ UNCHANGED <<closed>>

Start(e) ==
    /\ Open /\ exec[e].pc = "idle"
    /\ \E t \in Tokens : Cached(e, t) \/ Joins(e, t) \/ StartsProbe(e, t)

--------------------------------------------------------------------------------
(* The probe of exec p.                                                     *)

Current(g) == g = Generation(mt)

\* The finally block, after the cache entry: release, and forget the probe. Everyone
\* who awaits it gets the result.
Settle_mut(p) == {p}
Settle(p) == {e \in Execs : exec[e].pc = "probing" /\ exec[e].awaits = p}

ProbeEnds(p, m, result) ==
    /\ probe' = [probe EXCEPT ![p] = NoProbe]
    /\ Forget(m, IF probeGeneration = probe[p].number THEN None ELSE inFlight)
    /\ exec' = [e \in Execs |-> IF e \in Settle(p) THEN [exec[e] EXCEPT !.pc = result]
                                ELSE exec[e]]
    /\ UNCHANGED closed

ProbeSucceeds(p) ==
    LET m == Release(mt)
    IN  /\ probe[p].state = "running"
        /\ IF Current(probe[p].generation)
           THEN Caches(m, "supported", TRUE, probe[p].generation, probe[p].generation)
           ELSE Keep(m)
        /\ ProbeEnds(p, m, "supported")

\* PlugTimeoutError for a single command: back off before the fallback.
ProbeTimesOut(p) ==
    /\ Faults /\ probe[p].state = "running"
    /\ Current(probe[p].generation) /\ p \notin BatchExecs
    /\ probe' = [probe EXCEPT ![p].state = "backoff"]
    /\ UNCHANGED <<mt, cache, probeGeneration, inFlight, exec, hints, closed>>

BackoffEnds(p) ==
    LET m == Release(Dispose(MarkStale(mt)))
    IN  /\ probe[p].state = "backoff"
        /\ Caches(m, "unsupported", TRUE, probe[p].generation, hints)
        /\ ProbeEnds(p, m, "unsupported")

\* ... for a batch: the connection is given up and the batch refused.
BatchProbeTimesOut(p) ==
    LET m == Release(Dispose(MarkStale(mt)))
    IN  /\ Faults /\ probe[p].state = "running"
        /\ Current(probe[p].generation) /\ p \in BatchExecs
        /\ Keep(m)
        /\ ProbeEnds(p, m, "failed")

\* Any other error. One the server answered shows that it knows agents:command.
ProbeFails(p, answered) ==
    LET m == Release(mt)
    IN  /\ Faults /\ probe[p].state = "running"
        /\ IF answered /\ Current(probe[p].generation)
           THEN Caches(m, "supported", TRUE, probe[p].generation, hints)
           ELSE Keep(m)
        /\ ProbeEnds(p, m, "failed")

--------------------------------------------------------------------------------
(* execute() after the probe.                                               *)

Refused(e) ==
    /\ exec[e].pc \in {"supported", "unsupported"}
    /\ closed \/ (exec[e].pc = "unsupported" /\ e \in BatchExecs)
    /\ Ends(e, "failed")
    /\ UNCHANGED <<mt, cache, probeGeneration, inFlight, probe, hints, closed>>

FallsBack(e) ==
    LET m == Dispose(mt)
    IN  /\ Open /\ exec[e].pc = "unsupported" /\ e \notin BatchExecs
        /\ Keep(m) /\ Forget(m, inFlight)
        /\ Ends(e, "relay")
        /\ UNCHANGED <<probe, closed>>

Dispatches(e) ==
    LET m == EnsureTransport(mt, exec[e].token)
    IN  /\ Open /\ exec[e].pc = "supported"
        /\ Keep(Acquire(m)) /\ Forget(m, inFlight)
        /\ exec' = [exec EXCEPT ![e].pc = "running", ![e].conn = m.conn,
                                ![e].generation = Generation(m)]
        /\ UNCHANGED <<probe, closed>>

CommandReturns(e) ==
    LET m == Release(mt)
        h == IF Current(exec[e].generation) THEN exec[e].generation ELSE hints
    IN  /\ Open /\ exec[e].pc = "running"
        /\ Caches(m, capability, fresh, capabilityOf, h) /\ Forget(m, inFlight)
        /\ Ends(e, "returned")
        /\ UNCHANGED <<probe, closed>>

\* The command fails, or returns to a closed manager.
CommandFails(e) ==
    LET m == Release(MarkStale(mt))
    IN  /\ Faults \/ closed
        /\ exec[e].pc = "running"
        /\ Keep(m) /\ Forget(m, inFlight)
        /\ Ends(e, "failed")
        /\ UNCHANGED <<probe, closed>>

--------------------------------------------------------------------------------
\* app:error, connect_error or disconnect of the live connection
Terminal ==
    /\ Faults /\ mt.conn # 0 /\ ~mt.stale
    /\ mt' = MarkStale(mt)
    /\ UNCHANGED <<cache, probeGeneration, inFlight, probe, exec, hints, closed>>

TtlPasses ==
    /\ fresh
    /\ fresh' = FALSE
    /\ UNCHANGED <<mt, capability, capabilityOf, probeGeneration, inFlight, probe, exec,
                   hints, closed>>

Close ==
    LET m == CloseTransport(mt)
    IN  /\ Open
        /\ closed' = TRUE
        /\ Keep(m) /\ Forget(m, inFlight)
        /\ UNCHANGED <<probe, exec>>

ProbeStep(p) ==
    \/ ProbeSucceeds(p) \/ ProbeTimesOut(p) \/ BackoffEnds(p) \/ BatchProbeTimesOut(p)
    \/ \E answered \in BOOLEAN : ProbeFails(p, answered)

ExecStep(e) ==
    Refused(e) \/ FallsBack(e) \/ Dispatches(e) \/ CommandReturns(e) \/ CommandFails(e)

Next ==
    \/ \E e \in Execs : Start(e) \/ ProbeStep(e) \/ ExecStep(e)
    \/ Terminal \/ TtlPasses \/ Close

Spec == Init /\ [][Next]_vars
--------------------------------------------------------------------------------
Probing == {p \in Execs : probe[p].state # "none"}
Running == {e \in Execs : exec[e].pc = "running"}

Probes == [state : {"none", "running", "backoff"}, conn : Nat, generation : Nat, number : Nat]
Calls ==
    [pc : {"idle", "probing", "supported", "unsupported", "running", "returned", "relay",
           "failed"},
     token : Tokens \cup {NoToken}, awaits : Execs \cup {None}, conn : Nat,
     generation : Nat]

TypeOK ==
    /\ mt \in Transports(Tokens)
    /\ capability \in {"unknown", "supported", "unsupported"}
    /\ fresh \in BOOLEAN /\ capabilityOf \in Nat
    /\ probeGeneration \in Nat /\ inFlight \in Execs \cup {None}
    /\ probe \in [Execs -> Probes] /\ exec \in [Execs -> Calls]
    /\ hints \in Nat \cup {0 - 1}
    /\ closed \in BOOLEAN

\* The reference count is the number of commands and probes that use the connection
\* (acquire, release), so that it is disposed of exactly when the last one ends.
CountExact == Open => mt.active = Cardinality(Running) + Cardinality(Probing)

\* The connection a command or a probe runs on is never torn down or replaced under
\* it, whatever the others do: "a capability probe timeout cannot tear down siblings".
NeverTornDown ==
    Open => /\ \A e \in Running : exec[e].conn = mt.conn
            /\ \A p \in Probing : probe[p].conn = mt.conn

\* At most one probe is under way, and it is the one later calls join.
OneProbe == Open => \A p \in Probing : inFlight = p

\* What is cached is of this connection and this identity: agentStreamLimits never holds
\* what an earlier one was told, and a probe of an earlier one never makes the present one
\* "supported".  (Its "unsupported" can: that one is written after the backoff without a
\* second look at cacheGeneration.)
CachesCurrent ==
    /\ hints \in {0 - 1, Generation(mt)}
    /\ capability = "supported" => capabilityOf = Generation(mt)

\* Whoever awaits a probe, its own or one it joined, awaits one that will still end: no
\* call of execute() is left waiting when the connection is disposed of or replaced.
NoVainWait ==
    \A e \in Execs : exec[e].pc = "probing" => exec[e].awaits \in Probing

\* The connection is shared as its reference count says: exactly counted, and so never
\* taken away from under a command or a probe.
ConnectionShared == TypeOK /\ CountExact /\ NeverTornDown

\* Commands share one probe, none of them waits for a probe that will not end, and what a
\* probe left in the caches is of the present connection and identity.
ProbeShared == OneProbe /\ NoVainWait /\ CachesCurrent
================================================================================
