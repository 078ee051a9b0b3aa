----------------------------- MODULE TriggerSession -----------------------------
(***************************************************************************)
(* The connection of an active Plug socket event trigger:                  *)
(* PlugDatabaseSocketEventTrigger.node.ts (connectSocket,                  *)
(* handleRuntimeError, closeFunction), triggerReconnectManager.ts and the  *)
(* start of a session in shared/socket/customSocketEventSession.ts.        *)
(*                                                                         *)
(* A flow is one call of connectWithRetry: the activation of the trigger   *)
(* is flow 1 and every firing of the reconnect timer starts another. A     *)
(* flow opens sockets one after the other until one becomes a session or   *)
(* it gives up, so the flow names its socket too. The steps between two    *)
(* awaits that only wait for microtasks are one action.                    *)
(***************************************************************************)
EXTENDS Naturals, FiniteSets

CONSTANTS
    Subscribes,    \* TRUE: custom events (subscribe and wait); FALSE: agentProfileUpdated
    Reconnects,    \* config.reconnectOnDisconnect
    MaxAttempts,   \* config.maxReconnectAttempts, 0 for no limit
    MaxFailures,   \* config.maxReconnectFailuresInWindow, 0 for no circuit breaker
    MaxFaults      \* bound: failures of the hub, the network or the login

ASSUME TriggerAssumption ==
    /\ Subscribes \in BOOLEAN /\ Reconnects \in BOOLEAN
    /\ MaxAttempts \in Nat /\ MaxFailures \in Nat /\ MaxFaults \in Nat

VARIABLES
    pc,          \* flow -> where its connectWithRetry is
    link,        \* flow -> its socket: none (or disconnected by us), up, or down (lost)
    flows,       \* flows started
    session,     \* customEventSession of the node: the flow that opened it, 0 if undefined
    attempts,    \* reconnectAttempts
    failures,    \* reconnectFailureTimes inside the window
    timer,       \* reconnectTimer is armed
    reconnecting, loopActive,   \* flags of the manager
    sessionClosed,      \* of the node and of the manager: closeFunction sets both at once
    reported,    \* errors the workflow was told of: emitError, or activation failed
    faults       \* bound: faults so far

counters == <<attempts, failures>>
manager  == <<counters, timer, reconnecting, loopActive>>
sessionVars == <<pc, link, flows, session, manager, sessionClosed, reported, faults>>

Flows == 1..(MaxFaults + 1)
\* "retryable" and "permanent" are PlugErrors; "unknown" is any other error, such as
\* the one zlib gives for a ready frame it cannot inflate.
PlugErrors == {"retryable", "permanent"}
Kinds == PlugErrors \cup {"unknown"}

SessionInit ==
    /\ pc = [f \in Flows |-> IF f = 1 THEN "login" ELSE "idle"]
    /\ link = [f \in Flows |-> "none"]
    /\ flows = 1 /\ session = 0
    /\ attempts = 0 /\ failures = 0
    /\ timer = FALSE /\ reconnecting = FALSE /\ loopActive = TRUE
    /\ sessionClosed = FALSE /\ reported = 0 /\ faults = 0

\* transport.disconnect() of flow f.
Dropped(l, f) == [l EXCEPT ![f] = "none"]

Fault == faults < MaxFaults /\ faults' = faults + 1

--------------------------------------------------------------------------------
(* TriggerReconnectManager                                                 *)

Exhausted == MaxAttempts > 0 /\ attempts >= MaxAttempts

\* The catch of connectWithRetry rethrows.
GivesUp(kind) == sessionClosed \/ ~Reconnects \/ kind # "retryable" \/ Exhausted

\* recordReconnectFailureAndIsCircuitOpen
CircuitOpens == MaxFailures > 0 /\ failures + 1 > MaxFailures

\* scheduleReconnect, called with `reconnecting` set. `kind` is never "unknown" here.
ScheduleReconnect(kind) ==
    IF sessionClosed \/ ~Reconnects \/ kind # "retryable" \/ Exhausted
    THEN /\ reconnecting' = FALSE
         /\ reported' = reported + 1
         /\ UNCHANGED timer
    ELSE /\ reconnecting' = TRUE
         /\ timer' = TRUE
         /\ UNCHANGED reported

\* handleRuntimeError returns at once, `looping` being connectLoopActive.
Suppressed_mut(looping) == sessionClosed \/ reconnecting
Suppressed(looping) == sessionClosed \/ reconnecting \/ looping

\* The rejection of flow f leaves connectWithRetry. Activation rethrows it to n8n. The
\* catch of the reconnect timer reports an open circuit and hands the rest to
\* handleRuntimeError, where an error that is not a PlugError counts as retryable. The
\* flags are those the finally of connectWithRetry leaves.
FlowThrows(f, kind) ==
    /\ pc' = [pc EXCEPT ![f] = IF f = 1 THEN "failed" ELSE "ended"]
    /\ loopActive' = FALSE
    /\ IF f = 1 \/ kind = "circuit"
       THEN reported' = reported + 1 /\ UNCHANGED <<timer, reconnecting>>
       ELSE IF Suppressed(FALSE)
       THEN UNCHANGED <<timer, reconnecting, reported>>
       ELSE ScheduleReconnect(IF kind = "unknown" THEN "retryable" ELSE kind)

\* connect() rejected in flow f: the catch of connectWithRetry. A flow of the timer is
\* nested in a second connectWithRetry, which records an open circuit once more.
ConnectFails(f, kind) ==
    /\ IF GivesUp(kind)
       THEN FlowThrows(f, kind) /\ UNCHANGED <<attempts, failures>>
       ELSE IF CircuitOpens
       THEN /\ FlowThrows(f, "circuit")
            /\ failures' = failures + (IF f = 1 THEN 1 ELSE 2)
            /\ UNCHANGED attempts
       ELSE /\ pc' = [pc EXCEPT ![f] = "delay"]
            /\ attempts' = attempts + 1
            /\ failures' = IF MaxFailures > 0 THEN failures + 1 ELSE failures
            /\ UNCHANGED <<timer, reconnecting, loopActive, reported>>

\* connect() resolved: resetAttempts, and the loop is over.
ConnectResolves(f, where) ==
    /\ pc' = [pc EXCEPT ![f] = where]
    /\ attempts' = 0 /\ failures' = 0
    /\ loopActive' = FALSE
    /\ UNCHANGED <<timer, reconnecting, reported>>

\* The delay of flow f. closeFunction clears its timer, and then it never ends.
DelayEnds(f) ==
    /\ pc[f] = "delay" /\ ~sessionClosed
    /\ pc' = [pc EXCEPT ![f] = "login"]
    /\ UNCHANGED <<link, flows, session, manager, sessionClosed, reported, faults>>

\* The reconnect timer fires and calls connectWithRetry.
ReconnectingAfterTimer_mut == reconnecting
ReconnectingAfterTimer == FALSE

TimerFires ==
    /\ timer
    /\ timer' = FALSE /\ reconnecting' = ReconnectingAfterTimer
    /\ flows' = flows + 1
    /\ pc' = [pc EXCEPT ![flows'] = "login"]
    /\ loopActive' = TRUE
    /\ UNCHANGED <<link, session, counters, sessionClosed, reported, faults>>

\* The oldest recorded failure leaves the window of reconnectFailureWindowMs.
WindowPasses ==
    /\ failures > 0
    /\ failures' = failures - 1
    /\ UNCHANGED <<pc, link, flows, session, attempts, timer, reconnecting, loopActive,
                   sessionClosed, reported, faults>>

--------------------------------------------------------------------------------
(* connectSocket and the start of a session                                *)

\* The session runner could not log in.
LoginFails(f, kind) ==
    /\ pc[f] = "login" /\ Fault
    /\ ConnectFails(f, kind)
    /\ UNCHANGED <<link, flows, session, sessionClosed>>

\* The callback of the session runner looks at `closed` first.
SkipsConnect == sessionClosed

CallbackSkips(f) ==
    /\ pc[f] = "login" /\ SkipsConnect
    /\ ConnectResolves(f, "ended")
    /\ UNCHANGED <<link, flows, session, sessionClosed, faults>>

\* The socket is created and connects; waitForConnectionReady listens.
OpensSocket(f) ==
    /\ pc[f] = "login" /\ ~SkipsConnect
    /\ pc' = [pc EXCEPT ![f] = "waiting"]
    /\ link' = [link EXCEPT ![f] = "up"]
    /\ UNCHANGED <<flows, session, manager, sessionClosed, reported, faults>>

\* connection:ready. Its listeners go, and its frame is decoded.
ReadyArrives(f) ==
    /\ pc[f] = "waiting"
    /\ pc' = [pc EXCEPT ![f] = "decoding"]
    /\ UNCHANGED <<link, flows, session, manager, sessionClosed, reported, faults>>

\* connect_error, app:error, disconnect or the timeout of waitForConnectionReady, or an
\* invalid ready frame: the socket is disconnected. An expired token is answered by the
\* session runner, which renews the session and calls the callback again.
ReadyFails(f, kind, renewed) ==
    /\ pc[f] \in {"waiting", "decoding"} /\ Fault
    /\ kind = "unknown" => pc[f] = "decoding"
    /\ link' = Dropped(link, f)
    /\ IF renewed
       THEN pc' = [pc EXCEPT ![f] = "login"] /\ UNCHANGED <<manager, reported>>
       ELSE ConnectFails(f, kind)
    /\ UNCHANGED <<flows, session, sessionClosed>>

\* The socket is lost while the ready frame is decoded. Nobody listens.
LostWhileDecoding(f) ==
    /\ pc[f] = "decoding" /\ link[f] = "up" /\ Fault
    /\ link' = [link EXCEPT ![f] = "down"]
    /\ UNCHANGED <<pc, flows, session, manager, sessionClosed, reported>>

\* The session has started: the node keeps it, or closes it when the trigger was
\* closed meanwhile. A closing session that subscribed waits for its unsubscribe acks.
Keeps == ~sessionClosed
Started(f) ==
    IF Keeps
    THEN /\ session' = f
         /\ ConnectResolves(f, "open")
         /\ UNCHANGED link
    ELSE IF Subscribes /\ link[f] = "up"
    THEN /\ pc' = [pc EXCEPT ![f] = "discarding"]
         /\ session' = f
         /\ UNCHANGED <<link, manager, reported>>
    ELSE /\ link' = Dropped(link, f)
         /\ ConnectResolves(f, "ended")
         /\ UNCHANGED session

Decoded(f) ==
    /\ pc[f] = "decoding"
    /\ IF Subscribes
       THEN /\ pc' = [pc EXCEPT ![f] = "subscribing"]
            /\ UNCHANGED <<link, session, manager, reported>>
       ELSE Started(f)
    /\ UNCHANGED <<flows, sessionClosed, faults>>

\* Every event name was acknowledged.
Subscribed(f) ==
    /\ pc[f] = "subscribing" /\ link[f] = "up"
    /\ Started(f)
    /\ UNCHANGED <<flows, sessionClosed, faults>>

\* handleRuntimeError for an error of flow f's session, with pc and link already moved
\* to p and l: the session the node keeps is closed without unsubscribing, and a
\* reconnect is scheduled.
RuntimeError(kind, p, l) ==
    IF Suppressed(loopActive)
    THEN pc' = p /\ link' = l /\ UNCHANGED <<session, timer, reconnecting, reported>>
    ELSE /\ pc' = IF session = 0 THEN p ELSE [p EXCEPT ![session] = "ended"]
         /\ link' = IF session = 0 THEN l ELSE Dropped(l, session)
         /\ session' = 0
         /\ ScheduleReconnect(kind)

\* A subscription fails; the session cleans up and holds its socket until the
\* unsubscribe acks of the other names are in. A socket lost before the subscription
\* only times out.
SubscribeFails(f, kind) ==
    /\ pc[f] = "subscribing"
    /\ IF link[f] = "up" THEN Fault ELSE kind = "retryable" /\ UNCHANGED faults
    /\ pc' = [pc EXCEPT ![f] = kind]
    /\ UNCHANGED <<link, flows, session, manager, sessionClosed, reported>>

\* An app:error or a disconnect fails the pending subscriptions, and reaches
\* onFatalError as well, which must leave the matter to the loop.
SubscribingNotified(f, kind) ==
    /\ pc[f] = "subscribing" /\ link[f] = "up" /\ Fault
    /\ RuntimeError(kind, [pc EXCEPT ![f] = kind], link)
    /\ UNCHANGED <<flows, counters, loopActive, sessionClosed>>

\* ... and the failure reaches the session runner and, when it does not renew the
\* session and try again, the loop.
CleanedUp(f, renewed) ==
    /\ pc[f] \in PlugErrors
    /\ link' = Dropped(link, f)
    /\ IF renewed
       THEN pc' = [pc EXCEPT ![f] = "login"] /\ UNCHANGED <<manager, reported>>
       ELSE ConnectFails(f, pc[f])
    /\ UNCHANGED <<flows, session, sessionClosed, faults>>

\* A started session that nobody may use any more has been unsubscribed.
Discarded(f) ==
    /\ pc[f] = "discarding"
    /\ link' = Dropped(link, f)
    /\ session' = 0
    /\ ConnectResolves(f, "ended")
    /\ UNCHANGED <<flows, sessionClosed, faults>>

--------------------------------------------------------------------------------
(* An open session                                                         *)

\* A disconnect or an app:error of an open session reaches onFatalError.
SessionError(f, kind, lost) ==
    /\ pc[f] = "open" /\ link[f] = "up" /\ Fault
    /\ lost => kind = "retryable"
    /\ RuntimeError(kind, pc, IF lost THEN [link EXCEPT ![f] = "down"] ELSE link)
    /\ UNCHANGED <<flows, counters, loopActive, sessionClosed>>

\* closeFunction, which n8n has once the activation resolved
TimerAfterClose_mut == timer
TimerAfterClose == FALSE

CloseFunction ==
    /\ ~sessionClosed
    /\ pc[1] \in {"open", "ended"}
    /\ sessionClosed' = TRUE
    /\ timer' = TimerAfterClose
    /\ IF session = 0 THEN UNCHANGED <<pc, link, session>>
       ELSE IF Subscribes /\ link[session] = "up"
       THEN pc' = [pc EXCEPT ![session] = "closing"] /\ UNCHANGED <<link, session>>
       ELSE /\ pc' = [pc EXCEPT ![session] = "ended"]
            /\ link' = Dropped(link, session)
            /\ session' = 0
    /\ UNCHANGED <<flows, counters, reconnecting, loopActive, reported, faults>>

\* The unsubscribe acks of a session being closed are in, or timed out.
SessionClosed(f) ==
    /\ pc[f] = "closing"
    /\ pc' = [pc EXCEPT ![f] = "ended"]
    /\ link' = Dropped(link, f)
    /\ session' = 0
    /\ UNCHANGED <<flows, manager, sessionClosed, reported, faults>>

FlowAdvances(f) ==
    \/ DelayEnds(f) \/ CallbackSkips(f) \/ OpensSocket(f) \/ ReadyArrives(f)
    \/ Decoded(f) \/ Subscribed(f) \/ Discarded(f) \/ SessionClosed(f)
    \/ \E renewed \in BOOLEAN :
          CleanedUp(f, renewed) \/ \E kind \in Kinds : ReadyFails(f, kind, renewed)
    \/ \E kind \in PlugErrors :
          LoginFails(f, kind) \/ SubscribeFails(f, kind) \/ SubscribingNotified(f, kind)

SessionNext ==
    \/ \E f \in Flows : FlowAdvances(f) \/ LostWhileDecoding(f)
    \/ \E f \in Flows, kind \in PlugErrors, lost \in BOOLEAN :
          SessionError(f, kind, lost)
    \/ TimerFires \/ WindowPasses \/ CloseFunction

\* Timers fire, and every wait of a flow ends: by its answer, by an error or by its
\* timeout. Nothing obliges the hub to fail, and nothing obliges n8n to close.
Fairness == WF_sessionVars(TimerFires) /\ \A f \in Flows : WF_sessionVars(FlowAdvances(f))

SessionSpec == SessionInit /\ [][SessionNext]_sessionVars /\ Fairness
--------------------------------------------------------------------------------
InLoop(f) == pc[f] \in {"login", "waiting", "decoding", "subscribing", "discarding",
                        "delay"} \cup PlugErrors
Listening == session # 0 /\ pc[session] = "open" /\ link[session] = "up"

SessionTypeOK ==
    /\ pc \in [Flows -> {"idle", "login", "waiting", "decoding", "subscribing", "delay",
                         "open", "closing", "discarding", "ended", "failed"} \cup PlugErrors]
    /\ link \in [Flows -> {"none", "up", "down"}]
    /\ flows \in Flows /\ session \in 0..flows
    /\ attempts \in Nat /\ (MaxAttempts > 0 => attempts <= MaxAttempts)
    /\ failures \in Nat
    /\ timer \in BOOLEAN /\ reconnecting \in BOOLEAN /\ loopActive \in BOOLEAN
    /\ sessionClosed \in BOOLEAN /\ reported \in Nat /\ faults \in 0..MaxFaults

\* The trigger never holds two sockets, whatever errors arrive while it connects,
\* closes or waits to reconnect: two would deliver every event twice.
OneSocket == Cardinality({f \in Flows : link[f] # "none"}) <= 1

\* Until it is closed or has told the workflow of an error, a trigger has exactly one
\* thing that drives it: a running loop, an armed reconnect timer or a session.
OneDriver ==
    ~sessionClosed /\ reported = 0 =>
        Cardinality({f \in Flows : InLoop(f)}) + (IF timer THEN 1 ELSE 0)
            + (IF session # 0 THEN 1 ELSE 0) = 1

\* The connection of the trigger as a whole.
OneConnection == SessionTypeOK /\ OneSocket /\ OneDriver

\* closeFunction is final: no socket is opened after it, no timer is armed and no
\* error is reported, although a connect may be under way.
StillAfterClose ==
    [][sessionClosed => /\ \A f \in Flows : link[f] = "none" => link'[f] = "none"
                        /\ ~timer' /\ reported' = reported]_sessionVars

\* The connection of a trigger that is open and was told no error comes back.
Recovers == (~sessionClosed /\ reported = 0) ~> (Listening \/ sessionClosed \/ reported > 0)
================================================================================
