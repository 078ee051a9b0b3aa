------------------------------- MODULE StreamPull -------------------------------
(***************************************************************************)
(* One streamed command: consumerCommandSession.ts (and, unless `ordered`,  *)
(* relayStreamAggregation.ts) pulling windows of chunks from the hub with   *)
(* the credit account of streamAggregationState.ts.                         *)
(*                                                                         *)
(* Chunks are numbered in the order the hub sends them, and the connection  *)
(* delivers in order (module DecodeQueue), so the messages under way are    *)
(* kept as counters: chunks applied+1..arrived wait in the decode queue and *)
(* arrived+1..sent on the wire.  ackAt is the number of chunks the hub had  *)
(* sent when it answered the pull that is pending.                          *)
(*                                                                         *)
(* `ordered` says whether pull responses go through the decode queue (the   *)
(* consumer's agents:stream_pull_response) or are control events delivered  *)
(* on arrival (relay:rpc.stream.pull_response).                             *)
(***************************************************************************)
EXTENDS Integers

CONSTANTS
    Total,       \* chunks of the stream
    Window,      \* the window size the command asks for
    Limits,      \* values of limits.maxBufferedChunkItems
    Faults       \* the connection may fail, and timers may fire

ASSUME StreamPullAssumption ==
    /\ Total \in Nat
    /\ Window \in Nat \ {0}
    /\ Limits \subseteq Nat \ {0}
    /\ Faults \in BOOLEAN

VARIABLES
    \* the command, which never changes: its channel and its receive limit
    ordered, limit,
    \* the hub
    hubCredits, sent,
    \* messages: "none", "wire", "queued", and "done" once handled
    hubResponse, ack, complete,
    ackAt, grant,          \* chunks sent before the pull response; its windowSize
    arrived, applied,
    \* StreamAggregationState
    active,                \* activeStreamId is set
    credits, inFlight, pendingChunks, lastWindow,
    \* requestNextStreamWindow: "none", "asked", "waiting", "draining", "drained"
    pullPhase,
    scheduled,             \* pull work in the ordered local queue
    settlement             \* settleOnce: "open", "resolved", "failed"

command == <<ordered, limit>>
hubSide == <<hubCredits, sent>>
messages == <<hubResponse, ack, complete, ackAt, grant>>
account == <<active, credits, inFlight, pendingChunks, lastWindow>>
pullVars == <<command, hubSide, messages, arrived, applied, account, pullPhase, scheduled, settlement>>

Stages == {"none", "wire", "queued", "done"}
Open == settlement = "open"

PullInit ==
    /\ ordered \in BOOLEAN /\ limit \in Limits
    /\ hubCredits = 0 /\ sent = 0
    /\ hubResponse = "wire" /\ ack = "none" /\ complete = "none"
    /\ ackAt = 0 /\ grant = 0
    /\ arrived = 0 /\ applied = 0
    /\ active = FALSE /\ credits = 0 /\ inFlight = FALSE
    /\ pendingChunks = 0 /\ lastWindow = 0
    /\ pullPhase = "none" /\ scheduled = 0
    /\ settlement = "open"

QueueEmpty ==
    arrived = applied /\ hubResponse # "queued" /\ ack # "queued" /\ complete # "queued"

--------------------------------------------------------------------------------
(* The hub (external). It answers a pull with the window it grants; whether the
   grant replaces what is left of the previous one or adds to it is its choice. *)

HubAnswersPull ==
    /\ pullPhase = "asked"
    /\ pullPhase' = "waiting"
    /\ ack' = "wire" /\ ackAt' = sent
    /\ grant' \in 1..Window
    /\ hubCredits' \in {grant', hubCredits + grant'}
    /\ UNCHANGED <<command, sent, hubResponse, complete, arrived, applied, account,
                   scheduled, settlement>>

HubSendsChunk ==
    /\ hubCredits > 0 /\ sent < Total
    /\ sent' = sent + 1
    /\ hubCredits' = hubCredits - 1
    /\ UNCHANGED <<command, messages, arrived, applied, account, pullPhase, scheduled,
                   settlement>>

HubCompletes ==
    /\ sent = Total /\ complete = "none" /\ hubResponse # "none"
    /\ complete' = "wire"
    /\ UNCHANGED <<command, hubSide, hubResponse, ack, ackAt, grant, arrived, applied,
                   account, pullPhase, scheduled, settlement>>

--------------------------------------------------------------------------------
(* The credit account (streamAggregationState.ts, streamPullPrefetch.ts).   *)

\* recordChunkReceived
PendingAfterChunk_mut == pendingChunks
PendingAfterChunk == IF inFlight THEN pendingChunks + 1 ELSE pendingChunks
CreditsAfterChunk_mut == IF ~inFlight THEN credits - 1 ELSE credits
CreditsAfterChunk == IF ~inFlight /\ credits > 0 THEN credits - 1 ELSE credits

\* shouldPrefetchStreamPull: at most a quarter of the last window is left
PrefetchThreshold == IF lastWindow \div 4 > 1 THEN lastWindow \div 4 ELSE 1
ShouldPull(c) == c = 0 \/ (lastWindow > 0 /\ c <= PrefetchThreshold)

\* finishStreamPull: what is left of the window just granted
CreditsAfterGrant_mut == grant
CreditsAfterGrant == IF grant > pendingChunks THEN grant - pendingChunks ELSE 0
MustPullAgain_mut == FALSE
MustPullAgain == active /\ CreditsAfterGrant = 0

--------------------------------------------------------------------------------
(* The session.                                                            *)

\* canReceive() of the dispatcher: chunks retained and pending stay under the limit
CanReceive == arrived < limit

\* shouldSkipStreamPull, with the other early returns of requestNextStreamWindow
SkipPull_mut(act) == ~CanReceive \/ ~act
SkipPull(act) == ~CanReceive \/ ~act \/ inFlight

\* requestNextStreamWindow up to the pull request, or its early return
BeginPull(act) ==
    IF SkipPull(act) THEN UNCHANGED <<inFlight, pullPhase>>
    ELSE inFlight' = TRUE /\ pullPhase' = "asked"

\* cleanup() and settleOnce(): ordered work is cleared, frames in the decode queue are
\* cancelled, and a pull that waits for its answer is aborted (abortStreamPull).
DroppedOnSettle == applied

Settle(result) ==
    /\ settlement' = result
    /\ scheduled' = 0
    /\ arrived' = DroppedOnSettle
    /\ hubResponse' = IF hubResponse = "queued" THEN "none" ELSE hubResponse
    /\ ack' = IF ack = "queued" THEN "none" ELSE ack
    /\ IF pullPhase \in {"asked", "waiting"}
       THEN pullPhase' = "none" /\ inFlight' = FALSE
       ELSE UNCHANGED <<pullPhase, inFlight>>

--------------------------------------------------------------------------------
(* Arrival at the dispatcher.                                               *)

ArriveResponse ==
    /\ Open /\ hubResponse = "wire"
    /\ hubResponse' = "queued"
    /\ UNCHANGED <<command, hubSide, ack, complete, ackAt, grant, arrived, applied,
                   account, pullPhase, scheduled, settlement>>

\* The limit of receive(): one more chunk would exceed the command's share.
TooManyChunks == arrived + 1 > limit

NextIsChunk == arrived < sent /\ ~(ack = "wire" /\ arrived = ackAt)

ArriveChunk ==
    /\ Open /\ hubResponse # "wire" /\ NextIsChunk
    /\ ~TooManyChunks
    /\ arrived' = arrived + 1
    /\ UNCHANGED <<command, hubSide, messages, applied, account, pullPhase, scheduled,
                   settlement>>

\* ... it does: app:error to the owner fails the command.
ArriveTooMany ==
    /\ Open /\ hubResponse # "wire" /\ NextIsChunk
    /\ TooManyChunks
    /\ Settle("failed")
    /\ complete' = "none"
    /\ UNCHANGED <<command, hubSide, ackAt, grant, applied, active, credits,
                   pendingChunks, lastWindow>>

ArriveAck ==
    /\ Open
    /\ ack = "wire" /\ arrived = ackAt
    /\ IF ordered THEN ack' = "queued" /\ UNCHANGED pullPhase
       ELSE ack' = "done" /\ pullPhase' = "draining"
    /\ UNCHANGED <<command, hubSide, hubResponse, complete, ackAt, grant, arrived, applied,
                   account, scheduled, settlement>>

ArriveComplete ==
    /\ Open
    /\ complete = "wire" /\ arrived = sent /\ ack # "wire" /\ hubResponse # "wire"
    /\ complete' = "queued"
    /\ UNCHANGED <<command, hubSide, hubResponse, ack, ackAt, grant, arrived, applied,
                   account, pullPhase, scheduled, settlement>>

--------------------------------------------------------------------------------
(* Delivery by the decode queue, in order.                                  *)

\* handleCommandResponse of a streamed response: the first window is pulled.
ApplyResponse ==
    /\ Open /\ hubResponse = "queued"
    /\ hubResponse' = "done"
    /\ active' = TRUE
    /\ BeginPull(TRUE)
    /\ UNCHANGED <<command, hubSide, ack, complete, ackAt, grant, arrived, applied,
                   credits, pendingChunks, lastWindow, scheduled, settlement>>

NextToApply == applied < arrived /\ hubResponse = "done" /\ ~(ack = "queued" /\ applied = ackAt)

\* handleCommandStreamChunk: count the chunk, then schedule a pull if needed.
ApplyChunk ==
    /\ Open /\ NextToApply
    /\ applied' = applied + 1
    /\ pendingChunks' = PendingAfterChunk
    /\ credits' = CreditsAfterChunk
    /\ scheduled' = IF ~inFlight /\ ShouldPull(credits') THEN scheduled + 1 ELSE scheduled
    /\ UNCHANGED <<command, hubSide, messages, arrived, active, inFlight, lastWindow,
                   pullPhase, settlement>>

\* handlePullResponse of a pull response that took its place in the queue
ApplyAck ==
    /\ Open
    /\ ack = "queued" /\ applied = ackAt
    /\ ack' = "done" /\ pullPhase' = "draining"
    /\ UNCHANGED <<command, hubSide, hubResponse, complete, ackAt, grant, arrived, applied,
                   account, scheduled, settlement>>

\* The work schedulePullIfCreditsExhausted put on the ordered local queue.
RunScheduledPull ==
    /\ Open /\ scheduled > 0
    /\ scheduled' = scheduled - 1
    /\ BeginPull(active)
    /\ UNCHANGED <<command, hubSide, messages, arrived, applied, active, credits,
                   pendingChunks, lastWindow, settlement>>

\* wireSession.drain() and decodeQueue.drainOrderedWork() resolve; the code runs on
\* only in a later turn, when more chunks may have come.
DrainResolves ==
    /\ pullPhase = "draining"
    /\ QueueEmpty /\ scheduled = 0
    /\ pullPhase' = "drained"
    /\ UNCHANGED <<command, hubSide, messages, arrived, applied, account, scheduled,
                   settlement>>

\* The rest of requestNextStreamWindow: finishStreamPull and, when the window is used
\* up already, the next pull.
FinishPull ==
    /\ Open /\ pullPhase = "drained"
    /\ credits' = CreditsAfterGrant
    /\ lastWindow' = grant
    /\ pendingChunks' = 0
    /\ IF MustPullAgain /\ CanReceive
       THEN pullPhase' = "asked" /\ UNCHANGED inFlight
       ELSE pullPhase' = "none" /\ inFlight' = FALSE
    /\ ack' = "none"
    /\ UNCHANGED <<command, hubSide, hubResponse, complete, ackAt, grant, arrived, applied,
                   active, scheduled, settlement>>

\* ... or its return because the command settled meanwhile.
AbandonPull ==
    /\ ~Open /\ pullPhase = "drained"
    /\ pullPhase' = "none"
    /\ UNCHANGED <<command, hubSide, messages, arrived, applied, account, scheduled,
                   settlement>>

\* handleCommandStreamComplete: ordered behind every chunk and every scheduled pull.
CompleteReady_mut == complete = "queued" /\ ack # "queued"
CompleteReady == complete = "queued" /\ applied = arrived /\ ack # "queued" /\ scheduled = 0

ApplyComplete ==
    /\ Open /\ CompleteReady /\ hubResponse = "done"
    /\ complete' = "done"
    /\ Settle("resolved")
    /\ UNCHANGED <<command, hubSide, ackAt, grant, applied, active, credits,
                   pendingChunks, lastWindow>>

--------------------------------------------------------------------------------
(* Failures: a failed or malformed response, app:error, connect_error, disconnect,
   abort, a failed or late pull response, and the idle timer.                *)
\* settleOnce ignores every call but the first.
MaySettle == Open

StreamPullFails ==
    /\ Faults /\ MaySettle
    /\ Settle("failed")
    /\ complete' = "none"
    /\ UNCHANGED <<command, hubSide, ackAt, grant, applied, active, credits,
                   pendingChunks, lastWindow>>

HubStep == HubAnswersPull \/ HubSendsChunk \/ HubCompletes
Arrive == ArriveResponse \/ ArriveChunk \/ ArriveTooMany \/ ArriveAck \/ ArriveComplete
Apply == ApplyResponse \/ ApplyChunk \/ ApplyAck \/ ApplyComplete
PullStep == RunScheduledPull \/ DrainResolves \/ FinishPull \/ AbandonPull

PullNext == HubStep \/ Arrive \/ Apply \/ PullStep \/ StreamPullFails

\* The hub goes on serving the stream, the network delivers, and the event loop runs
\* every queued callback.
PullFairness == WF_pullVars(HubStep) /\ WF_pullVars(Arrive) /\ WF_pullVars(Apply) /\ WF_pullVars(PullStep)

PullSpec == PullInit /\ [][PullNext]_pullVars /\ PullFairness
--------------------------------------------------------------------------------
PullTypeOK ==
    /\ ordered \in BOOLEAN /\ limit \in Limits
    /\ hubCredits \in Nat /\ sent \in 0..Total
    /\ hubResponse \in Stages /\ ack \in Stages /\ complete \in Stages
    /\ ackAt \in 0..Total /\ grant \in 0..Window
    /\ arrived \in 0..Total /\ applied \in 0..Total
    /\ active \in BOOLEAN /\ credits \in Nat /\ inFlight \in BOOLEAN
    /\ pendingChunks \in Nat /\ lastWindow \in 0..Window
    /\ pullPhase \in {"none", "asked", "waiting", "draining", "drained"}
    /\ scheduled \in Nat
    /\ settlement \in {"open", "resolved", "failed"}

\* Chunks the hub may still send or has sent and the session has not counted.
Owed == hubCredits + (sent - applied)

\* The session never believes in more chunks than the hub still owes it: neither in
\* its credit balance nor in the balance the pull it is finishing will leave
\* (recordChunkReceived, finishStreamPull). Too high a balance would keep it from
\* pulling while the hub waits.
CreditsCovered ==
    Open => /\ ~inFlight => credits <= Owed
            /\ pullPhase \in {"waiting", "draining", "drained"} => grant - pendingChunks <= Owed

\* The stream never stalls with both sides waiting: when the hub may not send and
\* nothing is under way, a pull is under way too, unless the receive capacity of the
\* command is used up ("Pulls stop when receive capacity is exhausted").
BothWaiting ==
    /\ Open /\ hubResponse = "done" /\ sent < Total
    /\ hubCredits = 0 /\ sent = applied
    /\ pullPhase = "none" /\ scheduled = 0
NeverStalled == BothWaiting => ~CanReceive

\* A command resolves only with every chunk of the stream, each applied once, within
\* the limit.
NoPartialResult ==
    settlement = "resolved" => applied = Total /\ sent = Total /\ Total <= limit

\* Once the command has settled nothing of it is queued any more and no pull is
\* waiting for an answer.
SettledIsQuiet == ~Open => arrived = applied /\ scheduled = 0 /\ pullPhase \notin {"asked", "waiting"}

\* A pull is requested only when the one before it has been answered and accounted.
PullsNeverOverlap == [][pullPhase' = "asked" /\ pullPhase # "asked" => pullPhase \in {"none", "drained"}]_pullVars

\* A stream that fits the limit of the command is received to its end, or fails: it
\* never hangs until a timer ends it.
StreamEnds == <>(~Open \/ limit < Total)
================================================================================
