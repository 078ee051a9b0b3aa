-------------------------- MODULE StreamedCommand ---------------------------
(***************************************************************************)
(* One command and the stream of its rows, over agents:command             *)
(* (consumerCommandSession.ts) or over the relay                           *)
(* (relayStreamAggregation.ts): the wait for the connection, the answer,   *)
(* the chunks that are merged into it or kept, the pulls that ask for more *)
(* (consumerCommandStreamPull.ts, streamPullSession.ts), and the one       *)
(* cleanup every end passes through.  The relay's connection, conversation *)
(* and batches are RelayCommand.                                           *)
(*                                                                         *)
(* Events reach the command in the order the hub sent them (DecodeQueue)   *)
(* and only its own or unnamed ones (SocketDispatcher); how many chunks a  *)
(* pull buys is StreamPull.  Here the hub sends any chunk after the stream *)
(* was pulled once.                                                        *)
(***************************************************************************)
EXTENDS Integers, FiniteSets, Sequences, SequencesExt

CONSTANTS
    MaxChunks,   \* chunks of a stream; odd ones hold rows, even ones none
    MaxWire,     \* events on their way at a time
    MaxAgain,    \* how often the hub repeats its answer
    WindowSizes, \* what a window may be configured, recommended or granted as
    MaxWindow,   \* relayMaxStreamPullWindowSize, maxConsumerStreamPullWindowSize
    Fallback     \* DEFAULT_CONSUMER_SOCKET_PULL_WINDOW

ASSUME StreamedCommandAssumption ==
    /\ MaxChunks \in Nat /\ MaxAgain \in Nat /\ MaxWire \in Nat \ {0}
    /\ MaxWindow \in Nat \ {0} /\ Fallback \in 1..MaxWindow
    /\ WindowSizes \subseteq Nat \ {0}

VARIABLES
    call,      \* how it was called, fixed: see CommandCalls
    stage,     \* "connecting", "decoding" the ready frame, "awaiting" the answer,
               \* "aggregating" a stream, "rejected" by its chunk handler, "settled"
    held,      \* what it holds: "waiters" on the connection, "route" in the dispatcher
               \* with its "listeners", "idleTimer", "abortListener"
    up,        \* transport.connected
    admitted,  \* the command may be answered: the relay has accepted it
    wire,      \* events on their way from the hub
    response,  \* normalizedResponse: "none", "plain", or "rows" that chunks are merged into
    merged,    \* rows merged into it: the chunks they came in
    kept,      \* chunkPayloads
    early,     \* the relay's pendingCompletePayload: the stream ended before its answer
    pull,      \* the window asked for and not yet answered, 0 if none
    pullKeys,  \* activePulls of the transport
    windows,   \* history: windows asked for and granted
    outcome,   \* "none", "failed", "answered", "streamed", "notified"
    agent      \* [answered, sent, completed]: history of the hub

link == <<stage, held, up, admitted, outcome>>
rows == <<response, merged, kept, early>>
asked == <<pull, pullKeys, windows>>
cvars == <<call, link, wire, rows, asked, agent>>

\* A recommendation counts only when nothing was configured.
CommandCalls ==
    {c \in [relay : BOOLEAN, aggregates : BOOLEAN, notifies : BOOLEAN, aborted : BOOLEAN,
     configured : WindowSizes \cup {0}, recommended : WindowSizes \cup {0},
     agentMax : WindowSizes \cup {0}] :
        /\ c.configured # 0 => c.recommended = 0
        /\ c.relay => ~c.notifies}

-----------------------------------------------------------------------------
(* The windows (streamPullWindowPolicy.ts).  0 stands for undefined.         *)
Least(a, b) == IF a < b THEN a ELSE b
\* What the agent declares is taken from wherever it put it, and clamped.
Hint(w) == Least(w, MaxWindow)
Ceiling(c) == IF c.agentMax = 0 THEN MaxWindow ELSE Hint(c.agentMax)
Preferred(c) ==
    IF c.configured # 0 THEN c.configured
    ELSE IF c.recommended # 0 THEN Hint(c.recommended) ELSE Fallback
EffectiveWindow(c) == Least(Preferred(c), Ceiling(c))
Granted(w) == Least(w, MaxWindow)

-----------------------------------------------------------------------------
CommandBegins ==
    /\ call \in CommandCalls
    /\ up \in (IF call.relay THEN {TRUE} ELSE BOOLEAN)
    /\ admitted \in (IF call.relay THEN BOOLEAN ELSE {TRUE})   \* TRUE: the fast path
    /\ stage = "connecting" /\ held = {"route"} /\ outcome = "none"
    /\ wire = <<>> /\ response = "none" /\ merged = <<>> /\ kept = <<>> /\ early = FALSE
    /\ pull = 0 /\ pullKeys = {} /\ windows = {}
    /\ agent = [answered |-> 0, sent |-> <<>>, completed |-> FALSE]

(* The cleanup: the pull is aborted, which frees its key; the dispatcher     *)
(* forgets the command; timer and listeners are gone.                        *)
PullKeysAfter_mut(k) == k
PullKeysAfter(k) == {}
CleanedUp(how) ==
    /\ stage' = "settled" /\ outcome' = how /\ held' = {}
    /\ wire' = <<>> /\ pull' = 0 /\ pullKeys' = PullKeysAfter(pullKeys)
    /\ UNCHANGED <<call, admitted, windows, agent>>
Ended(how) == CleanedUp(how) /\ UNCHANGED <<up, rows>>

-----------------------------------------------------------------------------
(* The connection.  A connected transport is used at once; else the wait has *)
(* a timer and listens to what may end it.                                   *)
StartsWait ==
    /\ stage = "connecting" /\ ~up /\ held = {"route"} /\ ~call.aborted
    /\ held' = held \cup {"waiters", "abortListener"}
    /\ UNCHANGED <<call, stage, up, admitted, outcome, wire, rows, asked, agent>>

(* The ready frame takes the listeners off before it is decoded, so that     *)
(* whatever is told meanwhile is told to nobody.                             *)
ReadyFrame ==
    /\ stage = "connecting" /\ "waiters" \in held
    /\ stage' = "decoding" /\ up' = TRUE /\ held' = {"route"}
    /\ UNCHANGED <<call, admitted, outcome, wire, rows, asked, agent>>

(* The ready frame does not decode; or the wait ends with an app:error, a    *)
(* connect_error, a disconnect, its abort or its timer.                      *)
ConnectionFails ==
    /\ \/ stage = "decoding"
       \/ stage = "connecting" /\ ("waiters" \in held \/ (~up /\ call.aborted))
    /\ Ended("failed")

(* Listeners, timer, and the command is sent.                                *)
MaySend == stage = "decoding" \/ (stage = "connecting" /\ up)
SendsCommand ==
    /\ MaySend /\ ~call.aborted
    /\ stage' = "awaiting" /\ held' = {"route", "listeners", "idleTimer", "abortListener"}
    /\ UNCHANGED <<call, up, admitted, outcome, wire, rows, asked, agent>>
AbortedBeforeSend == MaySend /\ call.aborted /\ Ended("failed")

(* An inner id of the command belongs to another pending one: emit throws.   *)
(* Inside the promise of agents:command only the dispatcher forgets the      *)
(* command then; timer and abort listener stay until the timer fires.        *)
SendRefused ==
    /\ MaySend /\ ~call.aborted
    /\ stage' = "settled" /\ outcome' = "failed"
    /\ held' = IF call.relay THEN {} ELSE {"idleTimer", "abortListener"}
    /\ UNCHANGED <<call, up, admitted, wire, rows, asked, agent>>
TimerOutlives ==
    /\ stage = "settled" /\ "idleTimer" \in held
    /\ held' = {}
    /\ UNCHANGED <<call, stage, up, admitted, outcome, wire, rows, asked, agent>>

-----------------------------------------------------------------------------
(* The hub.  It answers, perhaps again; it streams what it answered with a   *)
(* stream once that was pulled; it may send what is malformed, or of another *)
(* command.  A "mixed" answer opens a stream that cannot be merged.          *)
Openings == {"stream", "mixed"}
ConsumerAnswers == {"notification", "refusal"}
CommandAnswers == {"rows", "plain", "unfit", "foreign"} \cup ConsumerAnswers \cup Openings
Listens == stage \in {"awaiting", "aggregating", "rejected"}
Puts(m) ==
    /\ Listens /\ up /\ Len(wire) < MaxWire
    /\ wire' = Append(wire, m)
    /\ UNCHANGED <<call, link, rows, asked>>
HubResponds(a) ==
    /\ agent.answered <= MaxAgain /\ (agent.answered > 0 => a \in Openings)
    /\ call.relay => a \notin ConsumerAnswers
    /\ Puts([is |-> "answer", as |-> a])
    /\ agent' = [agent EXCEPT !.answered = @ + 1]
HubStreams(as) ==
    /\ Len(agent.sent) < MaxChunks /\ ~agent.completed
    /\ as = "ours" => windows # {}
    /\ LET n == Len(agent.sent) + 1 IN
        /\ Puts([is |-> "chunk", as |-> as, n |-> n])
        /\ agent' = IF as = "ours" THEN [agent EXCEPT !.sent = Append(@, n)] ELSE agent
HubEndsStream ==
    /\ ~agent.completed /\ (windows # {} \/ agent.sent = <<>>)
    /\ Puts([is |-> "complete", as |-> "ours"])
    /\ agent' = [agent EXCEPT !.completed = TRUE]
HubGrants(as, w) ==
    /\ pull # 0 /\ ~\E i \in DOMAIN wire : wire[i].is = "window"
    /\ Puts([is |-> "window", as |-> as, size |-> w])
    /\ UNCHANGED agent

(* The relay accepts the request or refuses it; what comes before waits. A   *)
(* refusal ends the command, and a chunk that waits for it rejects.          *)
Admits ==
    /\ Listens /\ ~admitted /\ admitted' = TRUE
    /\ UNCHANGED <<call, stage, held, up, outcome, wire, rows, asked, agent>>
NotAdmitted == Listens /\ call.relay /\ Ended("failed")

-----------------------------------------------------------------------------
(* handleCommandResponse, handleResponse: what is not ours is ignored, what  *)
(* is ours and unfit (shape, agent, type, identity, local limits) fails the  *)
(* command.                                                                  *)
NextIs(kind) ==
    Listens /\ stage # "rejected" /\ admitted /\ wire # <<>> /\ Head(wire).is = kind
TakesAnswer(a) == NextIs("answer") /\ Head(wire).as = a
Skip == wire' = Tail(wire) /\ UNCHANGED <<call, link, rows, asked, agent>>

ForeignAnswer == TakesAnswer("foreign") /\ Skip
UnfitAnswer ==
    /\ TakesAnswer("unfit") \/ (TakesAnswer("notification") /\ ~call.notifies)
    /\ Ended("failed")
RefusalAnswer == TakesAnswer("refusal") /\ Ended("failed")
Notified == TakesAnswer("notification") /\ call.notifies /\ Ended("notified")
WholeAnswer(a) ==
    /\ a \in {"rows", "plain"} /\ TakesAnswer(a)
    /\ CleanedUp("answered") /\ response' = a
    /\ UNCHANGED <<up, merged, kept, early>>

(* A stream opens.  A repeated answer starts with its own rows again.  A     *)
(* stream whose end came first ends at once.                                 *)
OpensStream(a) ==
    /\ a \in Openings /\ TakesAnswer(a)
    /\ response' = (IF a = "stream" THEN "rows" ELSE "plain") /\ merged' = <<>>
    /\ UNCHANGED <<up, kept>> /\ early' = FALSE
    /\ IF early THEN CleanedUp("streamed")
       ELSE /\ stage' = "aggregating" /\ wire' = Tail(wire)
            /\ UNCHANGED <<call, held, admitted, outcome, asked, agent>>

(* Chunks and completes: nothing is taken before the stream is known, nor of *)
(* another stream.                                                           *)
Ours(m) == m.as = "ours" /\ stage = "aggregating"
ComesEarly(m) == m.is = "complete" /\ call.relay /\ stage = "awaiting"
IgnoredItem ==
    /\ NextIs("chunk") \/ NextIs("complete")
    /\ Head(wire).as # "malformed" /\ ~Ours(Head(wire)) /\ ~ComesEarly(Head(wire))
    /\ Skip

(* A chunk that is malformed, or that overruns the limits once it is counted *)
(* in, is thrown to the queue of the connection (applySocketDecodeInOrder),  *)
(* which takes nothing more and tells the command, as all others on it       *)
(* (SocketDispatcher!HandlerRejects).                                        *)
MalformedItem ==
    /\ NextIs("chunk") /\ Head(wire).as = "malformed"
    /\ stage' = "rejected" /\ wire' = Tail(wire)
    /\ UNCHANGED <<call, held, up, admitted, outcome, rows, asked, agent>>
QueueFails == stage = "rejected" /\ Ended("failed")

(* Rows are merged into the response when the caller wants one; a chunk that *)
(* has none, or that finds no rows to join, is kept as it is.                *)
Merges(n) == call.aggregates /\ response = "rows" /\ n % 2 = 1
KeptAfter_mut(n) == Append(kept, n)
KeptAfter(n) == IF Merges(n) THEN kept ELSE Append(kept, n)
CountsChunk ==
    /\ NextIs("chunk") /\ Ours(Head(wire))
    /\ LET n == Head(wire).n IN
        /\ merged' = IF Merges(n) THEN Append(merged, n) ELSE merged
        /\ kept' = KeptAfter(n)
    /\ wire' = Tail(wire)
    /\ UNCHANGED <<call, held, up, admitted, outcome, response, early, asked, agent>>
TakesChunk == CountsChunk /\ UNCHANGED stage
ChunkOverLimit == CountsChunk /\ stage' = "rejected"
TakesComplete == NextIs("complete") /\ Ours(Head(wire)) /\ Ended("streamed")
TakesEarlyComplete ==
    /\ NextIs("complete") /\ ComesEarly(Head(wire))
    /\ early' = TRUE /\ wire' = Tail(wire)
    /\ UNCHANGED <<call, link, response, merged, kept, asked, agent>>

-----------------------------------------------------------------------------
(* A pull.  Its key is the request and the stream, one here.                 *)
PullBegins ==
    /\ stage = "aggregating" /\ admitted /\ pull = 0 /\ pullKeys = {}
    /\ pull' = EffectiveWindow(call) /\ pullKeys' = {"stream"}
    /\ windows' = windows \cup {EffectiveWindow(call)}
    /\ UNCHANGED <<call, link, wire, rows, agent>>

(* The window granted; the answer to another pull is ignored; a refusal and  *)
(* what is malformed fail the command.                                       *)
PullGranted ==
    /\ NextIs("window") /\ Head(wire).as = "granted"
    /\ pull' = 0 /\ pullKeys' = {} /\ wire' = Tail(wire)
    /\ windows' = windows \cup {Granted(Head(wire).size)}
    /\ UNCHANGED <<call, link, rows, agent>>
PullIgnored == NextIs("window") /\ Head(wire).as = "another" /\ Skip
PullFailed == NextIs("window") /\ Head(wire).as = "refused" /\ Ended("failed")
PullTimesOut == Listens /\ pull # 0 /\ Ended("failed")

-----------------------------------------------------------------------------
(* What ends a command at any time: app:error, connect_error or the abort of *)
(* the caller; the idle timer; the loss of the connection, which nobody      *)
(* hears of while the ready frame is decoded.                                *)
CommandInterrupted == Listens /\ Ended("failed")
IdleTimeout == Listens /\ Ended("failed")
LinkLost ==
    /\ up /\ Listens
    /\ CleanedUp("failed") /\ up' = FALSE /\ UNCHANGED rows
LinkLostUnheard ==
    /\ up /\ stage = "decoding"
    /\ up' = FALSE
    /\ UNCHANGED <<call, stage, held, admitted, outcome, wire, rows, asked, agent>>

CommandSteps ==
    \/ StartsWait \/ ReadyFrame \/ ConnectionFails \/ SendsCommand \/ AbortedBeforeSend
    \/ SendRefused \/ TimerOutlives \/ HubEndsStream \/ Admits \/ NotAdmitted
    \/ \E as \in {"ours", "another", "malformed"} : HubStreams(as)
    \/ \E as \in {"granted", "another", "refused"} : \E w \in WindowSizes : HubGrants(as, w)
    \/ ForeignAnswer \/ UnfitAnswer \/ RefusalAnswer \/ Notified
    \/ \E a \in CommandAnswers : HubResponds(a) \/ WholeAnswer(a) \/ OpensStream(a)
    \/ IgnoredItem \/ MalformedItem \/ TakesChunk \/ ChunkOverLimit \/ QueueFails \/ TakesComplete
    \/ TakesEarlyComplete
    \/ PullBegins \/ PullGranted \/ PullIgnored \/ PullFailed \/ PullTimesOut
    \/ CommandInterrupted \/ IdleTimeout \/ LinkLost \/ LinkLostUnheard

(* Timers fire, and the ready frame is decoded.                              *)
CommandFairness ==
    /\ WF_cvars(StartsWait)
    /\ WF_cvars(ConnectionFails \/ SendsCommand \/ AbortedBeforeSend)
    /\ WF_cvars(IdleTimeout) /\ WF_cvars(TimerOutlives)

-----------------------------------------------------------------------------
(* Properties.                                                               *)

CommandTypeOK ==
    /\ call \in CommandCalls /\ {up, admitted, early} \subseteq BOOLEAN
    /\ stage \in {"connecting", "decoding", "awaiting", "aggregating", "rejected", "settled"}
    /\ held \subseteq {"waiters", "route", "listeners", "idleTimer", "abortListener"}
    /\ outcome \in {"none", "failed", "answered", "streamed", "notified"}
    /\ (outcome # "none") <=> (stage = "settled")

(* A streamed command returns all the hub sent of its stream, each chunk     *)
(* once, in rows or as a chunk, and each part in the order it was sent       *)
(* (consumerCommandSession.ts:569), unless the hub answered twice.           *)
RowsOnce ==
    outcome = "streamed" /\ agent.answered = 1 =>
        /\ ToSet(merged) \cup ToSet(kept) = 1..Len(agent.sent)
        /\ Len(merged) + Len(kept) = Len(agent.sent)
        /\ \A s \in {merged, kept} : \A i, j \in DOMAIN s : i < j => s[i] < s[j]

(* No window is asked for that the agent did not allow, and no answer makes  *)
(* one the protocol does not know (streamPullWindowPolicy.ts:118).           *)
WindowsLawful ==
    /\ \A w \in windows : w \in 1..MaxWindow
    /\ pull # 0 /\ call.agentMax # 0 => pull <= call.agentMax

(* The answer of a stream is whole and its windows are lawful.                *)
StreamLawful == RowsOnce /\ WindowsLawful

(* Whatever ends a command, its id, its listeners and the key of its pull    *)
(* are free for the next one on the same connection; only the idle timer may *)
(* be left for a while, when the send was refused.                           *)
NothingHeld ==
    /\ CommandTypeOK
    /\ stage = "settled" =>
          /\ pullKeys = {} /\ wire = <<>>
          /\ held \cap {"waiters", "route", "listeners"} = {}
    /\ stage # "settled" => (pullKeys # {} <=> pull # 0)
=============================================================================
