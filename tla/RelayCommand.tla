---------------------------- MODULE RelayCommand ----------------------------
(***************************************************************************)
(* One relay command, single (relaySession.ts) or a batch of items         *)
(* (relayBatchSession.ts), from the connection to the end of its           *)
(* conversation.  Items are accepted, refused, answered, streamed and time *)
(* out one by one; an answer may overtake the acceptance that tells which  *)
(* item it answers; the first failure ends the command for all its items.  *)
(*                                                                         *)
(* Control events are handled when they arrive; answers pass the ordered   *)
(* decode of the dispatcher, "decoding" here (SocketDispatcher and         *)
(* DecodeQueue).  The stream of an item is taken by its outcome            *)
(* (StreamPull).  An item is named by its JSON-RPC id and by the hub's id  *)
(* alike: telling one id from another is SocketDispatcher's subject.       *)
(***************************************************************************)
EXTENDS Integers, FiniteSets, Sequences, SequencesExt

CONSTANTS
    Items,      \* the JSON-RPC commands a batch may hold
    MaxAnswers, \* how often the hub may answer an item: bounds duplicates
    None,       \* nothing known, no result
    Failed      \* the command threw

\* A response holds rows, opens a stream, fails the checks made once all are there
\* (local limits, agent and request identity), or does not decode or has no id.
Answers == {"rows", "stream", "oversize", "invalid"}
Verdicts == {"accepted", "refused", "omitted"}
Results(S) == [S -> {"answered", "refused"}]

ASSUME RelayCommandAssumption ==
    /\ Items # {} /\ IsFiniteSet(Items) /\ MaxAnswers \in Nat \ {0}
    /\ None # Failed /\ None \notin Answers \cup Verdicts
    /\ None \notin [Items -> Verdicts \cup {None}]
    /\ \A S \in SUBSET Items : None \notin Results(S) /\ Failed \notin Results(S)

VARIABLES
    cmd,       \* how the command was called, fixed: see Calls
    phase,     \* what it awaits: see Phases
    conv,      \* conversationId: does the session know one
    accepted,  \* the acceptance: None, or per item what it said
    pending,   \* items with a response waiter and its timer
    buffered,  \* early responses, kept until the acceptance asks for them
    answer,    \* the response each item was resolved with
    streaming, \* items whose stream is being aggregated
    pulling,   \* items whose stream waits for the answer to a pull
    keys,      \* activePullKeys of the transport: pulls nobody may repeat
    decoding,  \* responses on their way through the ordered decode
    connected, \* the transport
    hub,       \* [conv, asked, item, sent]: its side of the conversation, what it
               \* was asked to start, its verdict on each item, answers it sent
    result     \* None, Failed, or per item its result

vars == <<cmd, phase, conv, accepted, pending, buffered, answer, streaming, pulling, keys,
          decoding, connected, hub, result>>

Phases == {"connecting", "starting", "encoding", "waiting", "finishing", "done"}
Calls ==
    {c \in [items : (SUBSET Items) \ {{}}, batch : BOOLEAN, fast : BOOLEAN,
            managed : BOOLEAN, reused : BOOLEAN, keep : BOOLEAN] :
        /\ ~c.batch => Cardinality(c.items) = 1
        /\ c.reused => c.managed}

Nothing == [i \in Items |-> None]
Init ==
    /\ cmd \in Calls
    /\ connected \in (IF cmd.managed THEN BOOLEAN ELSE {FALSE})
    /\ cmd.reused => connected
    /\ phase = "connecting" /\ conv = cmd.reused
    /\ accepted = None /\ pending = {} /\ buffered = Nothing /\ answer = Nothing
    /\ streaming = {} /\ pulling = {} /\ keys = {} /\ decoding = <<>> /\ result = None
    /\ hub = [conv |-> IF cmd.reused THEN "open" ELSE "none", asked |-> FALSE,
              item |-> Nothing, sent |-> [i \in Items |-> 0]]

-----------------------------------------------------------------------------
(* A pull session that is disposed rejects its pull and frees the key.       *)
PullsEnd(S) == pulling' = pulling \ S /\ keys' = keys \ (pulling \cap S)

(* The end.  The finally blocks: the conversation is ended unless the caller *)
(* keeps it and the command succeeded, a private transport is closed, what   *)
(* is still awaited is aborted and the dispatcher forgets the command.       *)
EndsConversation_mut(ok) == conv /\ ~cmd.keep
EndsConversation(ok) == conv /\ ~(cmd.keep /\ ok)
Finally(ok, outcome) ==
    /\ phase' = "done" /\ result' = outcome
    /\ connected' = (connected /\ cmd.managed)
    /\ hub' = [hub EXCEPT !.conv =
                  IF hub.conv = "open" /\ (EndsConversation(ok) \/ ~connected')
                  THEN "ended" ELSE @]
    /\ pending' = {} /\ buffered' = Nothing /\ decoding' = <<>>
    /\ streaming' = {} /\ PullsEnd(Items)
Fails == Finally(FALSE, Failed) /\ UNCHANGED <<cmd, conv, accepted, answer>>

(* An item's result: what it answered, or the refusal it was accepted with,  *)
(* also when the acceptance does not mention it.                             *)
ItemResult(i, said) ==
    IF said # None /\ said[i] # "accepted" THEN "refused" ELSE "answered"

(* All awaited responses are there: each is checked, and the streams they    *)
(* open are aggregated side by side while the other responses wait in rest.  *)
Finish(got, said, rest) ==
    LET opened == {i \in cmd.items : got[i] = "stream"} IN
    /\ answer' = got
    /\ IF \E i \in cmd.items : got[i] = "oversize"
       THEN Finally(FALSE, Failed)
       ELSE IF opened = {}
       THEN Finally(TRUE, [i \in cmd.items |-> ItemResult(i, said)])
       ELSE /\ phase' = "finishing" /\ streaming' = opened /\ decoding' = rest
            /\ pending' = {} /\ buffered' = Nothing
            /\ UNCHANGED <<result, connected, hub, pulling, keys>>

-----------------------------------------------------------------------------
(* The connection and the conversation.                                      *)
Started == IF conv THEN "encoding" ELSE "starting"
Ready ==
    /\ phase = "connecting"
    /\ connected' = TRUE
    /\ phase' = Started
    /\ hub' = [hub EXCEPT !.asked = ~conv]
    /\ UNCHANGED <<cmd, conv, accepted, pending, buffered, answer, streaming, pulling, keys, decoding, result>>
ConnectFails == phase = "connecting" /\ Fails

(* The hub opens the conversation it was asked for, perhaps only when nobody *)
(* waits for it any more.                                                    *)
HubStarts ==
    /\ hub.asked /\ hub.conv = "none" /\ connected
    /\ hub' = [hub EXCEPT !.conv = "open", !.asked = FALSE]
    /\ IF phase = "starting"
       THEN conv' = TRUE /\ phase' = "encoding"
       ELSE UNCHANGED <<conv, phase>>
    /\ UNCHANGED <<cmd, accepted, pending, buffered, answer, streaming, pulling, keys, decoding,
                   connected, result>>
StartFails == phase = "starting" /\ Fails

(* The request is encoded and sent; every listener is attached before.  On   *)
(* the fast path no acceptance is awaited.                                   *)
Send ==
    /\ phase = "encoding"
    /\ phase' = "waiting"
    /\ pending' = IF cmd.fast \/ ~cmd.batch THEN cmd.items ELSE {}
    /\ UNCHANGED <<cmd, conv, accepted, buffered, answer, streaming, pulling, keys, decoding, connected,
                   hub, result>>
SendFails == phase = "encoding" /\ Fails

-----------------------------------------------------------------------------
(* The hub's verdict on the items.  A single command is accepted or not.     *)
Requested == phase \in {"waiting", "finishing", "done"} /\ hub.conv = "open" /\ connected
Awaited(said) == {i \in cmd.items : said[i] = "accepted"}

HubDecides ==
    /\ Requested /\ phase = "waiting" /\ hub.item = Nothing
    /\ \E said \in [cmd.items -> Verdicts] :
          /\ ~cmd.batch => \A i \in cmd.items : said[i] = "accepted"
          \* on the fast path a refused item answers with its error
          /\ cmd.fast => \A i \in cmd.items : said[i] = "accepted"
          /\ hub' = [hub EXCEPT !.item = [i \in Items |-> IF i \in cmd.items THEN said[i] ELSE None]]
    /\ UNCHANGED <<cmd, phase, conv, accepted, pending, buffered, answer, streaming, pulling, keys,
                   decoding, connected, result>>

\* Items whose response was buffered before the acceptance told of them.
Early_mut(said) == {}
Early(said) == {i \in Awaited(said) : buffered[i] # None}

(* The acceptance arrives.  A batch resolves the waiters whose response is   *)
(* buffered, arms the others, and is complete when none is left.             *)
AcceptArrives ==
    /\ phase = "waiting" /\ ~cmd.fast /\ accepted = None /\ hub.item # Nothing
    /\ accepted' = hub.item
    /\ IF ~cmd.batch
       THEN UNCHANGED <<phase, pending, buffered, answer, streaming, pulling, keys, decoding, connected,
                        hub, result>>
       ELSE LET early == Early(hub.item)
                got == [i \in Items |-> IF i \in early THEN buffered[i] ELSE None]
            IN  IF early = Awaited(hub.item)
                THEN Finish(got, hub.item, decoding)
                ELSE /\ pending' = Awaited(hub.item) \ early
                     /\ answer' = got
                     /\ buffered' = [i \in Items |-> IF i \in early THEN None ELSE buffered[i]]
                     /\ UNCHANGED <<phase, streaming, pulling, keys, decoding, connected, hub, result>>
    /\ UNCHANGED <<cmd, conv>>

(* The whole request is refused.                                             *)
RefusalArrives == phase = "waiting" /\ accepted = None /\ hub.item = Nothing /\ Fails

(* The hub answers an accepted item, even before its acceptance is seen, and *)
(* perhaps again; after the end nobody listens.                              *)
HubAnswers(i) ==
    /\ Requested /\ hub.item[i] = "accepted" /\ hub.sent[i] < MaxAnswers
    /\ hub' = [hub EXCEPT !.sent[i] = @ + 1]
    /\ \E a \in Answers :
          decoding' = IF phase = "done" THEN decoding ELSE Append(decoding, [item |-> i, is |-> a])
    /\ UNCHANGED <<cmd, phase, conv, accepted, pending, buffered, answer, streaming, pulling, keys,
                   connected, result>>

(* A response is handed over in order.  The handler of a single command      *)
(* holds the order until the command was accepted; a batch resolves the      *)
(* waiter, or buffers the response while there is room for one per command.  *)
Room == Cardinality({i \in Items : buffered[i] # None}) < Cardinality(cmd.items)
ResponseArrives ==
    /\ phase = "waiting" /\ decoding # <<>>
    /\ cmd.batch \/ cmd.fast \/ accepted # None
    /\ LET m == Head(decoding)
           got == [answer EXCEPT ![m.item] = m.is]
       IN
       IF m.is = "invalid"
       THEN Finally(FALSE, Failed) /\ UNCHANGED answer
       ELSE IF pending = {m.item}
       THEN Finish(got, accepted, Tail(decoding))
       ELSE /\ IF m.item \in pending
               THEN pending' = pending \ {m.item} /\ answer' = got /\ UNCHANGED buffered
               ELSE /\ buffered' = IF Room THEN [buffered EXCEPT ![m.item] = m.is] ELSE buffered
                    /\ UNCHANGED <<pending, answer>>
            /\ decoding' = Tail(decoding)
            /\ UNCHANGED <<phase, streaming, pulling, keys, connected, hub, result>>
    /\ UNCHANGED <<cmd, conv, accepted>>

(* While streams are aggregated the response listener of a batch is off.     *)
ResponseIgnored ==
    /\ phase = "finishing" /\ decoding # <<>>
    /\ decoding' = Tail(decoding)
    /\ UNCHANGED <<cmd, phase, conv, accepted, pending, buffered, answer, streaming, pulling, keys,
                   connected, hub, result>>

(* A stream asks for more and waits for the answer (streamPullSession.ts); a *)
(* pull that is already pending on the transport is refused, which fails the *)
(* stream.  An answer names its stream; a refusal need not, and then fails   *)
(* every pull that waits.                                                    *)
Pull(i) ==
    /\ phase = "finishing" /\ i \in streaming \ pulling /\ i \notin keys
    /\ pulling' = pulling \cup {i} /\ keys' = keys \cup {i}
    /\ UNCHANGED <<cmd, phase, conv, accepted, pending, buffered, answer, streaming,
                   decoding, connected, hub, result>>
PullAnswered(i) ==
    /\ phase = "finishing" /\ i \in pulling
    /\ PullsEnd({i})
    /\ UNCHANGED <<cmd, phase, conv, accepted, pending, buffered, answer, streaming,
                   decoding, connected, hub, result>>
PullFails == phase = "finishing" /\ pulling # {} /\ Fails

(* Streams end one by one; the last one completes the command.               *)
StreamCompletes(i) ==
    /\ phase = "finishing" /\ i \in streaming
    /\ IF streaming = {i}
       THEN Finally(TRUE, [j \in cmd.items |-> ItemResult(j, accepted)])
       ELSE /\ streaming' = streaming \ {i} /\ PullsEnd({i})
            /\ UNCHANGED <<phase, result, connected, hub, pending, buffered, decoding>>
    /\ UNCHANGED <<cmd, conv, accepted, answer>>

-----------------------------------------------------------------------------
(* Timers and failures.  Every wait has a timer of its own.                  *)
AcceptTimeout == phase = "waiting" /\ ~cmd.fast /\ accepted = None /\ Fails
ItemTimeout_mut == phase = "waiting" /\ ~cmd.fast /\ pending # {} /\ Fails
ItemTimeout == phase = "waiting" /\ pending # {} /\ Fails
StreamFails == phase = "finishing" /\ Fails

(* app:error or the caller's abort.                                          *)
Interrupted == phase # "done" /\ Fails

(* The connection is lost: the hub ends its conversations.                   *)
Disconnect ==
    /\ connected
    /\ IF phase = "done"
       THEN UNCHANGED <<phase, result, pending, buffered, decoding, streaming, pulling, keys>>
       ELSE /\ phase' = "done" /\ result' = Failed
            /\ pending' = {} /\ buffered' = Nothing /\ decoding' = <<>>
            /\ streaming' = {} /\ PullsEnd(Items)
    /\ connected' = FALSE
    /\ hub' = [hub EXCEPT !.asked = FALSE, !.conv = IF @ = "open" THEN "ended" ELSE @]
    /\ UNCHANGED <<cmd, conv, accepted, answer>>

Next ==
    \/ Ready \/ ConnectFails \/ HubStarts \/ StartFails \/ Send \/ SendFails
    \/ HubDecides \/ AcceptArrives \/ RefusalArrives
    \/ \E i \in Items : HubAnswers(i) \/ Pull(i) \/ PullAnswered(i) \/ StreamCompletes(i)
    \/ ResponseArrives \/ ResponseIgnored \/ PullFails
    \/ AcceptTimeout \/ ItemTimeout \/ StreamFails \/ Interrupted \/ Disconnect

(* Only what the session does by itself is fair: its timers fire and the     *)
(* encoder returns.  Nothing is assumed of the hub.                          *)
Fairness ==
    /\ WF_vars(ConnectFails) /\ WF_vars(StartFails)
    /\ WF_vars(Send \/ SendFails)
    /\ WF_vars(AcceptTimeout) /\ WF_vars(ItemTimeout) /\ WF_vars(StreamFails)

Spec == Init /\ [][Next]_vars /\ Fairness

-----------------------------------------------------------------------------
(* Properties.                                                               *)

TypeOK ==
    /\ cmd \in Calls /\ phase \in Phases /\ {conv, connected} \subseteq BOOLEAN
    /\ accepted \in {None} \cup [Items -> Verdicts \cup {None}]
    /\ pending \subseteq cmd.items /\ streaming \subseteq cmd.items
    /\ {buffered, answer} \subseteq [Items -> Answers \cup {None}]
    /\ hub.conv \in {"none", "open", "ended"}
    /\ (result # None) <=> (phase = "done")

(* However acceptance, early, repeated and late responses interleave, no     *)
(* response is lost: while the command waits, what the hub answered is still *)
(* being decoded, is buffered, or resolved its item, and nobody waits for    *)
(* something that is already buffered (relayBatchSession.ts:380).  A command *)
(* that returns, returns for every item what the hub did with it: answered   *)
(* only when it was accepted and its response passed the checks, refused     *)
(* only when it was not accepted, and a failure of one item is never dressed *)
(* up as a result for some of them (relayBatchSession.ts:798).               *)
AnswersKept ==
    /\ TypeOK
    /\ phase = "waiting" =>
        /\ \A i \in cmd.items : hub.sent[i] > 0 =>
              \/ answer[i] # None \/ buffered[i] # None
              \/ \E n \in DOMAIN decoding : decoding[n].item = i
        /\ \A i \in pending : buffered[i] = None
        /\ (cmd.fast \/ accepted # None) => pending # {}
    /\ result \notin {None, Failed} => \A i \in cmd.items :
            IF hub.item[i] = "accepted"
            THEN result[i] = "answered" /\ answer[i] \in {"rows", "stream"}
            ELSE result[i] = "refused" /\ answer[i] = None

(* What the hub keeps open afterwards is what the caller will use again: the *)
(* conversation of a command that failed is ended, whichever item failed it  *)
(* and whatever the others were doing, unless the hub opened it only after   *)
(* the command had given up; that of a successful one stays exactly when it  *)
(* was asked to be kept (relaySession.ts:337, relayBatchSession.ts:798).     *)
ConversationFate ==
    phase = "done" /\ hub.conv = "open" =>
        /\ cmd.managed
        /\ result = Failed => ~conv
        /\ result # Failed => cmd.keep

(* No pull outlives what it was for: only streams under way hold a key, so   *)
(* that a timeout, an abort or a failure elsewhere that settles a command    *)
(* while a pull waits for its answer does not bar a later pull               *)
(* (socketSessionLifecycle.ts:36).                                           *)
PullsReleased == keys = pulling /\ pulling \subseteq streaming

(* Every command ends, though the hub may never answer at all: there is no   *)
(* wait without a timer.                                                     *)
CommandEnds == <>(phase = "done")
=============================================================================
