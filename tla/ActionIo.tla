-------------------------------- MODULE ActionIo --------------------------------
(***************************************************************************)
(* Actions with faithful input and output, and durable SQL operations:      *)
(* shared/n8n/actionIoExecution.ts and sqlExtensionExecution.ts send one    *)
(* command for each input item, one after the other, over REST, a socket or *)
(* a relay conversation (socket/actionIoConnection.ts, actionIoTransport.ts, *)
(* rest/actionIoTransport.ts) and check its answer (contracts/actionIo/,    *)
(* contracts/sqlOperation/).  Nothing is replayed: an error tells whether    *)
(* the command may have had effects, and the workflow reconciles.           *)
(*                                                                         *)
(* A plan is the items of several executions of the node; the workflow     *)
(* keeps the checkpoint of readIo between them.  The hub and the agent are *)
(* external: requests and answers may be lost or late, answers doubled or   *)
(* malformed.                                                              *)
(***************************************************************************)
EXTENDS Naturals, Sequences, FiniteSets, SequencesExt, Functions

CONSTANTS
    Plans,       \* what the workflow asks: [run, kind, channel] for each item
    Log,         \* the output of the action: [stream, bytes] for each event
    MaxBytes,    \* max_bytes of readIo
    MaxLosses    \* bound: connections that are lost

ASSUME ActionIoAssumption ==
    /\ Plans \subseteq Seq([run : Nat, kind : {"mutation", "read"},
                            channel : {"rest", "socket", "relay"}])
    /\ Log \in Seq([stream : {"stdout", "stderr"}, bytes : Nat \ {0}])
    /\ MaxBytes \in Nat /\ MaxLosses \in Nat

VARIABLES
    plan, continueOnFail,
    item,        \* item -> [pc, unknown]; unknown: outcome_unknown of its error
    asked,       \* item -> the checkpoint its readIo was given
    link,        \* channel -> the connection of the running execution
    run,         \* the execution that is running
    requests,    \* commands on their way to the agent
    ran,         \* item -> times the agent ran its command
    answers,     \* answers the hub may deliver, now or again
    checkpoint,  \* of the workflow: after_sequence and the offset of each stream
    transcript,  \* history: events of the log the workflow has taken
    losses

setting == <<plan, continueOnFail>>
agent == <<requests, ran, answers>>
workflow == <<checkpoint, transcript>>
vars == <<setting, item, asked, link, run, agent, workflow, losses>>

Items == DOMAIN plan
Channels == {"socket", "relay"}
Mutation(i) == plan[i].kind = "mutation"

Start == [after |-> 0, stdout |-> 0, stderr |-> 0]

\* pc: "queued"; "setup" waits for its connection; "unsent" for a writable engine; "sent"
\* for its answer; "done", "error", "skipped".  link: "none"; "connecting"; "starting" a
\* conversation; "open"; "down".
Init ==
    /\ plan \in Plans /\ continueOnFail \in BOOLEAN
    /\ item = [i \in Items |-> [pc |-> "queued", unknown |-> FALSE]]
    /\ asked = [i \in Items |-> Start]
    /\ link = [c \in Channels |-> "none"]
    /\ run = 1
    /\ requests = {} /\ ran = [i \in Items |-> 0] /\ answers = {}
    /\ checkpoint = Start /\ transcript = <<>> /\ losses = 0

--------------------------------------------------------------------------------
(* The item that is being executed.                                         *)

Ended(i) == item[i].pc \in {"done", "error", "skipped"}
Waiting(i) == item[i].pc \in {"unsent", "sent"}
Goes(i, where) == item' = [item EXCEPT ![i].pc = where]

\* Item i fails; without continueOnFail the rest of the execution is not begun.
Failed(i, unknown) ==
    item' = [k \in Items |->
        IF k = i THEN [pc |-> "error", unknown |-> unknown]
        ELSE IF ~continueOnFail /\ plan[k].run = run /\ item[k].pc = "queued"
        THEN [item[k] EXCEPT !.pc = "skipped"] ELSE item[k]]

\* The login fails, credentials are missing, or the node is set to be retried by n8n.
NotStarted ==
    LET own == {i \in Items : plan[i].run = run}
    IN  /\ own # {} /\ \A i \in own : item[i].pc = "queued"
        /\ item' = [i \in Items |-> IF i \in own THEN [item[i] EXCEPT !.pc = "skipped"] ELSE item[i]]
        /\ UNCHANGED <<setting, asked, link, run, agent, workflow, losses>>

Turn(i) ==
    /\ plan[i].run = run /\ item[i].pc = "queued"
    /\ \A k \in Items : k < i => Ended(k)

\* Parameters the schemas refuse, a command too large: nothing is dispatched.
Invalid(i) ==
    /\ Turn(i)
    /\ Failed(i, FALSE)
    /\ UNCHANGED <<setting, asked, link, run, agent, workflow, losses>>

\* The command leaves; for a mutation that is the point of no return.
Dispatched(i) == Goes(i, "sent") /\ requests' = requests \cup {i}

OverRest(i) ==
    /\ Turn(i) /\ plan[i].channel = "rest"
    /\ asked' = [asked EXCEPT ![i] = checkpoint]
    /\ Dispatched(i)
    /\ UNCHANGED <<setting, link, run, ran, answers, workflow, losses>>

\* One connection for each channel, kept until the execution ends.
OverSocket(i) ==
    LET c == plan[i].channel
    IN  /\ Turn(i) /\ c \in Channels
        /\ asked' = [asked EXCEPT ![i] = checkpoint]
        /\ CASE link[c] = "none" -> Goes(i, "setup") /\ link' = [link EXCEPT ![c] = "connecting"]
             [] link[c] = "open" -> Goes(i, "unsent") /\ UNCHANGED link
             [] link[c] = "down" -> Failed(i, FALSE) /\ UNCHANGED link
        /\ UNCHANGED <<setting, run, agent, workflow, losses>>

--------------------------------------------------------------------------------
(* openActionIoConnection                                                   *)

SettingUp(i) == item[i].pc = "setup"

\* connection:ready, and for a relay the conversation.
Ready(i) ==
    LET c == plan[i].channel
    IN  /\ SettingUp(i)
        /\ IF link[c] = "connecting" /\ c = "relay"
           THEN link' = [link EXCEPT ![c] = "starting"] /\ UNCHANGED item
           ELSE link' = [link EXCEPT ![c] = "open"] /\ Goes(i, "unsent")
        /\ UNCHANGED <<setting, asked, run, agent, workflow, losses>>

\* Refused, not an answer to this request, lost or late: the next item connects anew.
SetupFails(i) ==
    /\ SettingUp(i)
    /\ link' = [link EXCEPT ![plan[i].channel] = "none"]
    /\ Failed(i, FALSE)
    /\ UNCHANGED <<setting, asked, run, agent, workflow, losses>>

--------------------------------------------------------------------------------
(* The transport                                                            *)

\* flush: the engine is writable, and the first and only emission goes out.
Flush(i) ==
    /\ item[i].pc = "unsent" /\ link[plan[i].channel] = "open"
    /\ Dispatched(i)
    /\ UNCHANGED <<setting, asked, link, run, ran, answers, workflow, losses>>

\* What the transport says of the effects of a command it gives up.
MayHaveEffects_mut(i) == Mutation(i) /\ item[i].pc = "sent" /\ i \in requests
MayHaveEffects(i) == Mutation(i) /\ item[i].pc = "sent"

\* 30 s have passed, or the emission threw; over REST any failure of the fetch or its body.
Timed_mut(i) == item[i].pc = "sent"
Timed(i) == Waiting(i)

TimesOut(i) ==
    /\ Timed(i)
    /\ Failed(i, MayHaveEffects(i))
    /\ UNCHANGED <<setting, asked, link, run, agent, workflow, losses>>

OnChannel(c) == {i \in Items : Waiting(i) /\ plan[i].channel = c}

\* The socket is lost, or a frame arrives that is no PayloadFrame: all waiters fail.
FailAll(c) ==
    IF OnChannel(c) = {} THEN UNCHANGED item
    ELSE LET i == CHOOSE k \in OnChannel(c) : TRUE IN Failed(i, MayHaveEffects(i))

Lost(c) ==
    /\ link[c] = "open" /\ losses < MaxLosses
    /\ losses' = losses + 1
    /\ link' = [link EXCEPT ![c] = "down"]
    /\ FailAll(c)
    /\ UNCHANGED <<setting, asked, run, agent, workflow>>

\* Any answer, also to a command that was given up, may come as such a frame.
BadFrame(c) ==
    /\ link[c] = "open" /\ OnChannel(c) # {}
    /\ \E a \in answers : plan[a.to].channel = c
    /\ FailAll(c)
    /\ UNCHANGED <<setting, asked, link, run, agent, workflow, losses>>

--------------------------------------------------------------------------------
(* The pages of readIo.  An event of the log is known by its number and carries *)
(* the offset of its bytes in its stream.                                    *)

LogBytes(S) == SumFunctionOnSet([k \in DOMAIN Log |-> Log[k].bytes], S)
OffsetOf(n) == LogBytes({k \in 1..(n - 1) : Log[k].stream = Log[n].stream})
EndOf(n) == OffsetOf(n) + Log[n].bytes

\* A faulty agent or hub may leave out events, repeat them or answer for another checkpoint.
Pages == [events : UNION {[1..m -> DOMAIN Log] : m \in 0..Len(Log)}, next : 0..Len(Log)]

\* The places of a page that hold bytes of a stream, and what those of some places add up to.
OfStream(events, s) == {k \in DOMAIN events : Log[events[k]].stream = s}
PageBytes(events, places) == SumFunctionOnSet([k \in DOMAIN events |-> Log[events[k]].bytes], places)

\* The schema of a page: numbers increase, offsets of a stream are contiguous, the cursor is
\* the last event.
WellFormed(page) ==
    LET events == page.events IN
    /\ \A k \in 1..(Len(events) - 1) : events[k] < events[k + 1]
    /\ \A s \in {"stdout", "stderr"} : \A j, k \in OfStream(events, s) :
          j < k /\ OfStream(events, s) \intersect (j + 1)..(k - 1) = {}
            => OffsetOf(events[k]) = EndOf(events[j])
    /\ events # <<>> => page.next = Last(events)

\* matchesActionIoExpectation: what was asked for.
FollowsOn_mut(page, cp) ==
    /\ page.events = <<>> => page.next = cp.after
    /\ \A k \in 1..(Len(page.events) - 1) : page.events[k + 1] = page.events[k] + 1
FollowsOn(page, cp) ==
    /\ page.events = <<>> => page.next = cp.after
    /\ \A k \in DOMAIN page.events : page.events[k] = cp.after + k

InBudget(page) == PageBytes(page.events, DOMAIN page.events) <= MaxBytes

\* nextActionIoOffsets: each event continues the bytes of its stream, the workflow's and
\* those before it in the page.
Continues(page, cp) ==
    \A s \in {"stdout", "stderr"} : LET own == OfStream(page.events, s) IN
        \A k \in own :
            OffsetOf(page.events[k]) = cp[s] + PageBytes(page.events, {j \in own : j < k})

NextOffset(page, cp, s) == cp[s] + PageBytes(page.events, OfStream(page.events, s))

Accepts(page, cp) == WellFormed(page) /\ FollowsOn(page, cp) /\ InBudget(page) /\ Continues(page, cp)

--------------------------------------------------------------------------------
(* The hub and the agent                                                    *)

\* told: effects_possible of an error, "absent" when it says nothing.
Result == [body |-> "result", told |-> "absent"]
Malformed == [body |-> "malformed", told |-> "absent"]
Error(told) == [body |-> "error", told |-> told]

Answering(i, a) == answers' = answers \cup {[to |-> i, body |-> a.body, told |-> a.told]}

\* The agent runs the command and answers, or says nothing.
Runs(i) ==
    /\ i \in requests
    /\ requests' = requests \ {i}
    /\ ran' = [ran EXCEPT ![i] = @ + 1]
    /\ \/ \E a \in {Result, Malformed, Error("absent"), Error("possible")} : Answering(i, a)
       \/ UNCHANGED answers
    /\ UNCHANGED <<setting, item, asked, link, run, workflow, losses>>

\* The hub or the agent refuses it: only then may an error rule out effects.
Refuses(i) ==
    /\ i \in requests
    /\ requests' = requests \ {i}
    /\ \E told \in {"absent", "none"} : Answering(i, Error(told))
    /\ UNCHANGED <<setting, item, asked, link, run, ran, workflow, losses>>

--------------------------------------------------------------------------------
(* An answer arrives for a command that waits for it; others are ignored.    *)

\* An answer travels on the connection of its request; other answers are ignored.
Awaits(i, a) ==
    /\ a.to = i /\ item[i].pc = "sent"
    /\ plan[i].channel \in Channels => link[plan[i].channel] = "open"

\* Mutation or not, an error that rules effects out is believed.
ToldUnknown(i, a) == a.told = "possible" \/ (Mutation(i) /\ a.told # "none")

ErrorArrives(i, a) ==
    /\ Awaits(i, a) /\ a.body = "error"
    /\ Failed(i, ToldUnknown(i, a))
    /\ UNCHANGED <<setting, asked, link, run, agent, workflow, losses>>

\* Not the shape, the id or the identity that was asked for.
MalformedArrives(i, a) ==
    /\ Awaits(i, a) /\ a.body = "malformed"
    /\ Failed(i, Mutation(i))
    /\ UNCHANGED <<setting, asked, link, run, agent, workflow, losses>>

ResultArrives(i, a) ==
    /\ Awaits(i, a) /\ a.body = "result" /\ Mutation(i)
    /\ Goes(i, "done")
    /\ UNCHANGED <<setting, asked, link, run, agent, workflow, losses>>

PageArrives(i, a, page) ==
    /\ Awaits(i, a) /\ a.body = "result" /\ ~Mutation(i)
    /\ IF Accepts(page, asked[i])
       THEN /\ Goes(i, "done")
            /\ checkpoint' = [after |-> page.next,
                              stdout |-> NextOffset(page, asked[i], "stdout"),
                              stderr |-> NextOffset(page, asked[i], "stderr")]
            /\ transcript' = transcript \o page.events
       ELSE Failed(i, FALSE) /\ UNCHANGED workflow
    /\ UNCHANGED <<setting, asked, link, run, agent, losses>>

\* The execution has ended: its connections are disposed of, and the workflow goes on.
LinkAfter == [c \in Channels |-> "none"]
Returns ==
    /\ \E i \in Items : plan[i].run = run
    /\ \A i \in Items : plan[i].run = run => Ended(i)
    /\ run' = run + 1
    /\ link' = LinkAfter
    /\ UNCHANGED <<setting, item, asked, agent, workflow, losses>>

Own(i) == Invalid(i) \/ OverRest(i) \/ OverSocket(i) \/ SetupFails(i) \/ TimesOut(i)

Hub(i) ==
    \/ Runs(i) \/ Refuses(i)
    \/ \E a \in answers :
          \/ ErrorArrives(i, a) \/ MalformedArrives(i, a) \/ ResultArrives(i, a)
          \/ \E page \in Pages : PageArrives(i, a, page)

Next ==
    \/ \E i \in Items : Own(i) \/ Ready(i) \/ Flush(i) \/ Hub(i)
    \/ \E c \in Channels : Lost(c) \/ BadFrame(c)
    \/ NotStarted \/ Returns

\* Connecting and waiting have timers of 10 s and 30 s; nothing obliges the hub to answer
\* or the engine to become writable.
Fairness == WF_vars(\E i \in Items : Own(i)) /\ WF_vars(Returns)

Spec == Init /\ [][Next]_vars /\ Fairness
--------------------------------------------------------------------------------
TypeOK ==
    /\ item \in [Items -> [pc : {"queued", "setup", "unsent", "sent", "done", "error", "skipped"},
                           unknown : BOOLEAN]]
    /\ link \in [Channels -> {"none", "connecting", "starting", "open", "down"}]
    /\ run \in Nat /\ requests \subseteq Items /\ ran \in [Items -> Nat]
    /\ checkpoint \in [after : Nat, stdout : Nat, stderr : Nat]
    /\ transcript \in Seq(DOMAIN Log) /\ losses \in 0..MaxLosses

\* An error that rules effects out is true: the agent has not run the mutation and never
\* will, however late the request arrives and whatever was lost; and nothing is sent twice.
EffectsTold ==
    /\ TypeOK
    /\ \A i \in Items :
          /\ ran[i] + (IF i \in requests THEN 1 ELSE 0) <= 1
          /\ item[i].pc = "error" /\ Mutation(i) /\ ~item[i].unknown
                => ran[i] = 0 /\ i \notin requests
          /\ item[i].pc = "skipped" => ran[i] = 0 /\ i \notin requests

\* Executions are apart but for the checkpoint: what the workflow has read over all of them
\* is the output of the action from its start, without a gap and without an event twice, and
\* the checkpoint stands where that ends; no connection outlives its execution, a link being
\* up only while an item of the running execution has used its channel.
ExecutionsApart ==
    /\ transcript = [n \in 1..checkpoint.after |-> n]
    /\ \A s \in {"stdout", "stderr"} :
          checkpoint[s] = LogBytes({n \in 1..checkpoint.after : Log[n].stream = s})
    /\ \A c \in Channels :
          link[c] # "none" =>
              \E i \in Items : plan[i].run = run /\ plan[i].channel = c /\ item[i].pc # "queued"

\* Every item of the workflow comes to an end.
AllEnd == <>(\A i \in Items : Ended(i))

================================================================================
