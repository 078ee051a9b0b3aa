----------------------------- MODULE Streams_proofs -----------------------------
(*****************************************************************************)
(* Proofs about StreamPull, for every stream length, window and limit; and   *)
(* about RelayCommand and StreamedCommand, for any set of items, any number  *)
(* of answers, chunks and repetitions, and any window sizes.                 *)
(*****************************************************************************)
EXTENDS StreamPull, MCSocketCommand, FiniteSetTheorems, SequenceTheorems, TLAPS

--------------------------------------------------------------------------------
(* The account of pull credits.                                            *)

\* The order of the counters and of the messages that travel with the chunks.
Counters ==
    /\ applied <= arrived /\ arrived <= sent /\ arrived <= limit
    /\ complete # "none" => sent = Total
    /\ Open /\ complete \in {"queued", "done"} => arrived = sent
    /\ hubResponse = "done" /\ Open => active

\* A pull is in flight exactly from the request to finishStreamPull, and its response
\* is under way only while it is waited for.
PullFlag ==
    Open => /\ inFlight <=> pullPhase # "none"
            /\ ack \in {"wire", "queued"} => pullPhase = "waiting"

\* With no pull under way and none scheduled, credits are left.
CreditsOrPull ==
    Open /\ active /\ ~inFlight /\ scheduled = 0 /\ CanReceive => credits > 0

IInv ==
    /\ PullTypeOK
    /\ Counters
    /\ PullFlag
    /\ CreditsOrPull
    /\ CreditsCovered
    /\ NoPartialResult
    /\ SettledIsQuiet

\* A command that was just sent, with nothing pulled and nothing received.
LEMMA InitIInv == PullInit => IInv
<1> SUFFICES ASSUME PullInit PROVE IInv
  OBVIOUS
<1> USE StreamPullAssumption
    DEF IInv, PullTypeOK, Counters, PullFlag, CreditsOrPull, CreditsCovered, NoPartialResult,
        SettledIsQuiet, Open, Stages, Owed, CanReceive, command, PullInit
<1>1. active \in BOOLEAN /\ inFlight \in BOOLEAN
  OBVIOUS
<1>2. PullTypeOK
  BY <1>1
<1>3. Counters /\ NoPartialResult
  OBVIOUS
<1>4. PullFlag /\ SettledIsQuiet
  OBVIOUS
<1>5. CreditsCovered
  OBVIOUS
<1>6. CreditsOrPull
  OBVIOUS
<1> QED
  BY <1>1, <1>2, <1>3, <1>4, <1>5, <1>6

\* One lemma per group of actions; the conjuncts an action does not touch follow
\* from its UNCHANGED clause. First the hub: a granted window covers what the session
\* will count on, and a chunk sent only moves from the window to the wire.
LEMMA HubKeeps == IInv /\ HubStep => IInv'
<1> SUFFICES ASSUME IInv, HubStep PROVE IInv'
  OBVIOUS
<1> USE StreamPullAssumption
    DEF IInv, PullTypeOK, Counters, PullFlag, CreditsOrPull, CreditsCovered, NoPartialResult,
        SettledIsQuiet, Open, Stages, Owed, CanReceive, command
<1>1. CASE HubAnswersPull
<2> USE <1>1 DEF HubAnswersPull, account
<2>1. active' \in BOOLEAN /\ inFlight' \in BOOLEAN
  OBVIOUS
<2>2. PICK g \in 1..Window : grant' = g /\ hubCredits' \in {g, hubCredits + g}
  OBVIOUS
<2>3. hubCredits' \in Nat /\ g <= hubCredits'
  BY <2>2
<2>4. PullTypeOK'
  BY <2>1, <2>2, <2>3
<2>5. Counters' /\ NoPartialResult' /\ PullFlag' /\ SettledIsQuiet'
  OBVIOUS
<2>6. grant' - pendingChunks' <= Owed'
<3>1. CASE hubCredits' = g
  BY <2>2, <3>1
<3>2. CASE hubCredits' = hubCredits + g
  BY <2>2, <3>2
<3> QED
  BY <2>2, <3>1, <3>2
<2>7. Open' => inFlight'
  OBVIOUS
<2>8. CreditsCovered'
  BY <2>6, <2>7, Zenon
<2>9. CreditsOrPull'
  OBVIOUS
<2> QED
  BY <2>4, <2>5, <2>8, <2>9
<1>2. CASE HubSendsChunk
  BY <1>2 DEF HubSendsChunk, account, messages
<1>3. CASE HubCompletes
  BY <1>3 DEF HubCompletes, account, hubSide
<1> QED
  BY <1>1, <1>2, <1>3 DEF HubStep

\* The dispatcher: a frame enters the decode queue, or exceeds the limit and fails the
\* command.
LEMMA ArriveKeeps == IInv /\ Arrive => IInv'
<1> SUFFICES ASSUME IInv, Arrive PROVE IInv'
  OBVIOUS
<1> USE StreamPullAssumption
    DEF IInv, PullTypeOK, Counters, PullFlag, CreditsOrPull, CreditsCovered, NoPartialResult,
        SettledIsQuiet, Open, Stages, Owed, CanReceive, command
<1>1. CASE ArriveResponse
  BY <1>1 DEF ArriveResponse, account, hubSide
<1>2. CASE ArriveChunk
  BY <1>2 DEF ArriveChunk, NextIsChunk, TooManyChunks, account, messages, hubSide
<1>3. CASE ArriveTooMany
<2> USE <1>3 DEF ArriveTooMany, Settle, DroppedOnSettle, hubSide
<2>1. active' \in BOOLEAN /\ inFlight' \in BOOLEAN
  OBVIOUS
<2>2. PullTypeOK'
  BY <2>1
<2>3. Counters' /\ NoPartialResult'
  OBVIOUS
<2>4. PullFlag' /\ SettledIsQuiet'
  OBVIOUS
<2>5. CreditsCovered'
  OBVIOUS
<2>6. CreditsOrPull'
  OBVIOUS
<2> QED
  BY <2>1, <2>2, <2>3, <2>4, <2>5, <2>6
<1>4. CASE ArriveAck
<2> USE <1>4 DEF ArriveAck, account, hubSide
<2>1. active' \in BOOLEAN /\ inFlight' \in BOOLEAN
  OBVIOUS
<2>2. PullTypeOK'
  BY <2>1
<2>3. Counters' /\ NoPartialResult'
  OBVIOUS
<2>4. PullFlag' /\ SettledIsQuiet'
  OBVIOUS
<2>5. CreditsCovered'
  OBVIOUS
<2>6. CreditsOrPull'
  OBVIOUS
<2> QED
  BY <2>1, <2>2, <2>3, <2>4, <2>5, <2>6
<1>5. CASE ArriveComplete
  BY <1>5 DEF ArriveComplete, account, hubSide
<1> QED
  BY <1>1, <1>2, <1>3, <1>4, <1>5 DEF Arrive

\* The decode queue delivers to the session: a chunk is charged to the old balance or
\* to the window under way, and a completion settles only behind everything else.
LEMMA ApplyKeeps == IInv /\ Apply => IInv'
<1> SUFFICES ASSUME IInv, Apply PROVE IInv'
  OBVIOUS
<1> USE StreamPullAssumption
    DEF IInv, PullTypeOK, Counters, PullFlag, CreditsOrPull, CreditsCovered, NoPartialResult,
        SettledIsQuiet, Open, Stages, Owed, CanReceive, command
<1>1. CASE ApplyResponse
  BY <1>1 DEF ApplyResponse, BeginPull, SkipPull, hubSide
<1>2. CASE ApplyChunk
  BY <1>2 DEF ApplyChunk, NextToApply, PendingAfterChunk, CreditsAfterChunk, ShouldPull,
              messages, hubSide
<1>3. CASE ApplyAck
<2> USE <1>3 DEF ApplyAck, account, hubSide
<2>1. active' \in BOOLEAN /\ inFlight' \in BOOLEAN
  OBVIOUS
<2>2. PullTypeOK'
  BY <2>1
<2>3. Counters' /\ NoPartialResult'
  OBVIOUS
<2>4. PullFlag' /\ SettledIsQuiet'
  OBVIOUS
<2>5. CreditsCovered'
  OBVIOUS
<2>6. CreditsOrPull'
  OBVIOUS
<2> QED
  BY <2>1, <2>2, <2>3, <2>4, <2>5, <2>6
<1>4. CASE ApplyComplete
  BY <1>4 DEF ApplyComplete, CompleteReady, Settle, DroppedOnSettle, hubSide
<1> QED
  BY <1>1, <1>2, <1>3, <1>4 DEF Apply

\* requestNextStreamWindow from the scheduled work to finishStreamPull.
LEMMA PullStepKeeps == IInv /\ PullStep => IInv'
<1> SUFFICES ASSUME IInv, PullStep PROVE IInv'
  OBVIOUS
<1> USE StreamPullAssumption
    DEF IInv, PullTypeOK, Counters, PullFlag, CreditsOrPull, CreditsCovered, NoPartialResult,
        SettledIsQuiet, Open, Stages, Owed, CanReceive, command
<1>1. CASE RunScheduledPull
<2> USE <1>1 DEF RunScheduledPull, BeginPull, SkipPull, messages, hubSide
<2>1. active' \in BOOLEAN /\ inFlight' \in BOOLEAN
  OBVIOUS
<2>2. PullTypeOK'
  BY <2>1
<2>3. Counters' /\ NoPartialResult'
  OBVIOUS
<2>4. PullFlag' /\ SettledIsQuiet'
  OBVIOUS
<2>5. CreditsCovered'
  OBVIOUS
<2>6. CreditsOrPull'
  OBVIOUS
<2> QED
  BY <2>1, <2>2, <2>3, <2>4, <2>5, <2>6
<1>2. CASE DrainResolves
  BY <1>2 DEF DrainResolves, account, messages, hubSide
<1>3. CASE FinishPull
<2> USE <1>3 DEF FinishPull, CreditsAfterGrant, MustPullAgain, hubSide
<2>1. active' \in BOOLEAN /\ inFlight' \in BOOLEAN
  OBVIOUS
<2>2. credits' \in Nat /\ credits' <= Owed'
<3>1. CASE grant > pendingChunks
  BY <3>1
<3>2. CASE ~(grant > pendingChunks)
  BY <3>2
<3> QED
  BY <3>1, <3>2
<2>3. PullTypeOK'
  BY <2>1, <2>2
<2>4. Counters' /\ NoPartialResult'
  OBVIOUS
<2>5. PullFlag' /\ SettledIsQuiet'
  OBVIOUS
<2>6. CreditsCovered'
  BY <2>2
<2>7. CreditsOrPull'
<3>1. CASE grant > pendingChunks
  BY <3>1
<3>2. CASE ~(grant > pendingChunks)
  BY <3>2
<3> QED
  BY <3>1, <3>2
<2> QED
  BY <2>3, <2>4, <2>5, <2>6, <2>7
<1>4. CASE AbandonPull
  BY <1>4 DEF AbandonPull, account, messages, hubSide
<1> QED
  BY <1>1, <1>2, <1>3, <1>4 DEF PullStep

\* settleOnce with an error, at any moment.
LEMMA StreamPullFailsKeeps == IInv /\ StreamPullFails => IInv'
<1> SUFFICES ASSUME IInv, StreamPullFails PROVE IInv'
  OBVIOUS
<1> USE StreamPullAssumption
    DEF IInv, PullTypeOK, Counters, PullFlag, CreditsOrPull, CreditsCovered, NoPartialResult,
        SettledIsQuiet, Open, Stages, Owed, CanReceive, command, StreamPullFails,
        MaySettle, Settle, DroppedOnSettle, hubSide
<1>1. active' \in BOOLEAN /\ inFlight' \in BOOLEAN
  OBVIOUS
<1>2. PullTypeOK'
  BY <1>1
<1>3. Counters' /\ NoPartialResult'
  OBVIOUS
<1>4. PullFlag' /\ SettledIsQuiet'
  OBVIOUS
<1>5. CreditsCovered'
  OBVIOUS
<1>6. CreditsOrPull'
  OBVIOUS
<1> QED
  BY <1>1, <1>2, <1>3, <1>4, <1>5, <1>6

\* A step that changes nothing keeps the invariant.
LEMMA StutterKeeps == IInv /\ UNCHANGED pullVars => IInv'
  BY DEF IInv, PullTypeOK, Counters, PullFlag, CreditsOrPull, CreditsCovered, NoPartialResult,
         SettledIsQuiet, Open, Stages, Owed, CanReceive, command, pullVars, hubSide, messages, account

\* The credit account, its messages and the pull in flight stay consistent for every
\* stream length, window size, limit and order of the pull responses.
THEOREM Invariance == PullSpec => []IInv
<1>1. IInv /\ [PullNext]_pullVars => IInv'
  BY HubKeeps, ArriveKeeps, ApplyKeeps, PullStepKeeps, StreamPullFailsKeeps, StutterKeeps DEF PullNext
<1> QED
  BY InitIInv, <1>1, PTL DEF PullSpec

\* Every variable keeps its type (the module's type invariant).
THEOREM TypeCorrect == PullSpec => []PullTypeOK
<1>1. IInv => PullTypeOK
  BY DEF IInv
<1> QED
  BY Invariance, <1>1, PTL

\* The session never counts on more chunks than the hub owes it, whatever windows the
\* hub grants and whether they add up or replace each other.
THEOREM CreditSafety == PullSpec => []CreditsCovered
<1>1. IInv => CreditsCovered
  BY DEF IInv
<1> QED
  BY Invariance, <1>1, PTL

\* Hub and session are never both waiting while receive capacity is left.
THEOREM NoStall == PullSpec => []NeverStalled
<1>1. IInv => NeverStalled
  BY StreamPullAssumption
     DEF IInv, PullTypeOK, Counters, PullFlag, CreditsOrPull, CreditsCovered, NeverStalled,
         BothWaiting, Open, Stages, Owed, CanReceive, command
<1> QED
  BY Invariance, <1>1, PTL

\* A resolved command holds the whole stream.
THEOREM WholeStream == PullSpec => []NoPartialResult
<1>1. IInv => NoPartialResult
  BY DEF IInv
<1> QED
  BY Invariance, <1>1, PTL

\* A pull is requested only when none is waiting for its answer, whatever work is
\* scheduled meanwhile (shouldSkipStreamPull).
THEOREM OnePullAtATime == PullSpec => PullsNeverOverlap
<1>1. IInv /\ [PullNext]_pullVars
      => [pullPhase' = "asked" /\ pullPhase # "asked" => pullPhase \in {"none", "drained"}]_pullVars
<2> SUFFICES ASSUME IInv, [PullNext]_pullVars, pullPhase' = "asked", pullPhase # "asked"
             PROVE pullPhase \in {"none", "drained"}
  OBVIOUS
<2>1. pullPhase' # pullPhase
  OBVIOUS
<2>2. CASE ApplyResponse
  BY <2>2, <2>1 DEF ApplyResponse, BeginPull, SkipPull, IInv, PullFlag
<2>3. CASE RunScheduledPull
  BY <2>3, <2>1 DEF RunScheduledPull, BeginPull, SkipPull, IInv, PullFlag
<2>4. CASE FinishPull
  BY <2>4 DEF FinishPull
<2>5. ~(HubStep \/ ArriveResponse \/ ArriveChunk \/ ArriveAck \/ ArriveComplete)
  BY <2>1 DEF HubStep, HubAnswersPull, HubSendsChunk, HubCompletes, ArriveResponse,
              ArriveChunk, ArriveAck, ArriveComplete
<2>6. ~(ArriveTooMany \/ StreamPullFails \/ ApplyComplete)
  BY <2>1 DEF ArriveTooMany, StreamPullFails, ApplyComplete, Settle
<2>7. ~(ApplyChunk \/ ApplyAck \/ DrainResolves \/ AbandonPull \/ UNCHANGED pullVars)
  BY <2>1 DEF ApplyChunk, ApplyAck, DrainResolves, AbandonPull, pullVars
<2> QED
  BY <2>2, <2>3, <2>4, <2>5, <2>6, <2>7 DEF PullNext, HubStep, Arrive, Apply, PullStep
<1> QED
  BY Invariance, <1>1, PTL DEF PullsNeverOverlap, PullSpec

\* Whatever arrives or resolves after the command settled (a late pull response, a
\* drain, more chunks) finds nothing of it queued and no pull that waits (cleanup).
THEOREM QuietOnceSettled == PullSpec => []SettledIsQuiet
<1>1. IInv => SettledIsQuiet
  BY DEF IInv
<1> QED
  BY Invariance, <1>1, PTL

--------------------------------------------------------------------------------
(* The commands of the sockets.                                            *)

\* The hub's side and what is on its way have their types.
Response == [item : Items, is : Answers]
HubTypes ==
    /\ hub \in [conv : {"none", "open", "ended"}, asked : BOOLEAN,
                item : [Items -> Verdicts \cup {None}], sent : [Items -> Nat]]
    /\ decoding \in Seq(Response)

\* A command under way is connected, from its request on it has a conversation that is
\* open, and what it keeps connected afterwards is not its own transport.
Connection ==
    /\ phase \notin {"connecting", "done"} => connected
    /\ phase \in {"encoding", "waiting", "finishing"} => conv /\ hub.conv = "open"
    /\ phase = "done" /\ connected => cmd.managed
    /\ hub.asked => ~conv /\ phase \in {"starting", "done"}
    /\ result \notin {None, Failed} => conv
    /\ phase = "connecting" => (hub.conv = "open" <=> conv)

\* Before the request is sent nothing was said about it, and streams come last.
Unsent ==
    /\ phase \in {"connecting", "starting", "encoding"} =>
        /\ accepted = None /\ pending = {} /\ decoding = <<>>
        /\ buffered = Nothing /\ answer = Nothing /\ hub.item = Nothing
        /\ \A i \in Items : hub.sent[i] = 0
    /\ phase # "finishing" => streaming = {}

\* The hub decides on every item of the command and no other, and the acceptance says
\* what it decided.
HubSays ==
    /\ hub.item = Nothing \/ \A i \in Items : (hub.item[i] # None <=> i \in cmd.items)
    /\ cmd.fast \/ ~cmd.batch => \A i \in Items : hub.item[i] \in {"accepted", None}
    /\ accepted # None => accepted = hub.item /\ hub.item # Nothing

\* Only items that were accepted are answered.
OnlyAccepted ==
    /\ \A i \in Items : hub.sent[i] > 0 \/ answer[i] # None \/ buffered[i] # None
            => hub.item[i] = "accepted"
    /\ \A n \in DOMAIN decoding : hub.item[decoding[n].item] = "accepted"
    /\ \A i \in Items : answer[i] # "invalid" /\ buffered[i] # "invalid"

\* While the command waits, every item it still expects an answer of has a waiter.
Waits ==
    phase = "waiting" =>
        /\ \A i \in cmd.items : hub.sent[i] > 0 =>
              \/ answer[i] # None \/ buffered[i] # None
              \/ \E n \in DOMAIN decoding : decoding[n].item = i
        /\ \A i \in pending : buffered[i] = None /\ answer[i] = None
        /\ cmd.fast \/ ~cmd.batch => \A i \in cmd.items : i \in pending \/ answer[i] # None
        /\ accepted # None => \A i \in Awaited(hub.item) : i \in pending \/ answer[i] # None
        /\ cmd.fast \/ ~cmd.batch \/ accepted # None => pending # {}
        /\ cmd.batch /\ ~cmd.fast /\ accepted = None => pending = {} /\ answer = Nothing
        /\ cmd.batch /\ ~cmd.fast /\ accepted # None => \A i \in pending : hub.item[i] = "accepted"

\* While its streams are aggregated every item has its verdict and its response.
Finishes ==
    phase = "finishing" =>
        \A i \in cmd.items :
            /\ hub.item[i] = "accepted" => answer[i] \in {"rows", "stream"}
            /\ hub.item[i] # "accepted" => answer[i] = None /\ accepted # None

\* What a command returned.
Returned ==
    result \notin {None, Failed} => \A i \in cmd.items :
        IF hub.item[i] = "accepted"
        THEN result[i] = "answered" /\ answer[i] \in {"rows", "stream"}
        ELSE result[i] = "refused" /\ answer[i] = None

RInv ==
    /\ TypeOK
    /\ HubTypes
    /\ Connection
    /\ ConversationFate
    /\ Unsent
    /\ HubSays
    /\ OnlyAccepted
    /\ Waits
    /\ Finishes
    /\ Returned
    /\ PullsReleased

--------------------------------------------------------------------------------
\* What the type says, in pieces.
LEMMA RelayTypes ==
    ASSUME TypeOK
    PROVE  /\ cmd.items \in SUBSET Items /\ cmd.items # {}
           /\ cmd.batch \in BOOLEAN /\ cmd.fast \in BOOLEAN /\ cmd.managed \in BOOLEAN
           /\ cmd.reused \in BOOLEAN /\ cmd.keep \in BOOLEAN
           /\ ~cmd.batch => Cardinality(cmd.items) = 1
           /\ cmd.reused => cmd.managed
           /\ phase \in Phases /\ conv \in BOOLEAN /\ connected \in BOOLEAN
           /\ accepted \in {None} \cup [Items -> Verdicts \cup {None}]
           /\ pending \in SUBSET cmd.items /\ streaming \in SUBSET cmd.items
           /\ buffered \in [Items -> Answers \cup {None}]
           /\ answer \in [Items -> Answers \cup {None}]
           /\ result # None <=> phase = "done"
<1>1. cmd \in [items : (SUBSET Items) \ {{}}, batch : BOOLEAN, fast : BOOLEAN,
               managed : BOOLEAN, reused : BOOLEAN, keep : BOOLEAN]
  BY DEF TypeOK, Calls
<1>2. (~cmd.batch => Cardinality(cmd.items) = 1) /\ (cmd.reused => cmd.managed)
  BY DEF TypeOK, Calls
<1>3. QED BY <1>1, <1>2 DEF TypeOK

\* The constants: None is no verdict, no response, no acceptance and no result.
LEMMA NoneApart ==
    /\ None \notin Answers /\ None \notin Verdicts /\ None # Failed
    /\ Nothing \in [Items -> {None}] /\ \A i \in Items : Nothing[i] = None
    /\ None # "accepted" /\ None # "oversize" /\ None # "invalid" /\ None # "stream"
    /\ None # "rows"
    /\ Nothing # None
  BY RelayCommandAssumption DEF Nothing, Answers, Verdicts

\* An item that has a verdict is one of the command.
LEMMA VerdictsOfItems ==
    ASSUME RInv, NEW i \in Items, hub.item[i] = "accepted"
    PROVE  i \in cmd.items
  BY NoneApart DEF RInv, HubSays, HubTypes

\* However a command ends, by the finally blocks, everything holds that held before,
\* when its upshot is a failure or says what the hub did with every item.
LEMMA FinallyKeeps ==
    ASSUME RInv, phase # "done", NEW ok \in BOOLEAN, NEW upshot, Finally(ok, upshot),
           cmd' = cmd /\ conv' = conv,
           accepted' = accepted \/ (accepted' = hub.item /\ hub.item # Nothing),
           answer' \in [Items -> Answers \cup {None}],
           \A i \in Items : /\ answer'[i] # None => hub.item[i] = "accepted"
                            /\ answer'[i] # "invalid",
           upshot # None, upshot = Failed <=> ~ok,
           ok => conv /\ connected,
           ok => \A i \in cmd.items :
              IF hub.item[i] = "accepted"
              THEN upshot[i] = "answered" /\ answer'[i] \in {"rows", "stream"}
              ELSE upshot[i] = "refused" /\ answer'[i] = None
    PROVE  RInv'
<1>1. /\ hub'.item = hub.item /\ hub'.sent = hub.sent /\ hub'.asked = hub.asked
      /\ hub'.conv = (IF hub.conv = "open" /\ (EndsConversation(ok) \/ ~connected')
                      THEN "ended" ELSE hub.conv)
      /\ hub' \in [conv : {"none", "open", "ended"}, asked : BOOLEAN,
                   item : [Items -> Verdicts \cup {None}], sent : [Items -> Nat]]
  BY DEF RInv, HubTypes, Finally
<1>2. /\ phase' = "done" /\ result' = upshot /\ connected' = (connected /\ cmd.managed)
      /\ pending' = {} /\ buffered' = Nothing /\ decoding' = <<>> /\ streaming' = {}
      /\ pulling' = pulling \ Items /\ keys' = keys \ (pulling \cap Items)
  BY DEF Finally, PullsEnd
<1>3. cmd.managed \in BOOLEAN /\ connected \in BOOLEAN /\ cmd.keep \in BOOLEAN
      /\ pulling \subseteq Items /\ keys = pulling
  BY RelayTypes DEF RInv, PullsReleased
<1>4. TypeOK'
  <2>1. connected' \in BOOLEAN BY <1>2, <1>3
  <2>2. buffered' \in [Items -> Answers \cup {None}] BY <1>2 DEF Nothing
  <2>3. cmd' \in Calls /\ conv' \in BOOLEAN
        /\ accepted' \in {None} \cup [Items -> Verdicts \cup {None}] BY DEF RInv, TypeOK, HubTypes
  <2>4. hub'.conv \in {"none", "open", "ended"} BY <1>1
  <2>5. QED BY <1>2, <2>1, <2>2, <2>3, <2>4 DEF TypeOK, Phases
<1>5. HubTypes'
  BY <1>1, <1>2, EmptySeq DEF HubTypes
<1>6. Connection'
  <2>1. phase' = "done" /\ connected' => cmd'.managed BY <1>2, <1>3
  <2>2. hub'.asked => ~conv' BY <1>1 DEF RInv, Connection
  <2>3. result' \notin {None, Failed} => conv' BY <1>2
  <2>4. QED BY <1>2, <2>1, <2>2, <2>3 DEF Connection
<1>7. ConversationFate'
  <2>1. SUFFICES ASSUME hub'.conv = "open"
                 PROVE  cmd.managed /\ (upshot = Failed => ~conv) /\ (upshot # Failed => cmd.keep)
    BY <1>2 DEF ConversationFate
  <2>2. ~EndsConversation(ok) /\ connected' BY <1>1, <2>1
  <2>3. QED BY <2>2, <1>2, <1>3 DEF EndsConversation
<1>8. Unsent' BY <1>2 DEF Unsent
<1>9. HubSays' BY <1>1, <1>2 DEF RInv, HubSays
<1>10. OnlyAccepted'
  BY <1>1, <1>2, NoneApart DEF RInv, OnlyAccepted
<1>11. Waits' /\ Finishes' BY <1>2 DEF Waits, Finishes
<1>12. Returned' BY <1>1, <1>2 DEF Returned
<1>13. PullsReleased'
  BY <1>2, <1>3 DEF PullsReleased
<1>14. QED BY <1>4, <1>5, <1>6, <1>7, <1>8, <1>9, <1>10, <1>11, <1>12, <1>13 DEF RInv

\* A command that fails.
LEMMA FailsKeeps ==
    ASSUME RInv, phase # "done", Fails
    PROVE  RInv'
<1>1. answer' \in [Items -> Answers \cup {None}] BY RelayTypes DEF RInv, Fails
<1>2. \A i \in Items : (answer'[i] # None => hub.item[i] = "accepted") /\ answer'[i] # "invalid"
  BY DEF RInv, OnlyAccepted, Fails
<1>3. Finally(FALSE, Failed) /\ cmd' = cmd /\ conv' = conv /\ accepted' = accepted BY DEF Fails
<1>4. accepted' = accepted \/ (accepted' = hub.item /\ hub.item # Nothing) BY <1>3
<1>5. QED BY <1>1, <1>2, <1>3, <1>4, NoneApart, FinallyKeeps

\* The last response is there: the command ends with it, or aggregates the streams.
LEMMA FinishKeeps ==
    ASSUME RInv, phase = "waiting", NEW got, NEW said, NEW rest, Finish(got, said, rest),
           cmd' = cmd /\ conv' = conv, accepted' = said, said = accepted \/ said = hub.item,
           said # None => said = hub.item /\ hub.item # Nothing,
           got \in [Items -> Answers \cup {None}], rest \in Seq(Response),
           \A n \in DOMAIN rest : hub.item[rest[n].item] = "accepted",
           \A i \in Items : got[i] # None => hub.item[i] = "accepted" /\ got[i] # "invalid",
           \A i \in cmd.items : hub.item[i] = "accepted" => got[i] # None,
           said = None => \A i \in cmd.items : hub.item[i] = "accepted"
    PROVE  RInv'
<1> DEFINE opened == {i \in cmd.items : got[i] = "stream"}
<1>0. /\ answer' = got
      /\ accepted' = accepted \/ (accepted' = hub.item /\ hub.item # Nothing)
      /\ got \in [Items -> Answers \cup {None}]
      /\ \A i \in Items : (got[i] # None => hub.item[i] = "accepted") /\ got[i] # "invalid"
      /\ conv /\ connected /\ cmd.items \subseteq Items
  BY RelayTypes, NoneApart DEF Finish, RInv, Connection
<1>1. CASE \E i \in cmd.items : got[i] = "oversize"
  <2>1. Finally(FALSE, Failed) BY <1>1 DEF Finish
  <2>2. /\ answer' \in [Items -> Answers \cup {None}]
        /\ \A i \in Items : (answer'[i] # None => hub.item[i] = "accepted")
                            /\ answer'[i] # "invalid" BY <1>0
  <2>3. phase # "done" BY DEF RInv
  <2>4. accepted' = accepted \/ (accepted' = hub.item /\ hub.item # Nothing) BY <1>0
  <2>5. QED BY <2>1, <2>2, <2>3, <2>4, NoneApart, FinallyKeeps
<1>2. CASE (\A i \in cmd.items : got[i] # "oversize") /\ opened = {}
  <2> DEFINE upshot == [i \in cmd.items |-> ItemResult(i, said)]
  <2>1. Finally(TRUE, upshot) BY <1>2 DEF Finish
  <2>2. upshot \in Results(cmd.items) BY DEF Results, ItemResult
  <2>3. upshot # None /\ upshot # Failed BY <2>2, <1>0, RelayCommandAssumption
  <2>4. ASSUME NEW i \in cmd.items
        PROVE  IF hub.item[i] = "accepted"
               THEN upshot[i] = "answered" /\ got[i] \in {"rows", "stream"}
               ELSE upshot[i] = "refused" /\ got[i] = None
    <3>1. CASE hub.item[i] = "accepted"
      <4>1. got[i] \in Answers \cup {None} /\ got[i] # None /\ got[i] # "oversize"
            /\ got[i] # "invalid" BY <3>1, <1>0, <1>2
      <4>2. upshot[i] = "answered" BY <3>1 DEF ItemResult
      <4>3. QED BY <3>1, <4>1, <4>2 DEF Answers
    <3>2. CASE hub.item[i] # "accepted"
      <4>1. said # None /\ said[i] # "accepted" BY <3>2
      <4>2. upshot[i] = "refused" BY <4>1 DEF ItemResult
      <4>3. got[i] = None BY <3>2, <1>0
      <4>4. QED BY <3>2, <4>2, <4>3
    <3>3. QED BY <3>1, <3>2
  <2> HIDE DEF upshot
  <2>5. /\ answer' \in [Items -> Answers \cup {None}]
        /\ \A i \in Items : (answer'[i] # None => hub.item[i] = "accepted")
                            /\ answer'[i] # "invalid" BY <1>0
  <2>6. \A i \in cmd.items :
              IF hub.item[i] = "accepted"
              THEN upshot[i] = "answered" /\ answer'[i] \in {"rows", "stream"}
              ELSE upshot[i] = "refused" /\ answer'[i] = None BY <2>4, <1>0
  <2>7. phase # "done" /\ conv /\ connected BY <1>0 DEF RInv
  <2>8. accepted' = accepted \/ (accepted' = hub.item /\ hub.item # Nothing) BY <1>0
  <2>9. QED BY <2>1, <2>3, <2>5, <2>6, <2>7, <2>8, FinallyKeeps
<1>3. CASE (\A i \in cmd.items : got[i] # "oversize") /\ opened # {}
  <2>1. /\ phase' = "finishing" /\ streaming' = opened /\ decoding' = rest
        /\ pending' = {} /\ buffered' = Nothing /\ answer' = got
        /\ UNCHANGED <<result, connected, hub, pulling, keys>> BY <1>3 DEF Finish
  <2>2. TypeOK'
    <3>1. buffered' \in [Items -> Answers \cup {None}] BY <2>1 DEF Nothing
    <3>2. accepted' \in {None} \cup [Items -> Verdicts \cup {None}]
      BY <1>0 DEF RInv, TypeOK, HubTypes
    <3>3. result' = None BY <2>1 DEF RInv, TypeOK
    <3>4. streaming' \subseteq cmd'.items BY <2>1
    <3>5. cmd' \in Calls /\ conv' \in BOOLEAN /\ connected' \in BOOLEAN
          /\ hub'.conv \in {"none", "open", "ended"} BY <2>1 DEF RInv, TypeOK
    <3>6. QED BY <2>1, <1>0, <3>1, <3>2, <3>3, <3>4, <3>5 DEF TypeOK, Phases
  <2>3. HubTypes' BY <2>1 DEF RInv, HubTypes
  <2>4. Connection' /\ ConversationFate' BY <2>1 DEF RInv, Connection, ConversationFate
  <2>5. Unsent' BY <2>1 DEF Unsent
  <2>6. HubSays' BY <2>1, <1>0 DEF RInv, HubSays
  <2>7. OnlyAccepted' BY <2>1, <1>0, NoneApart DEF RInv, OnlyAccepted
  <2>8. Waits' BY <2>1 DEF Waits
  <2>9. Finishes'
    <3>1. ASSUME NEW i \in cmd.items
          PROVE  /\ hub.item[i] = "accepted" => got[i] \in {"rows", "stream"}
                 /\ hub.item[i] # "accepted" => got[i] = None /\ said # None
      <4>1. CASE hub.item[i] = "accepted"
        <5>1. got[i] \in Answers \cup {None} /\ got[i] # None /\ got[i] # "oversize"
              /\ got[i] # "invalid" BY <4>1, <1>0, <1>3
        <5>2. QED BY <4>1, <5>1 DEF Answers
      <4>2. CASE hub.item[i] # "accepted" BY <4>2, <1>0
      <4>3. QED BY <4>1, <4>2
    <3>2. QED BY <2>1, <3>1 DEF Finishes
  <2>10. Returned' BY <2>1 DEF Returned, RInv, TypeOK
  <2>11. PullsReleased'
    <3>1. pulling = {} /\ keys = {} BY DEF RInv, PullsReleased, Unsent
    <3>2. QED BY <2>1, <3>1 DEF PullsReleased
  <2>12. QED BY <2>2, <2>3, <2>4, <2>5, <2>6, <2>7, <2>8, <2>9, <2>10, <2>11 DEF RInv
<1>4. QED BY <1>1, <1>2, <1>3

--------------------------------------------------------------------------------
\* The transport is ready: the request is encoded, or the conversation asked for first.
LEMMA ReadyKeeps == RInv /\ Ready => RInv'
<1> SUFFICES ASSUME RInv, Ready PROVE RInv'
  OBVIOUS
<1>1. /\ phase' = Started /\ connected' = TRUE /\ hub' = [hub EXCEPT !.asked = ~conv]
      /\ phase = "connecting"
      /\ UNCHANGED <<cmd, conv, accepted, pending, buffered, answer, streaming, pulling, keys,
                     decoding, result>>
  BY DEF Ready
<1>2. /\ hub'.item = hub.item /\ hub'.sent = hub.sent /\ hub'.asked = ~conv
      /\ hub'.conv = hub.conv /\ conv \in BOOLEAN
      /\ hub' \in [conv : {"none", "open", "ended"}, asked : BOOLEAN,
                   item : [Items -> Verdicts \cup {None}], sent : [Items -> Nat]]
  BY <1>1, RelayTypes DEF RInv, HubTypes
<1>3. phase' = (IF conv THEN "encoding" ELSE "starting") BY <1>1 DEF Started
<1>4. TypeOK' BY <1>1, <1>2, <1>3 DEF RInv, TypeOK, Phases
<1>5. HubTypes' BY <1>1, <1>2 DEF RInv, HubTypes
<1>6. Connection'
  <2>1. connected' BY <1>1
  <2>2. phase' \notin {"connecting", "waiting", "finishing", "done"} BY <1>3
  <2>3. conv => hub.conv = "open"
    BY <1>1, <1>2 DEF RInv, Connection
  <2>4. phase' = "encoding" => conv' /\ hub'.conv = "open" BY <1>1, <1>2, <1>3, <2>3
  <2>5. hub'.asked => ~conv' /\ phase' = "starting" BY <1>1, <1>2, <1>3
  <2>6. result' = None BY <1>1 DEF RInv, TypeOK
  <2>7. QED BY <2>1, <2>2, <2>4, <2>5, <2>6 DEF Connection
<1>7. ConversationFate' /\ Waits' /\ Finishes' /\ Returned'
  BY <1>1, <1>2, <1>3 DEF RInv, ConversationFate, Waits, Finishes, Returned, TypeOK
<1>8. Unsent' /\ HubSays' /\ OnlyAccepted' /\ PullsReleased'
  BY <1>1, <1>2, <1>3 DEF RInv, Unsent, HubSays, OnlyAccepted, PullsReleased
<1>9. QED BY <1>4, <1>5, <1>6, <1>7, <1>8 DEF RInv

\* The hub opens the conversation, perhaps after the command gave it up.
LEMMA HubStartsKeeps == RInv /\ HubStarts => RInv'
<1> SUFFICES ASSUME RInv, HubStarts PROVE RInv'
  OBVIOUS
<1>1. /\ hub.asked /\ hub.conv = "none" /\ connected
      /\ hub' = [hub EXCEPT !.conv = "open", !.asked = FALSE]
      /\ UNCHANGED <<cmd, accepted, pending, buffered, answer, streaming, pulling, keys,
                     decoding, connected, result>>
      /\ phase = "starting" => conv' = TRUE /\ phase' = "encoding"
      /\ phase # "starting" => conv' = conv /\ phase' = phase
  BY DEF HubStarts
<1>2. /\ hub'.item = hub.item /\ hub'.sent = hub.sent /\ hub'.asked = FALSE
      /\ hub'.conv = "open"
      /\ hub' \in [conv : {"none", "open", "ended"}, asked : BOOLEAN,
                   item : [Items -> Verdicts \cup {None}], sent : [Items -> Nat]]
  BY <1>1 DEF RInv, HubTypes
<1>3. ~conv /\ phase \in {"starting", "done"} /\ conv \in BOOLEAN
  BY <1>1, RelayTypes DEF RInv, Connection
<1>4. TypeOK' BY <1>1, <1>2, <1>3 DEF RInv, TypeOK, Phases
<1>5. HubTypes' BY <1>1, <1>2 DEF RInv, HubTypes
<1>6. Connection' BY <1>1, <1>2, <1>3 DEF RInv, Connection, TypeOK
<1>7. ConversationFate'
  BY <1>1, <1>2, <1>3 DEF RInv, ConversationFate, Connection, TypeOK
<1>8. Waits' /\ Finishes' /\ Returned'
  BY <1>1, <1>2, <1>3 DEF RInv, Waits, Finishes, Returned
<1>9. Unsent' /\ HubSays' /\ OnlyAccepted' /\ PullsReleased'
  BY <1>1, <1>2, <1>3 DEF RInv, Unsent, HubSays, OnlyAccepted, PullsReleased
<1>10. QED BY <1>4, <1>5, <1>6, <1>7, <1>8, <1>9 DEF RInv

\* The request is sent: from here on the command waits.
LEMMA SendKeeps == RInv /\ Send => RInv'
<1> SUFFICES ASSUME RInv, Send PROVE RInv'
  OBVIOUS
<1>1. /\ phase = "encoding" /\ phase' = "waiting"
      /\ pending' = IF cmd.fast \/ ~cmd.batch THEN cmd.items ELSE {}
      /\ UNCHANGED <<cmd, conv, accepted, buffered, answer, streaming, pulling, keys,
                     decoding, connected, hub, result>>
  BY DEF Send
<1>2. /\ accepted = None /\ decoding = <<>> /\ buffered = Nothing /\ answer = Nothing
      /\ hub.item = Nothing /\ \A i \in Items : hub.sent[i] = 0
  BY <1>1 DEF RInv, Unsent
<1>3. cmd.items \subseteq Items /\ cmd.items # {} BY RelayTypes DEF RInv
<1>4. TypeOK' BY <1>1 DEF RInv, TypeOK, Phases
<1>5. HubTypes' /\ Connection' /\ ConversationFate'
  BY <1>1 DEF RInv, HubTypes, Connection, ConversationFate
<1>6. Waits'
  BY <1>1, <1>2, <1>3, NoneApart DEF Waits
<1>7. Finishes' /\ Returned' /\ Unsent' /\ PullsReleased'
  BY <1>1 DEF RInv, Finishes, Returned, Unsent, PullsReleased
<1>8. HubSays' /\ OnlyAccepted'
  BY <1>1 DEF RInv, HubSays, OnlyAccepted
<1>9. QED BY <1>4, <1>5, <1>6, <1>7, <1>8 DEF RInv

\* The hub decides on the items: none was answered before.
LEMMA HubDecidesKeeps == RInv /\ HubDecides => RInv'
<1> SUFFICES ASSUME RInv, HubDecides PROVE RInv'
  OBVIOUS
<1>1. PICK said \in [cmd.items -> Verdicts] :
          /\ ~cmd.batch => \A i \in cmd.items : said[i] = "accepted"
          /\ cmd.fast => \A i \in cmd.items : said[i] = "accepted"
          /\ hub' = [hub EXCEPT !.item = [i \in Items |-> IF i \in cmd.items THEN said[i] ELSE None]]
  BY DEF HubDecides
<1>2. /\ phase = "waiting" /\ hub.item = Nothing
      /\ UNCHANGED <<cmd, phase, conv, accepted, pending, buffered, answer, streaming, pulling,
                     keys, decoding, connected, result>>
  BY DEF HubDecides
<1> DEFINE now == [i \in Items |-> IF i \in cmd.items THEN said[i] ELSE None]
<1>3. now \in [Items -> Verdicts \cup {None}] BY <1>1
<1>4. \A i \in Items : now[i] # None <=> i \in cmd.items BY <1>1, NoneApart
<1>5. cmd.fast \/ ~cmd.batch => \A i \in Items : now[i] \in {"accepted", None} BY <1>1
<1>6. /\ hub'.item = now /\ hub'.sent = hub.sent /\ hub'.asked = hub.asked
      /\ hub'.conv = hub.conv
      /\ hub' \in [conv : {"none", "open", "ended"}, asked : BOOLEAN,
                   item : [Items -> Verdicts \cup {None}], sent : [Items -> Nat]]
  BY <1>1, <1>3 DEF RInv, HubTypes
<1>7. cmd.items \subseteq Items /\ cmd.items # {} BY RelayTypes DEF RInv
<1>8. now # Nothing BY <1>4, <1>7, NoneApart
<1> HIDE DEF now
<1>9. accepted = None /\ result = None BY <1>2 DEF RInv, HubSays, TypeOK
<1>10. \A i \in Items : ~(hub.sent[i] > 0) /\ answer[i] = None /\ buffered[i] = None
  BY <1>2, NoneApart DEF RInv, OnlyAccepted
<1>11. \A n \in DOMAIN decoding : FALSE
  <2>1. SUFFICES ASSUME NEW n \in DOMAIN decoding PROVE FALSE OBVIOUS
  <2>2. decoding[n] \in Response BY ElementOfSeq DEF RInv, HubTypes
  <2>3. decoding[n].item \in Items BY <2>2 DEF Response
  <2>4. QED BY <1>2, <2>3, NoneApart DEF RInv, OnlyAccepted
<1>12. TypeOK' BY <1>2, <1>6 DEF RInv, TypeOK
<1>13. HubTypes' BY <1>2, <1>6 DEF RInv, HubTypes
<1>14. Connection' /\ ConversationFate' BY <1>2, <1>6 DEF RInv, Connection, ConversationFate
<1>15. Unsent' /\ Finishes' /\ PullsReleased' /\ Returned'
  BY <1>2, <1>9 DEF RInv, Unsent, Finishes, PullsReleased, Returned
<1>16. HubSays' BY <1>2, <1>4, <1>5, <1>6, <1>9 DEF HubSays
<1>17. OnlyAccepted'
  BY <1>2, <1>6, <1>10, <1>11 DEF RInv, OnlyAccepted
<1>18. Waits'
  <2>1. answer = Nothing \/ ~(cmd.batch /\ ~cmd.fast) BY <1>2, <1>9 DEF RInv, Waits
  <2>2. \A i \in cmd.items : ~(hub'.sent[i] > 0) BY <1>6, <1>7, <1>10
  <2>3. QED BY <1>2, <1>6, <1>9, <2>1, <2>2 DEF RInv, Waits
<1>19. QED BY <1>12, <1>13, <1>14, <1>15, <1>16, <1>17, <1>18 DEF RInv
\* The acceptance arrives: what was buffered resolves its items, the others get waiters.
LEMMA AcceptArrivesKeeps == RInv /\ AcceptArrives => RInv'
<1> SUFFICES ASSUME RInv, AcceptArrives PROVE RInv'
  OBVIOUS
<1>1. /\ phase = "waiting" /\ ~cmd.fast /\ accepted = None /\ hub.item # Nothing
      /\ accepted' = hub.item /\ cmd' = cmd /\ conv' = conv
  BY DEF AcceptArrives
<1>2. cmd.items \subseteq Items /\ cmd.items # {} /\ cmd.batch \in BOOLEAN
      /\ answer \in [Items -> Answers \cup {None}] /\ buffered \in [Items -> Answers \cup {None}]
      /\ hub.item \in [Items -> Verdicts \cup {None}]
  BY RelayTypes DEF RInv, HubTypes
<1>3. accepted' \in {None} \cup [Items -> Verdicts \cup {None}] /\ accepted' # None
  BY <1>1, <1>2, RelayCommandAssumption
<1>4. CASE ~cmd.batch
  <2>1. UNCHANGED <<phase, pending, buffered, answer, streaming, pulling, keys, decoding,
                    connected, hub, result>>
    BY <1>4 DEF AcceptArrives
  <2>2. TypeOK' BY <1>1, <1>3, <2>1 DEF RInv, TypeOK
  <2>3. HubTypes' /\ Connection' /\ ConversationFate'
    BY <1>1, <2>1 DEF RInv, HubTypes, Connection, ConversationFate
  <2>4. Unsent' /\ HubSays' /\ OnlyAccepted' /\ PullsReleased'
    BY <1>1, <2>1 DEF RInv, Unsent, HubSays, OnlyAccepted, PullsReleased
  <2>5. Finishes' /\ Returned' BY <1>1, <2>1 DEF RInv, Finishes, Returned
  <2>6. Waits' BY <1>1, <1>4, <2>1 DEF RInv, Waits, Awaited
  <2>7. QED BY <2>2, <2>3, <2>4, <2>5, <2>6 DEF RInv
<1> DEFINE first == Early(hub.item)
           got == [i \in Items |-> IF i \in first THEN buffered[i] ELSE None]
<1>5. /\ got \in [Items -> Answers \cup {None}]
      /\ \A i \in Items : i \in first => got[i] = buffered[i]
      /\ \A i \in Items : i \notin first => got[i] = None
  BY <1>2
<1>6. /\ first \subseteq Awaited(hub.item) /\ Awaited(hub.item) \subseteq cmd.items
      /\ \A i \in Items : i \in first <=>
            i \in cmd.items /\ hub.item[i] = "accepted" /\ buffered[i] # None
      /\ \A i \in Items : i \in Awaited(hub.item) <=> i \in cmd.items /\ hub.item[i] = "accepted"
  BY <1>2 DEF Early, Awaited
<1>7. \A i \in Items : (got[i] # None => hub.item[i] = "accepted") /\ got[i] # "invalid"
  BY <1>5, NoneApart DEF RInv, OnlyAccepted
<1>8. CASE cmd.batch /\ first = Awaited(hub.item)
  <2>1. Finish(got, hub.item, decoding) BY <1>8 DEF AcceptArrives
  <2>2. decoding \in Seq(Response) /\ \A n \in DOMAIN decoding : hub.item[decoding[n].item] = "accepted"
    BY DEF RInv, HubTypes, OnlyAccepted
  <2>3. \A i \in cmd.items : hub.item[i] = "accepted" => got[i] # None
    BY <1>2, <1>5, <1>6, <1>8
  <2>4. hub.item # None BY <1>1, <1>3
  <2> HIDE DEF got, first
  <2>5. QED BY <1>1, <1>5, <1>7, <2>1, <2>2, <2>3, <2>4, FinishKeeps
<1>9. CASE cmd.batch /\ first # Awaited(hub.item)
  <2>1. /\ pending' = Awaited(hub.item) \ first /\ answer' = got
        /\ buffered' = [i \in Items |-> IF i \in first THEN None ELSE buffered[i]]
        /\ UNCHANGED <<phase, streaming, pulling, keys, decoding, connected, hub, result>>
    BY <1>9 DEF AcceptArrives
  <2>2. /\ buffered' \in [Items -> Answers \cup {None}]
        /\ \A i \in Items : i \in first => buffered'[i] = None
        /\ \A i \in Items : i \notin first => buffered'[i] = buffered[i]
    BY <1>2, <2>1
  <2>3. answer' = got /\ pending' = Awaited(hub.item) \ first
        /\ UNCHANGED <<phase, streaming, pulling, keys, decoding, connected, hub, result>>
    BY <2>1
  <2> HIDE DEF got, first
  <2>4. TypeOK' BY <1>1, <1>3, <1>5, <1>6, <2>2, <2>3 DEF RInv, TypeOK
  <2>5. HubTypes' /\ Connection' /\ ConversationFate'
    BY <1>1, <2>3 DEF RInv, HubTypes, Connection, ConversationFate
  <2>6. Unsent' /\ HubSays' /\ PullsReleased'
    BY <1>1, <2>3 DEF RInv, Unsent, HubSays, PullsReleased
  <2>7. OnlyAccepted'
    <3>1. \A i \in Items : hub'.sent[i] > 0 \/ answer'[i] # None \/ buffered'[i] # None
            => hub'.item[i] = "accepted"
      BY <1>7, <2>2, <2>3 DEF RInv, OnlyAccepted
    <3>2. \A i \in Items : answer'[i] # "invalid" /\ buffered'[i] # "invalid"
      BY <1>7, <2>2, <2>3, NoneApart DEF RInv, OnlyAccepted
    <3>3. QED BY <3>1, <3>2, <2>3 DEF RInv, OnlyAccepted
  <2>8. Finishes' /\ Returned' BY <1>1, <2>3 DEF RInv, Finishes, Returned, TypeOK
  <2>9. Waits'
    <3>1. answer = Nothing BY <1>1, <1>9 DEF RInv, Waits
    <3>2. ASSUME NEW i \in cmd.items, hub.sent[i] > 0
          PROVE  \/ answer'[i] # None \/ buffered'[i] # None
                 \/ \E n \in DOMAIN decoding : decoding[n].item = i
      <4>1. \/ buffered[i] # None \/ \E n \in DOMAIN decoding : decoding[n].item = i
        BY <3>1, <3>2, <1>1, <1>2, NoneApart DEF RInv, Waits
      <4>2. CASE i \in first BY <4>1, <4>2, <1>2, <1>5, <1>6, <2>3
      <4>3. CASE i \notin first BY <4>1, <4>3, <1>2, <2>2
      <4>4. QED BY <4>2, <4>3
    <3>3. \A i \in Awaited(hub.item) : i \in pending' \/ answer'[i] # None
      BY <1>2, <1>5, <1>6, <2>3
    <3>4. \A i \in pending' : buffered'[i] = None /\ answer'[i] = None
      BY <1>2, <1>5, <1>6, <2>2, <2>3
    <3>5. pending' # {} BY <1>6, <1>9, <2>3
    <3>6. \A i \in pending' : hub.item[i] = "accepted" BY <1>2, <1>6, <2>3
    <3>7. QED BY <1>1, <1>3, <1>9, <2>3, <3>2, <3>3, <3>4, <3>5, <3>6 DEF Waits, Awaited
  <2>10. QED BY <2>4, <2>5, <2>6, <2>7, <2>8, <2>9 DEF RInv
<1>10. QED BY <1>2, <1>4, <1>8, <1>9

\* The hub answers an item: the response is on its way.
LEMMA HubAnswersKeeps ==
    ASSUME RInv, NEW i \in Items, HubAnswers(i)
    PROVE  RInv'
<1>1. /\ phase \in {"waiting", "finishing", "done"} /\ hub.conv = "open" /\ connected
      /\ hub.item[i] = "accepted"
      /\ hub' = [hub EXCEPT !.sent[i] = @ + 1]
      /\ UNCHANGED <<cmd, phase, conv, accepted, pending, buffered, answer, streaming, pulling,
                     keys, connected, result>>
  BY DEF HubAnswers, Requested
<1>2. PICK a \in Answers :
          decoding' = IF phase = "done" THEN decoding ELSE Append(decoding, [item |-> i, is |-> a])
  BY DEF HubAnswers
<1>3. /\ hub'.item = hub.item /\ hub'.asked = hub.asked /\ hub'.conv = hub.conv
      /\ \A j \in Items : j # i => hub'.sent[j] = hub.sent[j]
      /\ hub' \in [conv : {"none", "open", "ended"}, asked : BOOLEAN,
                   item : [Items -> Verdicts \cup {None}], sent : [Items -> Nat]]
  <2> DEFINE more == [hub.sent EXCEPT ![i] = @ + 1]
  <2>1. hub.sent \in [Items -> Nat] BY DEF RInv, HubTypes
  <2>2. more \in [Items -> Nat] /\ \A j \in Items : j # i => more[j] = hub.sent[j] BY <2>1
  <2>3. hub' = [hub EXCEPT !.sent = more] BY <1>1 DEF RInv, HubTypes
  <2> HIDE DEF more
  <2>4. QED BY <2>2, <2>3 DEF RInv, HubTypes
<1> DEFINE m == [item |-> i, is |-> a]
<1>4. m \in Response /\ m.item = i BY DEF Response
<1>5. decoding \in Seq(Response) BY DEF RInv, HubTypes
<1>6. \/ decoding' = decoding /\ phase = "done"
      \/ decoding' = Append(decoding, m) /\ phase # "done"
  BY <1>2
<1> HIDE DEF m
<1>7. /\ Append(decoding, m) \in Seq(Response)
      /\ DOMAIN Append(decoding, m) = 1..Len(decoding) + 1
      /\ Append(decoding, m)[Len(decoding) + 1] = m
      /\ \A n \in 1..Len(decoding) : Append(decoding, m)[n] = decoding[n]
  <2>1. /\ Append(decoding, m) \in Seq(Response)
        /\ Len(Append(decoding, m)) = Len(decoding) + 1
        /\ \A n \in 1..Len(decoding) : Append(decoding, m)[n] = decoding[n]
        /\ Append(decoding, m)[Len(decoding) + 1] = m
    BY <1>4, <1>5, AppendProperties
  <2>2. QED BY <2>1, LenProperties
<1>8. DOMAIN decoding = 1..Len(decoding) /\ Len(decoding) \in Nat BY <1>5, LenProperties
<1>9. \A n \in DOMAIN decoding : n \in DOMAIN decoding' /\ decoding'[n] = decoding[n]
  BY <1>6, <1>7, <1>8
<1>10. TypeOK' BY <1>1, <1>3 DEF RInv, TypeOK
<1>11. HubTypes' BY <1>3, <1>5, <1>6, <1>7 DEF HubTypes
<1>12. Connection' /\ ConversationFate' BY <1>1, <1>3 DEF RInv, Connection, ConversationFate
<1>13. Unsent' /\ HubSays' /\ Finishes' /\ Returned' /\ PullsReleased'
  BY <1>1, <1>3 DEF RInv, Unsent, HubSays, Finishes, Returned, PullsReleased
<1>14. OnlyAccepted'
  <2>1. ASSUME NEW n \in DOMAIN decoding' PROVE hub.item[decoding'[n].item] = "accepted"
    <3>1. CASE n \in DOMAIN decoding
      BY <3>1, <1>9 DEF RInv, OnlyAccepted
    <3>2. CASE n \notin DOMAIN decoding
      <4>1. decoding' = Append(decoding, m) BY <3>2, <1>6
      <4>2. n = Len(decoding) + 1 BY <3>2, <4>1, <1>7, <1>8
      <4>3. QED BY <4>1, <4>2, <1>1, <1>4, <1>7
    <3>3. QED BY <3>1, <3>2
  <2>2. \A j \in Items : hub'.sent[j] > 0 \/ answer'[j] # None \/ buffered'[j] # None
            => hub'.item[j] = "accepted"
    BY <1>1, <1>3 DEF RInv, OnlyAccepted
  <2>3. QED BY <1>1, <1>3, <2>1, <2>2 DEF RInv, OnlyAccepted
<1>15. Waits'
  <2>1. SUFFICES ASSUME phase = "waiting" PROVE Waits' BY <1>1 DEF Waits
  <2>2. ASSUME NEW j \in cmd.items, hub'.sent[j] > 0
        PROVE  \/ answer[j] # None \/ buffered[j] # None
               \/ \E n \in DOMAIN decoding' : decoding'[n].item = j
    <3>1. CASE j = i
      <4>1. decoding' = Append(decoding, m) BY <1>6, <2>1
      <4>2. Len(decoding) + 1 \in DOMAIN decoding' BY <4>1, <1>7, <1>8
      <4>3. decoding'[Len(decoding) + 1].item = j BY <3>1, <4>1, <1>4, <1>7
      <4>4. QED BY <4>2, <4>3
    <3>2. CASE j # i
      <4>1. j \in Items /\ hub.sent[j] > 0 BY <3>2, <2>2, <1>3, RelayTypes DEF RInv
      <4>2. \/ answer[j] # None \/ buffered[j] # None
            \/ \E n \in DOMAIN decoding : decoding[n].item = j
        BY <4>1, <2>1 DEF RInv, Waits
      <4>3. QED BY <4>2, <1>9
    <3>3. QED BY <3>1, <3>2
  <2>3. QED BY <1>1, <1>3, <2>1, <2>2 DEF RInv, Waits, Awaited
<1>16. QED BY <1>10, <1>11, <1>12, <1>13, <1>14, <1>15 DEF RInv
\* What is left of a queue whose head was taken.
LEMMA TailOf ==
    ASSUME NEW S, NEW s \in Seq(S), s # <<>>
    PROVE  /\ Head(s) \in S /\ Head(s) = s[1] /\ 1 \in DOMAIN s
           /\ Tail(s) \in Seq(S) /\ Len(Tail(s)) = Len(s) - 1
           /\ DOMAIN Tail(s) = 1..Len(s) - 1 /\ DOMAIN s = 1..Len(s) /\ Len(s) \in Nat \ {0}
           /\ \A n \in DOMAIN Tail(s) : n + 1 \in DOMAIN s /\ Tail(s)[n] = s[n + 1]
           /\ \A n \in DOMAIN s : n = 1 \/ (n - 1 \in DOMAIN Tail(s) /\ Tail(s)[n - 1] = s[n])
<1>1. Len(s) \in Nat \ {0} /\ DOMAIN s = 1..Len(s) BY LenProperties, EmptySeq
<1>2. /\ Head(s) \in S /\ Head(s) = s[1] /\ Tail(s) \in Seq(S) /\ Len(Tail(s)) = Len(s) - 1
      /\ \A n \in 1..Len(Tail(s)) : Tail(s)[n] = s[n + 1]
  BY HeadTailProperties
<1>3. DOMAIN Tail(s) = 1..Len(s) - 1 BY <1>2, LenProperties
<1>4. \A n \in 1..Len(s) - 1 : n + 1 \in 1..Len(s) BY <1>1
<1>5. \A n \in 1..Len(s) : n = 1 \/ (n - 1 \in 1..Len(s) - 1 /\ (n - 1) + 1 = n) BY <1>1
<1>6. QED BY <1>1, <1>2, <1>3, <1>4, <1>5

\* When there is no room left every item of the command has a buffered response.
LEMMA NoRoomAllBuffered ==
    ASSUME RInv, ~Room, NEW j \in cmd.items
    PROVE  buffered[j] # None
<1> DEFINE B == {i \in Items : buffered[i] # None}
<1>1. cmd.items \subseteq Items BY RelayTypes DEF RInv
<1>2. B \subseteq cmd.items BY VerdictsOfItems DEF RInv, OnlyAccepted
<1>3. IsFiniteSet(cmd.items) BY <1>1, FS_Subset, RelayCommandAssumption
<1>4. IsFiniteSet(B) /\ Cardinality(B) \in Nat /\ Cardinality(cmd.items) \in Nat
  BY <1>2, <1>3, FS_Subset, FS_CardinalityType
<1>5. Cardinality(B) >= Cardinality(cmd.items) BY <1>4 DEF Room
<1>6. B = cmd.items BY <1>2, <1>3, <1>4, <1>5, FS_Subset
<1>7. QED BY <1>6

\* A response is handed over: it fails the command, resolves its item, completes the
\* command, or is buffered while there is room, which there is for every item.
LEMMA ResponseArrivesKeeps == RInv /\ ResponseArrives => RInv'
<1> SUFFICES ASSUME RInv, ResponseArrives PROVE RInv'
  OBVIOUS
<1> DEFINE m == Head(decoding)
           got == [answer EXCEPT ![m.item] = m.is]
           rest == Tail(decoding)
<1>1. /\ phase = "waiting" /\ decoding # <<>>
      /\ cmd.batch \/ cmd.fast \/ accepted # None
      /\ cmd' = cmd /\ conv' = conv /\ accepted' = accepted
  BY DEF ResponseArrives
<1>2. decoding \in Seq(Response) BY DEF RInv, HubTypes
<1>3. /\ m \in Response /\ m = decoding[1] /\ 1 \in DOMAIN decoding /\ rest \in Seq(Response)
      /\ \A n \in DOMAIN rest : n + 1 \in DOMAIN decoding /\ rest[n] = decoding[n + 1]
      /\ \A n \in DOMAIN decoding :
            n = 1 \/ (n - 1 \in DOMAIN rest /\ rest[n - 1] = decoding[n])
  BY <1>1, <1>2, TailOf
<1>4. /\ hub.item[m.item] = "accepted" /\ m.item \in Items /\ m.is \in Answers /\ m.is # None
      /\ m.item \in cmd.items
  BY <1>3, NoneApart, VerdictsOfItems DEF RInv, OnlyAccepted, Response
<1>5. \A n \in DOMAIN rest : hub.item[rest[n].item] = "accepted"
  BY <1>3 DEF RInv, OnlyAccepted
<1>6. /\ answer \in [Items -> Answers \cup {None}] /\ buffered \in [Items -> Answers \cup {None}]
      /\ pending \subseteq cmd.items /\ cmd.items \subseteq Items
      /\ cmd.batch \in BOOLEAN /\ cmd.fast \in BOOLEAN
  BY RelayTypes DEF RInv
<1>7. /\ got \in [Items -> Answers \cup {None}] /\ got[m.item] = m.is
      /\ \A i \in Items : i # m.item => got[i] = answer[i]
  BY <1>4, <1>6
<1>8. \A j \in cmd.items : hub.sent[j] > 0 =>
          \/ answer[j] # None \/ buffered[j] # None \/ j = m.item
          \/ \E n \in DOMAIN rest : rest[n].item = j
  BY <1>1, <1>3 DEF RInv, Waits
<1>9. CASE m.is = "invalid"
  <2>1. Fails BY <1>1, <1>9 DEF ResponseArrives, Fails
  <2>2. QED BY <2>1, <1>1, FailsKeeps
<1>10. \A i \in Items : m.is # "invalid" =>
          (got[i] # None => hub.item[i] = "accepted") /\ got[i] # "invalid"
  BY <1>4, <1>7 DEF RInv, OnlyAccepted
<1>11. CASE m.is # "invalid" /\ pending = {m.item}
  <2>1. Finish(got, accepted, rest) BY <1>1, <1>11 DEF ResponseArrives
  <2>2. \A i \in cmd.items : hub.item[i] = "accepted" => got[i] # None
    <3>1. SUFFICES ASSUME NEW i \in cmd.items, hub.item[i] = "accepted" PROVE got[i] # None
      OBVIOUS
    <3>2. i \in pending \/ answer[i] # None
      BY <1>1, <1>6, <1>11, <3>1 DEF RInv, Waits, Awaited
    <3>3. QED BY <3>2, <1>4, <1>6, <1>7, <1>11
  <2>3. accepted = None => \A i \in cmd.items : hub.item[i] = "accepted"
    BY <1>1, <1>4, <1>6, <1>11 DEF RInv, Waits, OnlyAccepted
  <2>4. accepted # None => accepted = hub.item /\ hub.item # Nothing BY DEF RInv, HubSays
  <2>5. \A i \in Items : got[i] # None => hub.item[i] = "accepted" /\ got[i] # "invalid"
    BY <1>10, <1>11
  <2> HIDE DEF got, rest, m
  <2>6. QED BY <1>1, <1>3, <1>5, <1>7, <2>1, <2>2, <2>3, <2>4, <2>5, FinishKeeps
<1>12. CASE m.is # "invalid" /\ pending # {m.item}
  <2>1. /\ decoding' = rest /\ UNCHANGED <<phase, streaming, pulling, keys, connected, hub, result>>
        /\ m.item \in pending => pending' = pending \ {m.item} /\ answer' = got /\ buffered' = buffered
        /\ m.item \notin pending =>
              /\ buffered' = IF Room THEN [buffered EXCEPT ![m.item] = m.is] ELSE buffered
              /\ pending' = pending /\ answer' = answer
    BY <1>1, <1>12 DEF ResponseArrives
  <2>2. m.item \notin pending =>
            /\ buffered' \in [Items -> Answers \cup {None}]
            /\ \A i \in Items : i # m.item => buffered'[i] = buffered[i]
            /\ buffered'[m.item] # None /\ buffered'[m.item] \in {m.is, buffered[m.item]}
    BY <2>1, <1>4, <1>6, NoRoomAllBuffered
  <2> HIDE DEF got, rest, m
  <2>3. /\ answer' \in [Items -> Answers \cup {None}] /\ buffered' \in [Items -> Answers \cup {None}]
        /\ pending' \subseteq cmd.items
    BY <1>6, <1>7, <2>1, <2>2
  <2>4. TypeOK' BY <1>1, <2>1, <2>3 DEF RInv, TypeOK
  <2>5. HubTypes' /\ Connection' /\ ConversationFate'
    BY <1>1, <1>3, <2>1 DEF RInv, HubTypes, Connection, ConversationFate
  <2>6. Unsent' /\ HubSays' /\ PullsReleased'
    BY <1>1, <2>1 DEF RInv, Unsent, HubSays, PullsReleased
  <2>7. OnlyAccepted'
    <3>1. ASSUME NEW i \in Items
          PROVE  /\ answer'[i] # None \/ buffered'[i] # None => hub.item[i] = "accepted"
                 /\ answer'[i] # "invalid" /\ buffered'[i] # "invalid"
      <4>1. CASE m.item \in pending
        BY <4>1, <1>10, <1>12, <2>1 DEF RInv, OnlyAccepted
      <4>2. CASE m.item \notin pending
        <5>1. CASE i = m.item BY <5>1, <4>2, <1>4, <1>12, <2>1, <2>2 DEF RInv, OnlyAccepted
        <5>2. CASE i # m.item BY <5>2, <4>2, <2>1, <2>2 DEF RInv, OnlyAccepted
        <5>3. QED BY <5>1, <5>2
      <4>3. QED BY <4>1, <4>2
    <3>2. \A i \in Items : hub.sent[i] > 0 => hub.item[i] = "accepted" BY DEF RInv, OnlyAccepted
    <3>3. QED BY <3>1, <3>2, <1>5, <2>1 DEF OnlyAccepted
  <2>8. Finishes' /\ Returned' BY <1>1, <2>1 DEF RInv, Finishes, Returned, TypeOK
  <2>9. Waits'
    <3>1. ASSUME NEW j \in cmd.items, hub.sent[j] > 0
          PROVE  \/ answer'[j] # None \/ buffered'[j] # None
                 \/ \E n \in DOMAIN rest : rest[n].item = j
      <4>1. j \in Items BY <1>6
      <4>2. CASE m.item \in pending BY <4>1, <4>2, <3>1, <1>4, <1>7, <1>8, <2>1
      <4>3. CASE m.item \notin pending BY <4>1, <4>3, <3>1, <1>8, <2>1, <2>2
      <4>4. QED BY <4>2, <4>3
    <3>2. \A i \in pending' : buffered'[i] = None /\ answer'[i] = None
      <4>1. \A i \in pending : buffered[i] = None /\ answer[i] = None /\ i \in Items
        BY <1>1, <1>6 DEF RInv, Waits
      <4>2. CASE m.item \in pending BY <4>1, <4>2, <1>7, <2>1
      <4>3. CASE m.item \notin pending BY <4>1, <4>3, <2>1, <2>2
      <4>4. QED BY <4>2, <4>3
    <3>3. \A i \in Items : i \in pending \/ answer[i] # None => i \in pending' \/ answer'[i] # None
      BY <1>4, <1>7, <2>1
    <3>4. Awaited(hub.item) \subseteq Items BY <1>6 DEF Awaited
    <3>5. cmd.fast \/ ~cmd.batch => \A i \in cmd.items : i \in pending' \/ answer'[i] # None
      BY <1>1, <1>6, <3>3 DEF RInv, Waits
    <3>6. accepted # None => \A i \in Awaited(hub.item) : i \in pending' \/ answer'[i] # None
      BY <1>1, <3>3, <3>4 DEF RInv, Waits
    <3>7. cmd.fast \/ ~cmd.batch \/ accepted # None => pending' # {}
      BY <1>1, <1>12, <2>1 DEF RInv, Waits
    <3>8. cmd.batch /\ ~cmd.fast /\ accepted = None => pending' = {} /\ answer' = Nothing
      BY <1>1, <2>1 DEF RInv, Waits
    <3>9. cmd.batch /\ ~cmd.fast /\ accepted # None =>
              \A i \in pending' : hub.item[i] = "accepted"
      BY <1>1, <2>1 DEF RInv, Waits
    <3>10. QED BY <1>1, <2>1, <3>1, <3>2, <3>5, <3>6, <3>7, <3>8, <3>9 DEF Waits, Awaited
  <2>10. QED BY <2>4, <2>5, <2>6, <2>7, <2>8, <2>9 DEF RInv
<1>13. QED BY <1>9, <1>11, <1>12

\* A response nobody listens to is dropped.
LEMMA ResponseIgnoredKeeps == RInv /\ ResponseIgnored => RInv'
<1> SUFFICES ASSUME RInv, ResponseIgnored PROVE RInv'
  OBVIOUS
<1>1. /\ phase = "finishing" /\ decoding # <<>> /\ decoding' = Tail(decoding)
      /\ UNCHANGED <<cmd, phase, conv, accepted, pending, buffered, answer, streaming, pulling,
                     keys, connected, hub, result>>
  BY DEF ResponseIgnored
<1>2. /\ Tail(decoding) \in Seq(Response)
      /\ \A n \in DOMAIN Tail(decoding) :
            n + 1 \in DOMAIN decoding /\ Tail(decoding)[n] = decoding[n + 1]
  BY <1>1, TailOf DEF RInv, HubTypes
<1>3. TypeOK' /\ HubTypes' /\ Connection' /\ ConversationFate'
  BY <1>1, <1>2 DEF RInv, TypeOK, HubTypes, Connection, ConversationFate
<1>4. Unsent' /\ HubSays' /\ Waits' /\ Finishes' /\ Returned' /\ PullsReleased'
  BY <1>1 DEF RInv, Unsent, HubSays, Waits, Finishes, Returned, PullsReleased
<1>5. OnlyAccepted' BY <1>1, <1>2 DEF RInv, OnlyAccepted
<1>6. QED BY <1>3, <1>4, <1>5 DEF RInv
\* A stream asks for more.
LEMMA PullKeeps ==
    ASSUME RInv, NEW i \in Items, Pull(i)
    PROVE  RInv'
<1>1. /\ i \in streaming /\ pulling' = pulling \cup {i} /\ keys' = keys \cup {i}
      /\ UNCHANGED <<cmd, phase, conv, accepted, pending, buffered, answer, streaming,
                     decoding, connected, hub, result>>
  BY DEF Pull
<1>2. TypeOK' /\ HubTypes' /\ Connection' /\ ConversationFate'
  BY <1>1 DEF RInv, TypeOK, HubTypes, Connection, ConversationFate
<1>3. Unsent' /\ HubSays' /\ Finishes' /\ Returned'
  BY <1>1 DEF RInv, Unsent, HubSays, Finishes, Returned
<1>4. OnlyAccepted' /\ Waits' BY <1>1 DEF RInv, OnlyAccepted, Waits, Awaited
<1>5. PullsReleased' BY <1>1 DEF RInv, PullsReleased
<1>6. QED BY <1>2, <1>3, <1>4, <1>5 DEF RInv

\* A pull is answered.
LEMMA PullAnsweredKeeps ==
    ASSUME RInv, NEW i \in Items, PullAnswered(i)
    PROVE  RInv'
<1>1. /\ pulling' = pulling \ {i} /\ keys' = keys \ (pulling \cap {i})
      /\ UNCHANGED <<cmd, phase, conv, accepted, pending, buffered, answer, streaming,
                     decoding, connected, hub, result>>
  BY DEF PullAnswered, PullsEnd
<1>2. TypeOK' /\ HubTypes' /\ Connection' /\ ConversationFate'
  BY <1>1 DEF RInv, TypeOK, HubTypes, Connection, ConversationFate
<1>3. Unsent' /\ HubSays' /\ Finishes' /\ Returned'
  BY <1>1 DEF RInv, Unsent, HubSays, Finishes, Returned
<1>4. OnlyAccepted' /\ Waits' BY <1>1 DEF RInv, OnlyAccepted, Waits, Awaited
<1>5. PullsReleased' BY <1>1 DEF RInv, PullsReleased
<1>6. QED BY <1>2, <1>3, <1>4, <1>5 DEF RInv

\* A stream ends; the last one completes the command.
LEMMA StreamCompletesKeeps ==
    ASSUME RInv, NEW i \in Items, StreamCompletes(i)
    PROVE  RInv'
<1>1. /\ phase = "finishing" /\ i \in streaming
      /\ cmd' = cmd /\ conv' = conv /\ accepted' = accepted /\ answer' = answer
  BY DEF StreamCompletes
<1>2. /\ answer \in [Items -> Answers \cup {None}] /\ cmd.items \subseteq Items
      /\ conv /\ connected
  BY <1>1, RelayTypes DEF RInv, Connection
<1>3. CASE streaming = {i}
  <2> DEFINE upshot == [j \in cmd.items |-> ItemResult(j, accepted)]
  <2>1. Finally(TRUE, upshot) BY <1>3 DEF StreamCompletes
  <2>2. upshot \in Results(cmd.items) BY DEF Results, ItemResult
  <2>3. upshot # None /\ upshot # Failed BY <2>2, <1>2, RelayCommandAssumption
  <2>4. ASSUME NEW j \in cmd.items
        PROVE  IF hub.item[j] = "accepted"
               THEN upshot[j] = "answered" /\ answer[j] \in {"rows", "stream"}
               ELSE upshot[j] = "refused" /\ answer[j] = None
    <3>1. accepted # None => accepted = hub.item BY DEF RInv, HubSays
    <3>2. CASE hub.item[j] = "accepted"
      <4>1. upshot[j] = "answered" BY <3>1, <3>2 DEF ItemResult
      <4>2. QED BY <3>2, <4>1, <1>1 DEF RInv, Finishes
    <3>3. CASE hub.item[j] # "accepted"
      <4>1. answer[j] = None /\ accepted # None BY <3>3, <1>1 DEF RInv, Finishes
      <4>2. upshot[j] = "refused" BY <3>1, <3>3, <4>1 DEF ItemResult
      <4>3. QED BY <3>3, <4>1, <4>2
    <3>4. QED BY <3>2, <3>3
  <2> HIDE DEF upshot
  <2>5. /\ answer' \in [Items -> Answers \cup {None}]
        /\ \A j \in Items : (answer'[j] # None => hub.item[j] = "accepted")
                            /\ answer'[j] # "invalid"
    BY <1>1, <1>2 DEF RInv, OnlyAccepted
  <2>6. \A j \in cmd.items :
              IF hub.item[j] = "accepted"
              THEN upshot[j] = "answered" /\ answer'[j] \in {"rows", "stream"}
              ELSE upshot[j] = "refused" /\ answer'[j] = None BY <2>4, <1>1
  <2>7. phase # "done" BY <1>1
  <2>8. accepted' = accepted \/ (accepted' = hub.item /\ hub.item # Nothing) BY <1>1
  <2>9. QED BY <2>1, <2>3, <2>5, <2>6, <2>7, <2>8, <1>1, <1>2, FinallyKeeps
<1>4. CASE streaming # {i}
  <2>1. /\ streaming' = streaming \ {i}
        /\ pulling' = pulling \ {i} /\ keys' = keys \ (pulling \cap {i})
        /\ UNCHANGED <<phase, result, connected, hub, pending, buffered, decoding>>
    BY <1>4 DEF StreamCompletes, PullsEnd
  <2>2. TypeOK' /\ HubTypes' /\ Connection' /\ ConversationFate'
    BY <1>1, <2>1 DEF RInv, TypeOK, HubTypes, Connection, ConversationFate
  <2>3. Unsent' /\ HubSays' /\ Finishes' /\ Returned'
    BY <1>1, <2>1 DEF RInv, Unsent, HubSays, Finishes, Returned
  <2>4. OnlyAccepted' /\ Waits' BY <1>1, <2>1 DEF RInv, OnlyAccepted, Waits, Awaited
  <2>5. PullsReleased' BY <2>1 DEF RInv, PullsReleased
  <2>6. QED BY <2>2, <2>3, <2>4, <2>5 DEF RInv
<1>5. QED BY <1>3, <1>4

\* The connection is lost.
LEMMA DisconnectKeeps == RInv /\ Disconnect => RInv'
<1> SUFFICES ASSUME RInv, Disconnect PROVE RInv'
  OBVIOUS
<1>1. /\ connected' = FALSE
      /\ hub' = [hub EXCEPT !.asked = FALSE, !.conv = IF @ = "open" THEN "ended" ELSE @]
      /\ cmd' = cmd /\ conv' = conv /\ accepted' = accepted /\ answer' = answer
  BY DEF Disconnect
<1>2. /\ hub'.item = hub.item /\ hub'.sent = hub.sent /\ hub'.asked = FALSE
      /\ hub'.conv # "open"
      /\ hub' \in [conv : {"none", "open", "ended"}, asked : BOOLEAN,
                   item : [Items -> Verdicts \cup {None}], sent : [Items -> Nat]]
  BY <1>1 DEF RInv, HubTypes
<1>3. CASE phase = "done"
  <2>1. UNCHANGED <<phase, result, pending, buffered, decoding, streaming, pulling, keys>>
    BY <1>3 DEF Disconnect
  <2>2. TypeOK' /\ HubTypes' BY <1>1, <1>2, <2>1 DEF RInv, TypeOK, HubTypes
  <2>3. Connection' /\ ConversationFate'
    BY <1>1, <1>2, <1>3, <2>1 DEF RInv, Connection, ConversationFate
  <2>4. Unsent' /\ HubSays' /\ OnlyAccepted' /\ Waits' /\ Finishes' /\ Returned' /\ PullsReleased'
    BY <1>1, <1>2, <1>3, <2>1
    DEF RInv, Unsent, HubSays, OnlyAccepted, Waits, Finishes, Returned, PullsReleased
  <2>5. QED BY <2>2, <2>3, <2>4 DEF RInv
<1>4. CASE phase # "done"
  <2>1. /\ phase' = "done" /\ result' = Failed
        /\ pending' = {} /\ buffered' = Nothing /\ decoding' = <<>> /\ streaming' = {}
        /\ pulling' = pulling \ Items /\ keys' = keys \ (pulling \cap Items)
    BY <1>4 DEF Disconnect, PullsEnd
  <2>2. buffered' \in [Items -> Answers \cup {None}] BY <2>1 DEF Nothing
  <2>3. TypeOK'
    BY <1>1, <1>2, <2>1, <2>2, NoneApart DEF RInv, TypeOK, Phases
  <2>4. HubTypes' BY <1>2, <2>1, EmptySeq DEF HubTypes
  <2>5. Connection' /\ ConversationFate'
    BY <1>1, <1>2, <2>1 DEF RInv, Connection, ConversationFate
  <2>6. Unsent' /\ HubSays' /\ Waits' /\ Finishes' /\ Returned'
    BY <1>1, <1>2, <2>1 DEF RInv, Unsent, HubSays, Waits, Finishes, Returned
  <2>7. OnlyAccepted' BY <1>1, <1>2, <2>1, NoneApart DEF RInv, OnlyAccepted
  <2>8. PullsReleased'
    <3>1. pulling \subseteq Items /\ keys = pulling BY RelayTypes DEF RInv, PullsReleased
    <3>2. QED BY <2>1, <3>1 DEF PullsReleased
  <2>9. QED BY <2>3, <2>4, <2>5, <2>6, <2>7, <2>8 DEF RInv
<1>5. QED BY <1>3, <1>4

\* A relay command begins in the invariant.
LEMMA RelayInit == Init => RInv
<1> SUFFICES ASSUME Init PROVE RInv
  OBVIOUS
<1>1. /\ cmd \in Calls /\ connected \in (IF cmd.managed THEN BOOLEAN ELSE {FALSE})
      /\ phase = "connecting" /\ conv = cmd.reused
      /\ accepted = None /\ pending = {} /\ buffered = Nothing /\ answer = Nothing
      /\ streaming = {} /\ pulling = {} /\ keys = {} /\ decoding = <<>> /\ result = None
      /\ hub = [conv |-> IF cmd.reused THEN "open" ELSE "none", asked |-> FALSE,
                item |-> Nothing, sent |-> [i \in Items |-> 0]]
  BY DEF Init
<1>2. cmd.reused \in BOOLEAN BY <1>1 DEF Calls
<1>3. /\ hub.item = Nothing /\ hub.asked = FALSE /\ \A i \in Items : hub.sent[i] = 0
      /\ hub.conv = (IF cmd.reused THEN "open" ELSE "none")
      /\ hub \in [conv : {"none", "open", "ended"}, asked : BOOLEAN,
                  item : [Items -> Verdicts \cup {None}], sent : [Items -> Nat]]
  BY <1>1, NoneApart DEF Nothing
<1>4. Nothing \in [Items -> Answers \cup {None}] BY DEF Nothing
<1>5. TypeOK BY <1>1, <1>2, <1>3, <1>4 DEF TypeOK, Phases
<1>6. HubTypes BY <1>1, <1>3, EmptySeq DEF HubTypes
<1>7. Connection BY <1>1, <1>2, <1>3 DEF Connection
<1>8. ConversationFate /\ Waits /\ Finishes /\ Returned /\ PullsReleased
  BY <1>1 DEF ConversationFate, Waits, Finishes, Returned, PullsReleased
<1>9. Unsent /\ HubSays BY <1>1, <1>3, NoneApart DEF Unsent, HubSays
<1>10. OnlyAccepted BY <1>1, <1>3, NoneApart DEF OnlyAccepted
<1>11. QED BY <1>5, <1>6, <1>7, <1>8, <1>9, <1>10 DEF RInv

\* Every step of a relay command keeps the invariant.
LEMMA RelayStep == RInv /\ [Next]_vars => RInv'
<1> SUFFICES ASSUME RInv, [Next]_vars PROVE RInv'
  OBVIOUS
<1>1. CASE UNCHANGED vars
  <2>1. TypeOK' /\ HubTypes' /\ Connection' /\ ConversationFate'
    BY <1>1 DEF vars, RInv, TypeOK, HubTypes, Connection, ConversationFate
  <2>2. Unsent' /\ HubSays' /\ OnlyAccepted' /\ Finishes' /\ Returned' /\ PullsReleased'
    BY <1>1 DEF vars, RInv, Unsent, HubSays, OnlyAccepted, Finishes, Returned, PullsReleased
  <2>3. Waits' BY <1>1 DEF vars, RInv, Waits, Awaited
  <2>4. QED BY <2>1, <2>2, <2>3 DEF RInv
<1>2. CASE \/ ConnectFails \/ StartFails \/ SendFails \/ RefusalArrives \/ PullFails
           \/ AcceptTimeout \/ ItemTimeout \/ StreamFails \/ Interrupted
  <2>1. Fails /\ phase # "done"
    BY <1>2 DEF ConnectFails, StartFails, SendFails, RefusalArrives, PullFails,
                AcceptTimeout, ItemTimeout, StreamFails, Interrupted
  <2>2. QED BY <2>1, FailsKeeps
<1>3. CASE \E i \in Items : HubAnswers(i) \/ Pull(i) \/ PullAnswered(i) \/ StreamCompletes(i)
  BY <1>3, HubAnswersKeeps, PullKeeps, PullAnsweredKeeps, StreamCompletesKeeps
<1>4. CASE \/ Ready \/ HubStarts \/ Send \/ HubDecides \/ AcceptArrives
           \/ ResponseArrives \/ ResponseIgnored \/ Disconnect
  BY <1>4, ReadyKeeps, HubStartsKeeps, SendKeeps, HubDecidesKeeps, AcceptArrivesKeeps,
     ResponseArrivesKeeps, ResponseIgnoredKeeps, DisconnectKeeps
<1>5. QED BY <1>1, <1>2, <1>3, <1>4 DEF Next

\* The invariant says what the runs check.
LEMMA AnswersKeptInv == RInv => AnswersKept
<1> SUFFICES ASSUME RInv PROVE AnswersKept
  OBVIOUS
<1>1. phase = "waiting" =>
        /\ \A i \in cmd.items : hub.sent[i] > 0 =>
              \/ answer[i] # None \/ buffered[i] # None
              \/ \E n \in DOMAIN decoding : decoding[n].item = i
        /\ \A i \in pending : buffered[i] = None
        /\ (cmd.fast \/ accepted # None) => pending # {}
  BY DEF RInv, Waits
<1>2. QED BY <1>1 DEF RInv, AnswersKept, Returned
--------------------------------------------------------------------------------
\* A command and its stream.  What is on its way has its type.
Message ==
    [is : {"answer"}, as : CommandAnswers]
        \cup [is : {"chunk"}, as : {"ours", "another", "malformed"}, n : Nat]
        \cup [is : {"complete"}, as : {"ours"}]
        \cup [is : {"window"}, as : {"granted", "another", "refused"}, size : WindowSizes]
CommandTypes ==
    /\ CommandTypeOK
    /\ wire \in Seq(Message) /\ merged \in Seq(Nat) /\ kept \in Seq(Nat)
    /\ response \in {"none", "plain", "rows"}
    /\ agent \in [answered : Nat, sent : Seq(Nat), completed : BOOLEAN]

\* What the wire may hold.
IsAnswer(m) == m.is = "answer"
IsOurs(m) == m.is = "chunk" /\ m.as = "ours"
IsEnd(m) == m.is = "complete"
NoAnswer(w) == \A i \in DOMAIN w : ~IsAnswer(w[i])
OneAnswer(w) == \A i, j \in DOMAIN w : IsAnswer(w[i]) /\ IsAnswer(w[j]) => i = j
NoEnd(w) == \A i \in DOMAIN w : ~IsEnd(w[i])

\* Before a stream is known nothing was asked for, sent or taken; a command holds the key
\* of its pull while that is unanswered, and nothing once it has settled.
Before == stage \in {"connecting", "decoding", "awaiting"}
Idle ==
    /\ stage \in {"connecting", "decoding", "settled"} => wire = <<>>
    /\ Before => pull = 0 /\ windows = {} /\ agent.sent = <<>> /\ merged = <<>> /\ kept = <<>>
    /\ Before => \A i \in DOMAIN wire : wire[i].is # "window" /\ ~IsOurs(wire[i])
    /\ Before \/ stage = "settled" => pullKeys = {}
    /\ stage \in {"aggregating", "rejected"} => (pullKeys # {} <=> pull # 0)
    /\ stage = "settled" => held \cap {"waiters", "route", "listeners"} = {}

\* The windows asked for are the effective one, and those of the history are lawful.
Windows ==
    /\ pull \in {0, EffectiveWindow(call)}
    /\ windows \subseteq 1..MaxWindow

\* What is left of a stream of which t chunks were taken and k were sent: the others, in
\* their order, and none after its end.
Stream(w, t, k) ==
    /\ \A i \in DOMAIN w : IsOurs(w[i]) => w[i].n \in t + 1..k
    /\ \A n \in t + 1..k : \E i \in DOMAIN w : IsOurs(w[i]) /\ w[i].n = n
    /\ \A i, j \in DOMAIN w : i < j /\ IsOurs(w[j]) =>
          ~IsEnd(w[i]) /\ (IsOurs(w[i]) => w[i].n < w[j].n)

\* What was taken: the first t chunks, in two parts, each in its order.
Sorted(s) == \A i, j \in DOMAIN s : i < j => s[i] < s[j]
Parts(a, b, t) ==
    /\ ToSet(a) \cup ToSet(b) = 1..t /\ Len(a) + Len(b) = t
    /\ Sorted(a) /\ Sorted(b)
Taken == Len(merged) + Len(kept)

\* A stream opens with an answer, and while the hub has answered once it opens once.
AnswersOnce ==
    /\ agent.answered = 0 => NoAnswer(wire) /\ stage # "aggregating"
    /\ agent.answered <= 1 /\ stage = "aggregating" => NoAnswer(wire)
    /\ agent.answered <= 1 => OneAnswer(wire)

\* While the hub has answered once, what was taken and what is on its way is what it sent.
Whole ==
    /\ ~NoEnd(wire) => agent.completed
    /\ stage # "settled" /\ agent.answered <= 1 =>
        /\ Taken <= Len(agent.sent) /\ Stream(wire, Taken, Len(agent.sent))
        /\ Parts(merged, kept, Taken)

CInv ==
    /\ CommandTypes
    /\ Idle
    /\ Windows
    /\ AnswersOnce
    /\ Whole
    /\ RowsOnce
\* Appending to a sequence of numbers.
LEMMA AppendIs ==
    ASSUME NEW S, NEW s \in Seq(S), NEW e \in S
    PROVE  /\ Append(s, e) \in Seq(S) /\ ToSet(Append(s, e)) = ToSet(s) \cup {e}
           /\ Len(Append(s, e)) = Len(s) + 1 /\ Len(s) \in Nat
           /\ DOMAIN s = 1..Len(s) /\ DOMAIN Append(s, e) = 1..Len(s) + 1
           /\ \A i \in 1..Len(s) : Append(s, e)[i] = s[i]
           /\ Append(s, e)[Len(s) + 1] = e
<1>1. /\ Append(s, e) \in Seq(S) /\ Len(Append(s, e)) = Len(s) + 1
      /\ \A i \in 1..Len(s) : Append(s, e)[i] = s[i]
      /\ Append(s, e)[Len(s) + 1] = e
  BY AppendProperties
<1>2. /\ Len(s) \in Nat /\ DOMAIN s = 1..Len(s) /\ DOMAIN Append(s, e) = 1..Len(s) + 1
  BY <1>1, LenProperties
<1>3. ToSet(Append(s, e)) \subseteq ToSet(s) \cup {e}
  BY <1>1, <1>2 DEF ToSet
<1>4. ToSet(s) \cup {e} \subseteq ToSet(Append(s, e))
  BY <1>1, <1>2 DEF ToSet
<1>5. QED BY <1>1, <1>2, <1>3, <1>4

\* A message appended to the wire: the positions and messages before it stay.
LEMMA WireAppend ==
    ASSUME NEW w \in Seq(Message), NEW m \in Message
    PROVE  /\ \A i \in DOMAIN Append(w, m) :
                \/ i \in DOMAIN w /\ Append(w, m)[i] = w[i]
                \/ i = Len(w) + 1 /\ i \notin DOMAIN w /\ Append(w, m)[i] = m
           /\ \A i \in DOMAIN w : i \in DOMAIN Append(w, m) /\ Append(w, m)[i] = w[i]
           /\ \A i \in DOMAIN w : i \in Nat /\ i < Len(w) + 1
           /\ Len(w) \in Nat /\ Append(w, m) \in Seq(Message)
           /\ Len(w) + 1 \in DOMAIN Append(w, m) /\ Append(w, m)[Len(w) + 1] = m
<1>1. /\ Append(w, m) \in Seq(Message) /\ Len(w) \in Nat
      /\ DOMAIN w = 1..Len(w) /\ DOMAIN Append(w, m) = 1..Len(w) + 1
      /\ \A i \in 1..Len(w) : Append(w, m)[i] = w[i]
      /\ Append(w, m)[Len(w) + 1] = m
  BY AppendIs
<1>2. \A i \in 1..Len(w) + 1 : i \in 1..Len(w) \/ (i = Len(w) + 1 /\ i \notin 1..Len(w)) BY <1>1
<1>3. \A i \in 1..Len(w) : i \in Nat /\ i < Len(w) + 1 /\ i \in 1..Len(w) + 1 BY <1>1
<1>4. Len(w) + 1 \in 1..Len(w) + 1 BY <1>1
<1>5. QED BY <1>1, <1>2, <1>3, <1>4

\* What comes that is no chunk of ours leaves the stream as it was.
LEMMA StreamPassed ==
    ASSUME NEW w \in Seq(Message), NEW m \in Message, NEW t \in Nat, NEW k \in Nat,
           Stream(w, t, k), ~IsOurs(m)
    PROVE  Stream(Append(w, m), t, k)
<1> DEFINE v == Append(w, m)
<1>1. /\ \A i \in DOMAIN v : \/ i \in DOMAIN w /\ v[i] = w[i]
                             \/ i = Len(w) + 1 /\ i \notin DOMAIN w /\ v[i] = m
      /\ \A i \in DOMAIN w : i \in DOMAIN v /\ v[i] = w[i]
      /\ \A i \in DOMAIN w : i \in Nat /\ i < Len(w) + 1
      /\ Len(w) \in Nat
  BY WireAppend
<1> HIDE DEF v
<1>2. \A i \in DOMAIN v : IsOurs(v[i]) => i \in DOMAIN w /\ v[i] = w[i] BY <1>1
<1>3. \A i \in DOMAIN v : IsOurs(v[i]) => v[i].n \in t + 1..k BY <1>2 DEF Stream
<1>4. \A n \in t + 1..k : \E i \in DOMAIN v : IsOurs(v[i]) /\ v[i].n = n BY <1>1 DEF Stream
<1>5. ASSUME NEW i \in DOMAIN v, NEW j \in DOMAIN v, i < j, IsOurs(v[j])
      PROVE  ~IsEnd(v[i]) /\ (IsOurs(v[i]) => v[i].n < v[j].n)
  <2>1. j \in DOMAIN w /\ v[j] = w[j] BY <1>2, <1>5
  <2>2. i \in DOMAIN w
    <3>1. SUFFICES ASSUME i = Len(w) + 1 PROVE FALSE BY <1>1
    <3>2. j < Len(w) + 1 /\ j \in Nat BY <1>1, <2>1
    <3>3. QED BY <3>1, <3>2, <1>1, <1>5
  <2>3. v[i] = w[i] BY <1>1, <2>2
  <2>4. QED BY <2>1, <2>2, <2>3, <1>5 DEF Stream
<1>6. Stream(v, t, k) BY <1>3, <1>4, <1>5 DEF Stream
<1>7. QED BY <1>6 DEF v

\* The next chunk is sent, before the end of the stream.
LEMMA StreamSent ==
    ASSUME NEW w \in Seq(Message), NEW m \in Message, NEW t \in Nat, NEW k \in Nat,
           Stream(w, t, k), t <= k, IsOurs(m), m.n = k + 1, NoEnd(w)
    PROVE  Stream(Append(w, m), t, k + 1)
<1> DEFINE v == Append(w, m)
<1>1. /\ \A i \in DOMAIN v : \/ i \in DOMAIN w /\ v[i] = w[i]
                             \/ i = Len(w) + 1 /\ i \notin DOMAIN w /\ v[i] = m
      /\ \A i \in DOMAIN w : i \in DOMAIN v /\ v[i] = w[i]
      /\ \A i \in DOMAIN w : i \in Nat /\ i < Len(w) + 1
      /\ Len(w) \in Nat /\ Len(w) + 1 \in DOMAIN v /\ v[Len(w) + 1] = m
  BY WireAppend
<1> HIDE DEF v
<1>2. \A n \in t + 1..k + 1 : n \in t + 1..k \/ n = k + 1 OBVIOUS
<1>3. t + 1..k \subseteq t + 1..k + 1 /\ k + 1 \in t + 1..k + 1 OBVIOUS
<1>4. \A n \in t + 1..k : n \in Nat /\ n < k + 1 OBVIOUS
<1>5. \A i \in DOMAIN v : IsOurs(v[i]) => v[i].n \in t + 1..k + 1 BY <1>1, <1>3 DEF Stream
<1>6. \A n \in t + 1..k + 1 : \E i \in DOMAIN v : IsOurs(v[i]) /\ v[i].n = n
  BY <1>1, <1>2, SMTT(30) DEF Stream
<1>7. ASSUME NEW i \in DOMAIN v, NEW j \in DOMAIN v, i < j, IsOurs(v[j])
      PROVE  ~IsEnd(v[i]) /\ (IsOurs(v[i]) => v[i].n < v[j].n)
  <2>1. i \in DOMAIN w /\ v[i] = w[i]
    <3>1. SUFFICES ASSUME i = Len(w) + 1 PROVE FALSE BY <1>1
    <3>2. j \in Nat /\ j <= Len(w) + 1 BY <1>1
    <3>3. QED BY <3>1, <3>2, <1>1, <1>7
  <2>2. CASE j \in DOMAIN w
    <3>1. v[j] = w[j] BY <2>2, <1>1
    <3>2. QED BY <2>1, <2>2, <3>1, <1>7 DEF Stream
  <2>3. CASE j \notin DOMAIN w
    <3>1. v[j].n = k + 1 BY <2>3, <1>1
    <3>2. ~IsEnd(v[i]) BY <2>1 DEF NoEnd
    <3>3. IsOurs(v[i]) => v[i].n < k + 1 BY <2>1, <1>4 DEF Stream
    <3>4. QED BY <3>1, <3>2, <3>3
  <2>4. QED BY <2>2, <2>3
<1>8. Stream(v, t, k + 1) BY <1>5, <1>6, <1>7 DEF Stream
<1>9. QED BY <1>8 DEF v

\* The head of the wire is taken: the others move up.
LEMMA WireTail ==
    ASSUME NEW w \in Seq(Message), w # <<>>
    PROVE  /\ Head(w) \in Message /\ Head(w) = w[1] /\ 1 \in DOMAIN w
           /\ Tail(w) \in Seq(Message)
           /\ \A i \in DOMAIN Tail(w) : i \in Nat \ {0} /\ i + 1 \in DOMAIN w /\ Tail(w)[i] = w[i + 1]
           /\ \A i \in DOMAIN w : /\ i \in Nat \ {0}
                                  /\ i = 1 \/ (i - 1 \in DOMAIN Tail(w) /\ Tail(w)[i - 1] = w[i])
<1>1. /\ Head(w) \in Message /\ Head(w) = w[1] /\ 1 \in DOMAIN w
      /\ Tail(w) \in Seq(Message)
      /\ DOMAIN Tail(w) = 1..Len(w) - 1 /\ DOMAIN w = 1..Len(w) /\ Len(w) \in Nat \ {0}
      /\ \A n \in DOMAIN Tail(w) : n + 1 \in DOMAIN w /\ Tail(w)[n] = w[n + 1]
      /\ \A n \in DOMAIN w : n = 1 \/ (n - 1 \in DOMAIN Tail(w) /\ Tail(w)[n - 1] = w[n])
  BY TailOf
<1>2. \A i \in 1..Len(w) - 1 : i \in Nat \ {0} BY <1>1
<1>3. \A i \in 1..Len(w) : i \in Nat \ {0} BY <1>1
<1>4. QED BY <1>1, <1>2, <1>3

\* What is skipped is no chunk of ours: the stream is as it was.
LEMMA StreamSkip ==
    ASSUME NEW w \in Seq(Message), w # <<>>, NEW t \in Nat, NEW k \in Nat,
           Stream(w, t, k), ~IsOurs(Head(w))
    PROVE  Stream(Tail(w), t, k)
<1> DEFINE v == Tail(w)
<1>1. /\ Head(w) = w[1]
      /\ \A i \in DOMAIN v : i \in Nat \ {0} /\ i + 1 \in DOMAIN w /\ v[i] = w[i + 1]
      /\ \A i \in DOMAIN w : i \in Nat \ {0} /\ (i = 1 \/ (i - 1 \in DOMAIN v /\ v[i - 1] = w[i]))
  BY WireTail
<1> HIDE DEF v
<1>2. \A i \in DOMAIN v : IsOurs(v[i]) => v[i].n \in t + 1..k BY <1>1 DEF Stream
<1>3. ASSUME NEW n \in t + 1..k PROVE \E i \in DOMAIN v : IsOurs(v[i]) /\ v[i].n = n
  <2>1. PICK i \in DOMAIN w : IsOurs(w[i]) /\ w[i].n = n BY DEF Stream
  <2>2. i # 1 BY <2>1, <1>1
  <2>3. QED BY <2>1, <2>2, <1>1
<1>4. ASSUME NEW i \in DOMAIN v, NEW j \in DOMAIN v, i < j, IsOurs(v[j])
      PROVE  ~IsEnd(v[i]) /\ (IsOurs(v[i]) => v[i].n < v[j].n)
  <2>1. /\ i + 1 \in DOMAIN w /\ v[i] = w[i + 1] /\ j + 1 \in DOMAIN w /\ v[j] = w[j + 1]
        /\ i \in Nat /\ j \in Nat BY <1>1
  <2>2. i + 1 < j + 1 BY <2>1, <1>4
  <2>3. QED BY <2>1, <2>2, <1>4 DEF Stream
<1>5. Stream(v, t, k) BY <1>2, <1>3, <1>4 DEF Stream
<1>6. QED BY <1>5 DEF v

\* The chunk taken is the next one.
LEMMA StreamNext ==
    ASSUME NEW w \in Seq(Message), w # <<>>, NEW t \in Nat, NEW k \in Nat,
           Stream(w, t, k), IsOurs(Head(w))
    PROVE  Head(w).n = t + 1 /\ t + 1 <= k /\ Stream(Tail(w), t + 1, k)
<1> DEFINE v == Tail(w)
<1>1. /\ Head(w) = w[1] /\ 1 \in DOMAIN w
      /\ \A i \in DOMAIN v : i \in Nat \ {0} /\ i + 1 \in DOMAIN w /\ v[i] = w[i + 1]
      /\ \A i \in DOMAIN w : i \in Nat \ {0} /\ (i = 1 \/ (i - 1 \in DOMAIN v /\ v[i - 1] = w[i]))
  BY WireTail
<1> HIDE DEF v
<1>2. Head(w).n \in t + 1..k BY <1>1 DEF Stream
<1>3. Head(w).n = t + 1 /\ t + 1 <= k
  <2>1. t + 1 \in t + 1..k BY <1>2
  <2>2. PICK i \in DOMAIN w : IsOurs(w[i]) /\ w[i].n = t + 1 BY <2>1 DEF Stream
  <2>3. CASE i = 1 BY <2>1, <2>2, <2>3, <1>1
  <2>4. CASE i # 1
    <3>1. 1 < i BY <2>4, <1>1
    <3>2. w[1].n < w[i].n BY <3>1, <2>2, <1>1 DEF Stream
    <3>3. QED BY <3>2, <2>2, <1>1, <1>2
  <2>5. QED BY <2>3, <2>4
<1>4. ASSUME NEW i \in DOMAIN v, IsOurs(v[i]) PROVE v[i].n \in t + 2..k
  <2>1. i + 1 \in DOMAIN w /\ v[i] = w[i + 1] /\ i + 1 \in Nat /\ 1 < i + 1 BY <1>1
  <2>2. w[i + 1].n \in t + 1..k BY <2>1, <1>4 DEF Stream
  <2>3. w[1].n < w[i + 1].n BY <2>1, <1>1, <1>4 DEF Stream
  <2>4. QED BY <2>1, <2>2, <2>3, <1>1, <1>3
<1>5. ASSUME NEW n \in t + 2..k PROVE \E i \in DOMAIN v : IsOurs(v[i]) /\ v[i].n = n
  <2>1. n \in t + 1..k /\ n # t + 1 OBVIOUS
  <2>2. PICK i \in DOMAIN w : IsOurs(w[i]) /\ w[i].n = n BY <2>1 DEF Stream
  <2>3. i # 1 BY <2>1, <2>2, <1>1, <1>3
  <2>4. QED BY <2>2, <2>3, <1>1
<1>6. ASSUME NEW i \in DOMAIN v, NEW j \in DOMAIN v, i < j, IsOurs(v[j])
      PROVE  ~IsEnd(v[i]) /\ (IsOurs(v[i]) => v[i].n < v[j].n)
  <2>1. /\ i + 1 \in DOMAIN w /\ v[i] = w[i + 1] /\ j + 1 \in DOMAIN w /\ v[j] = w[j + 1]
        /\ i \in Nat /\ j \in Nat BY <1>1
  <2>2. i + 1 < j + 1 BY <2>1, <1>6
  <2>3. QED BY <2>1, <2>2, <1>6 DEF Stream
<1>7. (t + 1) + 1 = t + 2 OBVIOUS
<1>8. Stream(v, t + 1, k) BY <1>4, <1>5, <1>6, <1>7 DEF Stream
<1>9. QED BY <1>3, <1>8 DEF v

\* When the end is taken all that was sent was taken.
LEMMA StreamEnd ==
    ASSUME NEW w \in Seq(Message), w # <<>>, NEW t \in Nat, NEW k \in Nat, t <= k,
           Stream(w, t, k), IsEnd(Head(w))
    PROVE  t = k
<1>1. SUFFICES ASSUME t # k PROVE FALSE OBVIOUS
<1>2. t + 1 \in t + 1..k BY <1>1
<1>3. PICK i \in DOMAIN w : IsOurs(w[i]) /\ w[i].n = t + 1 BY <1>2 DEF Stream
<1>4. Head(w) = w[1] /\ 1 \in DOMAIN w /\ i \in Nat \ {0} BY WireTail
<1>5. i # 1 BY <1>3, <1>4 DEF IsOurs, IsEnd
<1>6. 1 < i BY <1>4, <1>5
<1>7. QED BY <1>3, <1>4, <1>6 DEF Stream

\* A wire that holds no chunk of ours, of a stream of which nothing was sent.
LEMMA StreamNone ==
    ASSUME NEW w, \A i \in DOMAIN w : ~IsOurs(w[i])
    PROVE  Stream(w, 0, 0) /\ Parts(<<>>, <<>>, 0)
<1>1. 0 + 1..0 = {} /\ 1..0 = {} OBVIOUS
<1>2. ToSet(<<>>) = {} /\ Len(<<>>) = 0 /\ Sorted(<<>>) BY EmptySeq DEF ToSet, Sorted
<1>3. QED BY <1>1, <1>2 DEF Stream, Parts

\* The next chunk joins either part.
LEMMA PartsAppend ==
    ASSUME NEW a \in Seq(Nat), NEW b \in Seq(Nat), NEW t \in Nat, Parts(a, b, t)
    PROVE  /\ Parts(Append(a, t + 1), b, t + 1) /\ Parts(a, Append(b, t + 1), t + 1)
           /\ Append(a, t + 1) \in Seq(Nat) /\ Append(b, t + 1) \in Seq(Nat)
           /\ Len(Append(a, t + 1)) = Len(a) + 1 /\ Len(Append(b, t + 1)) = Len(b) + 1
<1>1. 1..t + 1 = (1..t) \cup {t + 1} OBVIOUS
<1>2. ASSUME NEW s \in Seq(Nat), Sorted(s), ToSet(s) \subseteq 1..t
      PROVE  Sorted(Append(s, t + 1))
  <2>1. /\ Len(s) \in Nat /\ DOMAIN s = 1..Len(s) /\ DOMAIN Append(s, t + 1) = 1..Len(s) + 1
        /\ \A i \in 1..Len(s) : Append(s, t + 1)[i] = s[i]
        /\ Append(s, t + 1)[Len(s) + 1] = t + 1
    BY AppendIs
  <2>2. \A i \in 1..Len(s) : s[i] \in 1..t BY <1>2, <2>1 DEF ToSet
  <2>3. ASSUME NEW i \in 1..Len(s) + 1, NEW j \in 1..Len(s) + 1, i < j
        PROVE  Append(s, t + 1)[i] < Append(s, t + 1)[j]
    <3>1. i \in 1..Len(s) BY <2>1, <2>3
    <3>2. CASE j \in 1..Len(s) BY <3>1, <3>2, <1>2, <2>1, <2>3 DEF Sorted
    <3>3. CASE j = Len(s) + 1
      <4>1. s[i] \in 1..t BY <3>1, <2>2
      <4>2. s[i] < t + 1 BY <4>1
      <4>3. QED BY <4>2, <3>1, <3>3, <2>1
    <3>4. QED BY <3>2, <3>3, <2>1
  <2>4. QED BY <2>1, <2>3 DEF Sorted
<1>3. /\ Append(a, t + 1) \in Seq(Nat) /\ Append(b, t + 1) \in Seq(Nat)
      /\ Len(Append(a, t + 1)) = Len(a) + 1 /\ Len(Append(b, t + 1)) = Len(b) + 1
      /\ ToSet(Append(a, t + 1)) = ToSet(a) \cup {t + 1}
      /\ ToSet(Append(b, t + 1)) = ToSet(b) \cup {t + 1}
      /\ Len(a) \in Nat /\ Len(b) \in Nat
  BY AppendIs
<1>4. Sorted(Append(a, t + 1)) /\ Sorted(Append(b, t + 1)) BY <1>2 DEF Parts
<1>5. Len(Append(a, t + 1)) + Len(b) = t + 1 /\ Len(a) + Len(Append(b, t + 1)) = t + 1
  <2>1. Len(a) + Len(b) = t BY DEF Parts
  <2>2. QED BY <2>1, <1>3
<1>6. /\ ToSet(Append(a, t + 1)) \cup ToSet(b) = 1..t + 1
      /\ ToSet(a) \cup ToSet(Append(b, t + 1)) = 1..t + 1
  BY <1>1, <1>3 DEF Parts
<1>7. QED BY <1>3, <1>4, <1>5, <1>6 DEF Parts

\* Answers on the wire.
LEMMA AnswersAppend ==
    ASSUME NEW w \in Seq(Message), NEW m \in Message
    PROVE  /\ NoAnswer(w) /\ ~IsAnswer(m) => NoAnswer(Append(w, m))
           /\ OneAnswer(w) /\ ~IsAnswer(m) => OneAnswer(Append(w, m))
           /\ NoAnswer(w) => OneAnswer(Append(w, m))
           /\ NoEnd(w) /\ ~IsEnd(m) => NoEnd(Append(w, m))
  BY WireAppend DEF NoAnswer, OneAnswer, NoEnd
\* What holds of the answers on the wire, when its head is taken.
LEMMA AnswersTail ==
    ASSUME NEW w \in Seq(Message), w # <<>>
    PROVE  /\ NoAnswer(w) => NoAnswer(Tail(w)) /\ ~IsAnswer(Head(w))
           /\ OneAnswer(w) => OneAnswer(Tail(w))
           /\ OneAnswer(w) /\ IsAnswer(Head(w)) => NoAnswer(Tail(w))
           /\ NoEnd(w) => NoEnd(Tail(w))
<1>1. /\ Head(w) = w[1] /\ 1 \in DOMAIN w
      /\ \A i \in DOMAIN Tail(w) : i \in Nat \ {0} /\ i + 1 \in DOMAIN w /\ Tail(w)[i] = w[i + 1]
  BY WireTail
<1>2. OneAnswer(w) => OneAnswer(Tail(w)) BY <1>1 DEF OneAnswer
<1>3. OneAnswer(w) /\ IsAnswer(Head(w)) => NoAnswer(Tail(w)) BY <1>1 DEF OneAnswer, NoAnswer
<1>4. QED BY <1>1, <1>2, <1>3 DEF NoAnswer, NoEnd
--------------------------------------------------------------------------------
\* The windows, for any configuration: the effective window is at least 1, at most the
\* largest allowed and at most what the agent allows; so is what is granted.
LEMMA WindowsBounded ==
    ASSUME CommandTypeOK
    PROVE  /\ EffectiveWindow(call) \in 1..MaxWindow
           /\ call.agentMax # 0 => EffectiveWindow(call) <= call.agentMax
           /\ call.agentMax \in Nat
           /\ \A w \in WindowSizes : Granted(w) \in 1..MaxWindow
<1>1. /\ MaxWindow \in Nat \ {0} /\ Fallback \in 1..MaxWindow /\ WindowSizes \subseteq Nat \ {0}
  BY StreamedCommandAssumption
<1>2. call.configured \in Nat /\ call.recommended \in Nat /\ call.agentMax \in Nat
  <2>1. WindowSizes \cup {0} \subseteq Nat BY <1>1
  <2>2. call \in [relay : BOOLEAN, aggregates : BOOLEAN, notifies : BOOLEAN, aborted : BOOLEAN,
                  configured : WindowSizes \cup {0}, recommended : WindowSizes \cup {0},
                  agentMax : WindowSizes \cup {0}]
    BY DEF CommandTypeOK, CommandCalls
  <2>3. /\ call.configured \in WindowSizes \cup {0} /\ call.recommended \in WindowSizes \cup {0}
        /\ call.agentMax \in WindowSizes \cup {0} BY <2>2
  <2>4. QED BY <2>1, <2>3
<1>3. \A a, b \in Nat \ {0} : Least(a, b) \in Nat \ {0} /\ Least(a, b) <= a /\ Least(a, b) <= b
  BY DEF Least
<1>4. /\ Ceiling(call) \in Nat \ {0} /\ Ceiling(call) <= MaxWindow
      /\ call.agentMax # 0 => Ceiling(call) <= call.agentMax
  BY <1>1, <1>2, <1>3 DEF Ceiling, Hint
<1>5. Preferred(call) \in Nat \ {0} BY <1>1, <1>2, <1>3 DEF Preferred, Hint
<1>6. /\ EffectiveWindow(call) \in Nat \ {0} /\ EffectiveWindow(call) <= Ceiling(call)
  BY <1>3, <1>4, <1>5 DEF EffectiveWindow
<1>7. \A w \in WindowSizes : Granted(w) \in Nat \ {0} /\ Granted(w) <= MaxWindow
  BY <1>1, <1>3 DEF Granted
<1>8. QED BY <1>1, <1>2, <1>4, <1>6, <1>7

\* The types, in pieces.
LEMMA CommandPieces ==
    ASSUME CommandTypes
    PROVE  /\ call \in CommandCalls /\ up \in BOOLEAN /\ admitted \in BOOLEAN /\ early \in BOOLEAN
           /\ agent.answered \in Nat /\ agent.sent \in Seq(Nat) /\ agent.completed \in BOOLEAN
           /\ Len(agent.sent) \in Nat /\ Len(merged) \in Nat /\ Len(kept) \in Nat
           /\ Taken \in Nat
<1>1. agent.sent \in Seq(Nat) /\ merged \in Seq(Nat) /\ kept \in Seq(Nat)
      /\ agent.answered \in Nat /\ agent.completed \in BOOLEAN
  BY DEF CommandTypes
<1>2. Len(agent.sent) \in Nat /\ Len(merged) \in Nat /\ Len(kept) \in Nat BY <1>1, LenProperties
<1>3. Taken \in Nat BY <1>2 DEF Taken
<1>4. call \in CommandCalls /\ up \in BOOLEAN /\ admitted \in BOOLEAN /\ early \in BOOLEAN
  BY DEF CommandTypes, CommandTypeOK
<1>5. QED BY <1>1, <1>2, <1>3, <1>4

\* Every end passes through the one cleanup; it may end as streamed when what was taken
\* is what was sent.
LEMMA EndKeeps ==
    ASSUME CInv, NEW how \in {"failed", "answered", "streamed", "notified"}, CleanedUp(how),
           up' \in BOOLEAN, early' \in BOOLEAN, response' \in {"none", "plain", "rows"},
           merged' \in Seq(Nat), kept' \in Seq(Nat),
           how = "streamed" /\ agent.answered = 1 => Parts(merged', kept', Len(agent.sent))
    PROVE  CInv'
<1>1. /\ stage' = "settled" /\ outcome' = how /\ held' = {} /\ wire' = <<>>
      /\ pull' = 0 /\ pullKeys' = {}
      /\ call' = call /\ admitted' = admitted /\ windows' = windows /\ agent' = agent
  BY DEF CleanedUp, PullKeysAfter
<1>2. CommandTypes'
  <2>1. CommandTypeOK' BY <1>1 DEF CInv, CommandTypes, CommandTypeOK
  <2>2. wire' \in Seq(Message) BY <1>1, EmptySeq
  <2>3. QED BY <1>1, <2>1, <2>2 DEF CInv, CommandTypes
<1>3. Idle' BY <1>1 DEF Idle, Before
<1>4. Windows' BY <1>1 DEF CInv, Windows
<1>5. NoAnswer(<<>>) /\ OneAnswer(<<>>) /\ NoEnd(<<>>)
  BY EmptySeq DEF NoAnswer, OneAnswer, NoEnd
<1>6. AnswersOnce' BY <1>1, <1>5 DEF AnswersOnce
<1>7. Whole' BY <1>1, <1>5 DEF Whole
<1>8. RowsOnce' BY <1>1 DEF RowsOnce, Parts, Sorted
<1>9. QED BY <1>2, <1>3, <1>4, <1>6, <1>7, <1>8 DEF CInv

\* An end that is no result, and one with the rows as they were.
LEMMA EndedKeeps ==
    ASSUME CInv, NEW how \in {"failed", "answered", "notified"}, Ended(how)
    PROVE  CInv'
<1>1. CleanedUp(how) /\ up' = up /\ early' = early /\ response' = response
      /\ merged' = merged /\ kept' = kept
  BY DEF Ended, rows
<1>2. up' \in BOOLEAN /\ early' \in BOOLEAN BY <1>1, CommandPieces DEF CInv
<1>3. /\ response' \in {"none", "plain", "rows"} /\ merged' \in Seq(Nat) /\ kept' \in Seq(Nat)
  BY <1>1 DEF CInv, CommandTypes
<1>4. QED BY <1>1, <1>2, <1>3, EndKeeps
\* The link changes and nothing else: the connection, the admission, what is held.
LEMMA LinkKeeps ==
    ASSUME CInv, UNCHANGED <<call, wire, rows, asked, agent>>, CommandTypeOK',
           \/ stage' = stage
           \/ /\ stage \in {"connecting", "decoding"}
              /\ stage' \in {"decoding", "awaiting", "settled"},
           stage' = "settled" => held' \cap {"waiters", "route", "listeners"} = {},
           outcome' = outcome \/ outcome' = "failed"
    PROVE  CInv'
<1>1. /\ call' = call /\ wire' = wire /\ response' = response /\ merged' = merged
      /\ kept' = kept /\ early' = early /\ pull' = pull /\ pullKeys' = pullKeys
      /\ windows' = windows /\ agent' = agent
  BY DEF rows, asked
<1>2. CommandTypes' BY <1>1 DEF CInv, CommandTypes
<1>3. Idle' BY <1>1 DEF CInv, Idle, Before
<1>4. Windows' /\ AnswersOnce' BY <1>1 DEF CInv, Windows, AnswersOnce
<1>5. Whole'
  <2>1. Taken' = Taken BY <1>1 DEF Taken
  <2>2. stage' # "settled" => stage # "settled" OBVIOUS
  <2>3. QED BY <1>1, <2>1, <2>2 DEF CInv, Whole
<1>6. RowsOnce' BY <1>1 DEF CInv, RowsOnce
<1>7. QED BY <1>2, <1>3, <1>4, <1>5, <1>6 DEF CInv

\* The hub sends something that is no chunk of ours.
LEMMA PutKeeps ==
    ASSUME CInv, Listens, NEW m \in Message, ~IsOurs(m), wire' = Append(wire, m),
           UNCHANGED <<call, link, rows, asked>>,
           agent' \in [answered : Nat, sent : Seq(Nat), completed : BOOLEAN],
           agent'.sent = agent.sent, agent.completed => agent'.completed,
           IsAnswer(m) => agent'.answered = agent.answered + 1,
           ~IsAnswer(m) => agent'.answered = agent.answered,
           IsEnd(m) => agent'.completed,
           m.is = "window" => pull # 0
    PROVE  CInv'
<1>1. /\ call' = call /\ stage' = stage /\ held' = held /\ up' = up /\ admitted' = admitted
      /\ outcome' = outcome /\ response' = response /\ merged' = merged
      /\ kept' = kept /\ early' = early /\ pull' = pull /\ pullKeys' = pullKeys
      /\ windows' = windows
  BY DEF rows, asked, link
<1>2. stage \in {"awaiting", "aggregating", "rejected"} /\ outcome = "none"
  BY DEF Listens, CInv, CommandTypes, CommandTypeOK
<1>3. wire \in Seq(Message) /\ agent.answered \in Nat /\ Len(agent.sent) \in Nat /\ Taken \in Nat
  BY CommandPieces DEF CInv, CommandTypes
<1>4. CommandTypes'
  <2>1. wire' \in Seq(Message) BY <1>3, WireAppend
  <2>2. CommandTypeOK' BY <1>1 DEF CInv, CommandTypes, CommandTypeOK
  <2>3. QED BY <1>1, <2>1, <2>2 DEF CInv, CommandTypes
<1>5. Idle'
  <2>1. Before => \A i \in DOMAIN wire' : wire'[i].is # "window" /\ ~IsOurs(wire'[i])
    BY <1>3, WireAppend DEF CInv, Idle
  <2>2. QED BY <1>1, <1>2, <2>1 DEF CInv, Idle, Before
<1>6. Windows' BY <1>1 DEF CInv, Windows
<1>7. AnswersOnce'
  <2>1. CASE IsAnswer(m)
    <3>1. agent'.answered # 0 /\ (agent'.answered <= 1 => agent.answered = 0) BY <2>1, <1>3
    <3>2. agent.answered = 0 => OneAnswer(wire') /\ stage # "aggregating"
      BY <1>3, AnswersAppend DEF CInv, AnswersOnce
    <3>3. QED BY <3>1, <3>2, <1>1 DEF AnswersOnce
  <2>2. CASE ~IsAnswer(m) BY <2>2, <1>1, <1>3, AnswersAppend DEF CInv, AnswersOnce
  <2>3. QED BY <2>1, <2>2
<1>8. Whole'
  <2>1. Taken' = Taken BY <1>1 DEF Taken
  <2>2. ~NoEnd(wire') => agent'.completed BY <1>3, AnswersAppend DEF CInv, Whole
  <2>3. agent'.answered <= 1 => agent.answered <= 1 BY <1>3
  <2>4. ASSUME agent'.answered <= 1 PROVE Stream(wire', Taken, Len(agent.sent))
    BY <2>3, <2>4, <1>2, <1>3, StreamPassed DEF CInv, Whole
  <2>5. QED BY <1>1, <1>2, <2>1, <2>2, <2>3, <2>4 DEF CInv, Whole
<1>9. RowsOnce' BY <1>1, <1>2 DEF RowsOnce
<1>10. QED BY <1>4, <1>5, <1>6, <1>7, <1>8, <1>9 DEF CInv

\* The hub sends the next chunk.
LEMMA ChunkSentKeeps ==
    ASSUME CInv, HubStreams("ours")
    PROVE  CInv'
<1> DEFINE k == Len(agent.sent)
           m == [is |-> "chunk", as |-> "ours", n |-> k + 1]
<1>1. /\ ~agent.completed /\ windows # {} /\ Listens
      /\ wire' = Append(wire, m) /\ agent' = [agent EXCEPT !.sent = Append(@, k + 1)]
      /\ call' = call /\ stage' = stage /\ held' = held /\ up' = up /\ admitted' = admitted
      /\ outcome' = outcome /\ response' = response /\ merged' = merged
      /\ kept' = kept /\ early' = early /\ pull' = pull /\ pullKeys' = pullKeys
      /\ windows' = windows
  BY DEF HubStreams, Puts, link, rows, asked
<1>2. /\ wire \in Seq(Message) /\ agent.answered \in Nat /\ k \in Nat /\ Taken \in Nat
      /\ agent.sent \in Seq(Nat) /\ agent.completed \in BOOLEAN
  BY CommandPieces DEF CInv, CommandTypes
<1>3. /\ agent'.sent = Append(agent.sent, k + 1) /\ agent'.answered = agent.answered
      /\ agent'.completed = agent.completed
      /\ agent' \in [answered : Nat, sent : Seq(Nat), completed : BOOLEAN]
      /\ Len(agent'.sent) = k + 1
  <2>1. Append(agent.sent, k + 1) \in Seq(Nat) /\ Len(Append(agent.sent, k + 1)) = k + 1
    BY <1>2, AppendIs
  <2> HIDE DEF k
  <2>2. QED BY <1>1, <2>1 DEF CInv, CommandTypes
<1>4. m \in Message /\ IsOurs(m) /\ m.n = k + 1 /\ ~IsAnswer(m) /\ ~IsEnd(m) /\ m.is # "window"
  BY <1>2 DEF Message, IsOurs, IsAnswer, IsEnd
<1>5. NoEnd(wire) BY <1>1, <1>2 DEF CInv, Whole
<1>6. stage \in {"aggregating", "rejected"} /\ outcome = "none"
  BY <1>1 DEF Listens, CInv, Idle, Before, CommandTypes, CommandTypeOK
<1> HIDE DEF m, k
<1>7. CommandTypes'
  <2>1. wire' \in Seq(Message) BY <1>1, <1>2, <1>4, WireAppend
  <2>2. CommandTypeOK' BY <1>1 DEF CInv, CommandTypes, CommandTypeOK
  <2>3. QED BY <1>1, <1>3, <2>1, <2>2 DEF CInv, CommandTypes
<1>8. Idle' BY <1>1, <1>6 DEF CInv, Idle, Before
<1>9. Windows' BY <1>1 DEF CInv, Windows
<1>10. AnswersOnce' BY <1>1, <1>2, <1>3, <1>4, AnswersAppend DEF CInv, AnswersOnce
<1>11. Whole'
  <2>1. Taken' = Taken BY <1>1 DEF Taken
  <2>2. NoEnd(wire') BY <1>1, <1>2, <1>4, <1>5, AnswersAppend
  <2>3. SUFFICES ASSUME agent.answered <= 1
                 PROVE  /\ Taken <= k + 1 /\ Stream(wire', Taken, k + 1)
                        /\ Parts(merged, kept, Taken)
    BY <1>1, <1>3, <2>1, <2>2 DEF Whole
  <2>4. Taken <= k /\ Stream(wire, Taken, k) /\ Parts(merged, kept, Taken)
    BY <1>6, <2>3 DEF CInv, Whole, k
  <2>5. Stream(wire', Taken, k + 1) BY <1>1, <1>2, <1>4, <1>5, <2>4, StreamSent
  <2>6. Taken <= k + 1 BY <1>2, <2>4
  <2>7. QED BY <2>4, <2>5, <2>6
<1>12. RowsOnce' BY <1>1, <1>6 DEF RowsOnce
<1>13. QED BY <1>7, <1>8, <1>9, <1>10, <1>11, <1>12 DEF CInv

\* Something is taken from the wire that is no chunk of ours and opens no stream.
LEMMA TakeKeeps ==
    ASSUME CInv, Listens, stage # "rejected", wire # <<>>, ~IsOurs(Head(wire)), wire' = Tail(wire),
           UNCHANGED <<call, link, agent, response, merged, kept>>, early' \in BOOLEAN,
           \/ pull' = pull /\ pullKeys' = pullKeys /\ windows' = windows
           \/ /\ pull' = 0 /\ pullKeys' = {} /\ stage = "aggregating"
              /\ windows' \subseteq 1..MaxWindow
    PROVE  CInv'
<1>1. /\ call' = call /\ stage' = stage /\ held' = held /\ up' = up /\ admitted' = admitted
      /\ outcome' = outcome /\ response' = response /\ merged' = merged
      /\ kept' = kept /\ agent' = agent
  BY DEF link
<1>2. stage \in {"awaiting", "aggregating"} /\ outcome = "none"
  BY DEF Listens, CInv, CommandTypes, CommandTypeOK
<1>3. wire \in Seq(Message) /\ agent.answered \in Nat /\ Len(agent.sent) \in Nat /\ Taken \in Nat
  BY CommandPieces DEF CInv, CommandTypes
<1>4. /\ wire' \in Seq(Message)
      /\ \A i \in DOMAIN wire' : i + 1 \in DOMAIN wire /\ wire'[i] = wire[i + 1]
  BY <1>3, WireTail
<1>5. CommandTypes'
  <2>1. CommandTypeOK' BY <1>1 DEF CInv, CommandTypes, CommandTypeOK
  <2>2. QED BY <1>1, <1>4, <2>1 DEF CInv, CommandTypes
<1>6. Idle' BY <1>1, <1>2, <1>4 DEF CInv, Idle, Before
<1>7. Windows' BY <1>1 DEF CInv, Windows
<1>8. AnswersOnce' BY <1>1, <1>3, AnswersTail DEF CInv, AnswersOnce
<1>9. Whole'
  <2>1. Taken' = Taken BY <1>1 DEF Taken
  <2>2. ~NoEnd(wire') => agent.completed BY <1>3, AnswersTail DEF CInv, Whole
  <2>3. ASSUME agent.answered <= 1 PROVE Stream(wire', Taken, Len(agent.sent))
    BY <2>3, <1>2, <1>3, StreamSkip DEF CInv, Whole
  <2>4. QED BY <1>1, <1>2, <2>1, <2>2, <2>3 DEF CInv, Whole
<1>10. RowsOnce' BY <1>1, <1>2 DEF RowsOnce
<1>11. QED BY <1>5, <1>6, <1>7, <1>8, <1>9, <1>10 DEF CInv
\* An answer opens a stream.
LEMMA OpensKeeps ==
    ASSUME CInv, NEW a \in Openings, OpensStream(a)
    PROVE  CInv'
<1>1. /\ Listens /\ stage # "rejected" /\ wire # <<>> /\ Head(wire).is = "answer"
      /\ response' \in {"none", "plain", "rows"} /\ merged' = <<>> /\ kept' = kept
      /\ up' = up /\ early' = FALSE
  BY DEF OpensStream, TakesAnswer, NextIs
<1>2. stage \in {"awaiting", "aggregating"} /\ outcome = "none"
  BY <1>1 DEF Listens, CInv, CommandTypes, CommandTypeOK
<1>3. wire \in Seq(Message) /\ agent.answered \in Nat /\ Len(agent.sent) \in Nat /\ up \in BOOLEAN
      /\ kept \in Seq(Nat)
  BY CommandPieces DEF CInv, CommandTypes
<1>4. IsAnswer(Head(wire)) /\ ~IsOurs(Head(wire)) BY <1>1 DEF IsAnswer, IsOurs
<1>5. ~NoAnswer(wire) BY <1>1, <1>3, <1>4, AnswersTail
<1>6. agent.answered # 0 /\ (agent.answered <= 1 => stage = "awaiting")
  BY <1>2, <1>5 DEF CInv, AnswersOnce
<1>7. stage = "awaiting" => agent.sent = <<>> /\ merged = <<>> /\ kept = <<>>
  BY DEF CInv, Idle, Before
<1>8. Len(<<>>) = 0 /\ <<>> \in Seq(Nat) BY EmptySeq
<1>9. Parts(<<>>, <<>>, 0) /\ 0 + 0 = 0
  <2>1. \A i \in DOMAIN <<>> : ~IsOurs(<<>>[i]) BY EmptySeq
  <2>2. Parts(<<>>, <<>>, 0) BY <2>1, StreamNone
  <2>3. QED BY <2>2
<1>10. CASE early
  <2>1. CleanedUp("streamed") BY <1>10 DEF OpensStream
  <2>2. agent.answered = 1 => Parts(merged', kept', Len(agent.sent))
    BY <1>1, <1>6, <1>7, <1>8, <1>9
  <2>3. early' \in BOOLEAN /\ up' \in BOOLEAN /\ merged' \in Seq(Nat) /\ kept' \in Seq(Nat)
    BY <1>1, <1>3, <1>8
  <2>4. QED BY <2>1, <2>2, <2>3, <1>1, EndKeeps
<1>11. CASE ~early
  <2>1. /\ stage' = "aggregating" /\ wire' = Tail(wire)
        /\ call' = call /\ held' = held /\ admitted' = admitted /\ outcome' = outcome
        /\ pull' = pull /\ pullKeys' = pullKeys /\ windows' = windows /\ agent' = agent
    BY <1>11 DEF OpensStream, asked
  <2>2. wire' \in Seq(Message) BY <2>1, <1>1, <1>3, WireTail
  <2>3. CommandTypes'
    <3>1. CommandTypeOK' BY <1>1, <1>2, <2>1 DEF CInv, CommandTypes, CommandTypeOK
    <3>2. QED BY <1>1, <1>8, <2>1, <2>2, <3>1 DEF CInv, CommandTypes
  <2>4. Idle' BY <1>2, <2>1 DEF CInv, Idle, Before
  <2>5. Windows' BY <2>1 DEF CInv, Windows
  <2>6. AnswersOnce'
    <3>1. agent.answered <= 1 => NoAnswer(wire')
      BY <1>1, <1>3, <1>4, <2>1, AnswersTail DEF CInv, AnswersOnce
    <3>2. NoAnswer(wire') => OneAnswer(wire') BY DEF NoAnswer, OneAnswer
    <3>3. QED BY <1>6, <2>1, <3>1, <3>2 DEF AnswersOnce
  <2>7. Whole'
    <3>1. ~NoEnd(wire') => agent'.completed
      BY <1>1, <1>3, <2>1, AnswersTail DEF CInv, Whole
    <3>2. ASSUME agent.answered <= 1
          PROVE  /\ Taken' <= Len(agent.sent) /\ Stream(wire', Taken', Len(agent.sent))
                 /\ Parts(merged', kept', Taken')
      <4>1. agent.sent = <<>> /\ merged = <<>> /\ kept = <<>> BY <3>2, <1>6, <1>7
      <4>2. Taken = 0 /\ Taken' = 0 /\ Len(agent.sent) = 0
        BY <4>1, <1>1, <1>8, <1>9 DEF Taken
      <4>3. Stream(wire, 0, 0) BY <3>2, <4>2, <1>2 DEF CInv, Whole
      <4>4. Stream(wire', 0, 0) BY <4>3, <2>1, <1>1, <1>3, <1>4, StreamSkip
      <4>5. Parts(merged', kept', 0) BY <4>1, <1>1, <1>9
      <4>6. QED BY <4>2, <4>4, <4>5
    <3>3. QED BY <2>1, <3>1, <3>2 DEF Whole
  <2>8. RowsOnce' BY <1>2, <2>1 DEF RowsOnce
  <2>9. QED BY <2>3, <2>4, <2>5, <2>6, <2>7, <2>8 DEF CInv
<1>12. QED BY <1>10, <1>11

\* A chunk is counted in, merged or kept, whether it is within the limits or not.
LEMMA TakesChunkKeeps == CInv /\ (TakesChunk \/ ChunkOverLimit) => CInv'
<1> SUFFICES ASSUME CInv, TakesChunk \/ ChunkOverLimit PROVE CInv'
  OBVIOUS
<1> DEFINE n == Head(wire).n
<1>1. /\ wire # <<>> /\ IsOurs(Head(wire)) /\ stage = "aggregating"
      /\ wire' = Tail(wire) /\ stage' \in {stage, "rejected"}
      /\ call' = call /\ held' = held /\ up' = up /\ admitted' = admitted
      /\ outcome' = outcome /\ response' = response /\ early' = early /\ pull' = pull
      /\ pullKeys' = pullKeys /\ windows' = windows /\ agent' = agent
  BY DEF TakesChunk, ChunkOverLimit, CountsChunk, NextIs, Ours, IsOurs, asked
<1>2. \/ merged' = Append(merged, n) /\ kept' = kept
      \/ merged' = merged /\ kept' = Append(kept, n)
  BY DEF TakesChunk, ChunkOverLimit, CountsChunk, KeptAfter
<1>3. /\ wire \in Seq(Message) /\ agent.answered \in Nat /\ Len(agent.sent) \in Nat /\ Taken \in Nat
      /\ merged \in Seq(Nat) /\ kept \in Seq(Nat) /\ Len(merged) \in Nat /\ Len(kept) \in Nat
  BY CommandPieces DEF CInv, CommandTypes
<1>4. wire' \in Seq(Message) /\ Head(wire) \in Message BY <1>1, <1>3, WireTail
<1>5. n \in Nat BY <1>1, <1>4 DEF Message, IsOurs
<1>6. outcome = "none" BY <1>1 DEF CInv, CommandTypes, CommandTypeOK
<1> HIDE DEF n
<1>7. /\ merged' \in Seq(Nat) /\ kept' \in Seq(Nat) /\ Len(merged') + Len(kept') = Taken + 1
  <2>1. /\ Append(merged, n) \in Seq(Nat) /\ Len(Append(merged, n)) = Len(merged) + 1
        /\ Append(kept, n) \in Seq(Nat) /\ Len(Append(kept, n)) = Len(kept) + 1
    BY <1>3, <1>5, AppendIs
  <2>2. CASE merged' = Append(merged, n) /\ kept' = kept BY <2>1, <2>2, <1>3 DEF Taken
  <2>3. CASE merged' = merged /\ kept' = Append(kept, n) BY <2>1, <2>3, <1>3 DEF Taken
  <2>4. QED BY <1>2, <2>2, <2>3
<1>8. Taken' = Taken + 1 BY <1>7 DEF Taken
<1>9. CommandTypes'
  <2>1. CommandTypeOK' BY <1>1 DEF CInv, CommandTypes, CommandTypeOK
  <2>2. QED BY <1>1, <1>4, <1>7, <2>1 DEF CInv, CommandTypes
<1>10. Idle' BY <1>1 DEF CInv, Idle, Before
<1>11. Windows' BY <1>1 DEF CInv, Windows
<1>12. AnswersOnce' BY <1>1, <1>3, AnswersTail DEF CInv, AnswersOnce
<1>13. Whole'
  <2>1. ~NoEnd(wire') => agent'.completed BY <1>1, <1>3, AnswersTail DEF CInv, Whole
  <2>2. ASSUME agent.answered <= 1
        PROVE  /\ Taken + 1 <= Len(agent.sent) /\ Stream(wire', Taken + 1, Len(agent.sent))
               /\ Parts(merged', kept', Taken + 1)
    <3>1. Stream(wire, Taken, Len(agent.sent)) /\ Parts(merged, kept, Taken)
      BY <2>2, <1>1 DEF CInv, Whole
    <3>2. /\ n = Taken + 1 /\ Taken + 1 <= Len(agent.sent)
          /\ Stream(wire', Taken + 1, Len(agent.sent))
      BY <3>1, <1>1, <1>3, StreamNext DEF n
    <3>3. Parts(merged', kept', Taken + 1)
      <4>1. /\ Parts(Append(merged, Taken + 1), kept, Taken + 1)
            /\ Parts(merged, Append(kept, Taken + 1), Taken + 1)
        BY <3>1, <1>3, PartsAppend
      <4>2. \/ merged' = Append(merged, Taken + 1) /\ kept' = kept
            \/ merged' = merged /\ kept' = Append(kept, Taken + 1)
        BY <3>2, <1>2
      <4>3. QED BY <4>1, <4>2
    <3>4. QED BY <3>2, <3>3
  <2>3. QED BY <1>1, <1>8, <2>1, <2>2 DEF Whole
<1>14. RowsOnce' BY <1>1, <1>6 DEF RowsOnce
<1>15. QED BY <1>9, <1>10, <1>11, <1>12, <1>13, <1>14 DEF CInv

\* A malformed chunk is taken off the wire.
LEMMA MalformedKeeps == CInv /\ MalformedItem => CInv'
<1> SUFFICES ASSUME CInv, MalformedItem PROVE CInv'
  OBVIOUS
<1>1. /\ Listens /\ stage # "rejected" /\ wire # <<>> /\ ~IsOurs(Head(wire))
      /\ wire' = Tail(wire) /\ stage' = "rejected"
      /\ call' = call /\ held' = held /\ up' = up /\ admitted' = admitted /\ outcome' = outcome
      /\ response' = response /\ merged' = merged /\ kept' = kept /\ early' = early
      /\ pull' = pull /\ pullKeys' = pullKeys /\ windows' = windows /\ agent' = agent
  BY DEF MalformedItem, NextIs, IsOurs, rows, asked
<1>2. stage \in {"awaiting", "aggregating"} /\ outcome = "none"
  BY <1>1 DEF Listens, CInv, CommandTypes, CommandTypeOK
<1>3. wire \in Seq(Message) /\ agent.answered \in Nat /\ Len(agent.sent) \in Nat /\ Taken \in Nat
  BY CommandPieces DEF CInv, CommandTypes
<1>4. wire' \in Seq(Message)
  BY <1>1, <1>3, WireTail
<1>5. CommandTypes'
  <2>1. CommandTypeOK' BY <1>1, <1>2 DEF CInv, CommandTypes, CommandTypeOK
  <2>2. QED BY <1>1, <1>4, <2>1 DEF CInv, CommandTypes
<1>6. Idle' BY <1>1, <1>2 DEF CInv, Idle, Before
<1>7. Windows' BY <1>1 DEF CInv, Windows
<1>8. AnswersOnce' BY <1>1, <1>3, AnswersTail DEF CInv, AnswersOnce
<1>9. Whole'
  <2>1. Taken' = Taken BY <1>1 DEF Taken
  <2>2. ~NoEnd(wire') => agent.completed BY <1>1, <1>3, AnswersTail DEF CInv, Whole
  <2>3. ASSUME agent.answered <= 1 PROVE Stream(wire', Taken, Len(agent.sent))
    BY <2>3, <1>1, <1>2, <1>3, StreamSkip DEF CInv, Whole
  <2>4. QED BY <1>1, <1>2, <2>1, <2>2, <2>3 DEF CInv, Whole
<1>10. RowsOnce' BY <1>1, <1>2 DEF RowsOnce
<1>11. QED BY <1>5, <1>6, <1>7, <1>8, <1>9, <1>10 DEF CInv

\* The end of the stream is taken: all the hub sent is there.
LEMMA TakesCompleteKeeps == CInv /\ TakesComplete => CInv'
<1> SUFFICES ASSUME CInv, TakesComplete PROVE CInv'
  OBVIOUS
<1>1. /\ wire # <<>> /\ IsEnd(Head(wire)) /\ stage = "aggregating" /\ CleanedUp("streamed")
      /\ up' = up /\ early' = early /\ response' = response /\ merged' = merged /\ kept' = kept
  BY DEF TakesComplete, NextIs, Ours, IsEnd, Ended, rows
<1>2. /\ wire \in Seq(Message) /\ Len(agent.sent) \in Nat /\ Taken \in Nat
      /\ up' \in BOOLEAN /\ early' \in BOOLEAN
  BY <1>1, CommandPieces DEF CInv, CommandTypes
<1>3. agent.answered = 1 => Parts(merged', kept', Len(agent.sent))
  <2>1. SUFFICES ASSUME agent.answered = 1 PROVE Parts(merged, kept, Len(agent.sent))
    BY <1>1
  <2>2. /\ Taken <= Len(agent.sent) /\ Stream(wire, Taken, Len(agent.sent))
        /\ Parts(merged, kept, Taken)
    BY <2>1, <1>1 DEF CInv, Whole
  <2>3. Taken = Len(agent.sent) BY <2>2, <1>1, <1>2, StreamEnd
  <2>4. QED BY <2>2, <2>3
<1>4. /\ response' \in {"none", "plain", "rows"} /\ merged' \in Seq(Nat) /\ kept' \in Seq(Nat)
  BY <1>1 DEF CInv, CommandTypes
<1>5. QED BY <1>1, <1>2, <1>3, <1>4, EndKeeps

\* A pull begins.
LEMMA PullBeginsKeeps == CInv /\ PullBegins => CInv'
<1> SUFFICES ASSUME CInv, PullBegins PROVE CInv'
  OBVIOUS
<1>1. /\ stage = "aggregating" /\ pull' = EffectiveWindow(call) /\ pullKeys' = {"stream"}
      /\ windows' = windows \cup {EffectiveWindow(call)}
      /\ call' = call /\ stage' = stage /\ held' = held /\ up' = up /\ admitted' = admitted
      /\ outcome' = outcome /\ wire' = wire /\ response' = response /\ merged' = merged
      /\ kept' = kept /\ early' = early /\ agent' = agent
  BY DEF PullBegins, link, rows
<1>2. EffectiveWindow(call) \in 1..MaxWindow /\ EffectiveWindow(call) # 0
  BY WindowsBounded DEF CInv, CommandTypes
<1>3. CommandTypes'
  <2>1. CommandTypeOK' BY <1>1 DEF CInv, CommandTypes, CommandTypeOK
  <2>2. QED BY <1>1, <2>1 DEF CInv, CommandTypes
<1>4. Idle' BY <1>1, <1>2 DEF CInv, Idle, Before
<1>5. Windows'
  <2>1. EffectiveWindow(call)' = EffectiveWindow(call)
    BY <1>1 DEF EffectiveWindow, Preferred, Ceiling
  <2>2. QED BY <1>1, <1>2, <2>1 DEF CInv, Windows
<1>6. AnswersOnce' BY <1>1 DEF CInv, AnswersOnce
<1>7. Whole' BY <1>1 DEF CInv, Whole, Taken
<1>8. RowsOnce' BY <1>1 DEF CInv, RowsOnce
<1>9. QED BY <1>3, <1>4, <1>5, <1>6, <1>7, <1>8 DEF CInv
\* The answer to a pull.
LEMMA PullGrantedKeeps == CInv /\ PullGranted => CInv'
<1> SUFFICES ASSUME CInv, PullGranted PROVE CInv'
  OBVIOUS
<1>1. /\ Listens /\ stage # "rejected" /\ wire # <<>> /\ Head(wire).is = "window" /\ wire' = Tail(wire)
      /\ pull' = 0 /\ pullKeys' = {} /\ windows' = windows \cup {Granted(Head(wire).size)}
      /\ UNCHANGED <<call, link, agent, response, merged, kept>> /\ early' = early
  BY DEF PullGranted, NextIs, rows
<1>2. wire \in Seq(Message) /\ early' \in BOOLEAN
  BY <1>1, CommandPieces DEF CInv, CommandTypes
<1>3. Head(wire) \in Message /\ Head(wire) = wire[1] /\ 1 \in DOMAIN wire BY <1>1, <1>2, WireTail
<1>4. Head(wire).size \in WindowSizes BY <1>1, <1>3 DEF Message
<1>5. Granted(Head(wire).size) \in 1..MaxWindow
  BY <1>4, WindowsBounded DEF CInv, CommandTypes
<1>6. windows' \subseteq 1..MaxWindow BY <1>1, <1>5 DEF CInv, Windows
<1>7. stage = "aggregating" BY <1>1, <1>3 DEF Listens, CInv, Idle, Before
<1>8. ~IsOurs(Head(wire)) BY <1>1 DEF IsOurs
<1>9. QED BY <1>1, <1>2, <1>6, <1>7, <1>8, TakeKeeps

\* What the hub sends but the chunks of the stream.
LEMMA HubPuts ==
    ASSUME CInv,
           \/ \E a \in CommandAnswers : HubResponds(a)
           \/ HubEndsStream
           \/ \E as \in {"another", "malformed"} : HubStreams(as)
           \/ \E as \in {"granted", "another", "refused"} : \E w \in WindowSizes : HubGrants(as, w)
    PROVE  CInv'
<1>1. /\ agent \in [answered : Nat, sent : Seq(Nat), completed : BOOLEAN]
      /\ agent.answered \in Nat /\ Len(agent.sent) \in Nat
  BY CommandPieces DEF CInv, CommandTypes
<1>2. ASSUME NEW a \in CommandAnswers, HubResponds(a) PROVE CInv'
  <2> DEFINE m == [is |-> "answer", as |-> a]
  <2>1. /\ Listens /\ wire' = Append(wire, m) /\ UNCHANGED <<call, link, rows, asked>>
        /\ agent' = [agent EXCEPT !.answered = @ + 1]
    BY <1>2 DEF HubResponds, Puts
  <2>2. m \in Message /\ ~IsOurs(m) /\ IsAnswer(m) /\ ~IsEnd(m) /\ m.is # "window"
    BY DEF Message, IsOurs, IsAnswer, IsEnd
  <2>3. /\ agent' \in [answered : Nat, sent : Seq(Nat), completed : BOOLEAN]
        /\ agent'.answered = agent.answered + 1 /\ agent'.sent = agent.sent
        /\ agent'.completed = agent.completed
    <3> DEFINE k == agent.answered + 1
    <3>1. k \in Nat BY <1>1
    <3>2. agent' = [agent EXCEPT !.answered = k] BY <1>1, <2>1
    <3> HIDE DEF k
    <3>3. /\ agent' \in [answered : Nat, sent : Seq(Nat), completed : BOOLEAN]
          /\ agent'.answered = k /\ agent'.sent = agent.sent
      BY <1>1, <3>1, <3>2
    <3>4. agent'.completed = agent.completed BY <1>1, <3>2
    <3>5. QED BY <3>3, <3>4 DEF k
  <2> HIDE DEF m
  <2>4. QED BY <2>1, <2>2, <2>3, PutKeeps
<1>3. ASSUME HubEndsStream PROVE CInv'
  <2> DEFINE m == [is |-> "complete", as |-> "ours"]
  <2>1. /\ Listens /\ wire' = Append(wire, m) /\ UNCHANGED <<call, link, rows, asked>>
        /\ agent' = [agent EXCEPT !.completed = TRUE]
    BY <1>3 DEF HubEndsStream, Puts
  <2>2. m \in Message /\ ~IsOurs(m) /\ ~IsAnswer(m) /\ m.is # "window"
    BY DEF Message, IsOurs, IsAnswer
  <2>3. /\ agent' \in [answered : Nat, sent : Seq(Nat), completed : BOOLEAN]
        /\ agent'.answered = agent.answered /\ agent'.sent = agent.sent
        /\ agent'.completed
    BY <1>1, <2>1
  <2> HIDE DEF m
  <2>4. QED BY <2>1, <2>2, <2>3, PutKeeps
<1>4. ASSUME NEW as \in {"another", "malformed"}, HubStreams(as) PROVE CInv'
  <2> DEFINE m == [is |-> "chunk", as |-> as, n |-> Len(agent.sent) + 1]
  <2>1. /\ Listens /\ wire' = Append(wire, m) /\ UNCHANGED <<call, link, rows, asked>>
        /\ agent' = agent
    BY <1>4 DEF HubStreams, Puts
  <2>2. m \in Message /\ ~IsOurs(m) /\ ~IsAnswer(m) /\ ~IsEnd(m) /\ m.is # "window"
    <3>1. Len(agent.sent) + 1 \in Nat BY <1>1
    <3>2. m \in [is : {"chunk"}, as : {"ours", "another", "malformed"}, n : Nat] BY <3>1
    <3>3. m.is = "chunk" /\ m.as = as /\ as # "ours" OBVIOUS
    <3> HIDE DEF m
    <3>4. QED BY <3>2, <3>3 DEF Message, IsOurs, IsAnswer, IsEnd
  <2> HIDE DEF m
  <2>3. QED BY <1>1, <2>1, <2>2, PutKeeps
<1>5. ASSUME NEW as \in {"granted", "another", "refused"}, NEW w \in WindowSizes, HubGrants(as, w)
      PROVE  CInv'
  <2> DEFINE m == [is |-> "window", as |-> as, size |-> w]
  <2>1. /\ Listens /\ wire' = Append(wire, m) /\ UNCHANGED <<call, link, rows, asked>>
        /\ agent' = agent /\ pull # 0
    BY <1>5 DEF HubGrants, Puts
  <2>2. m \in Message /\ ~IsOurs(m) /\ ~IsAnswer(m) /\ ~IsEnd(m)
    BY DEF Message, IsOurs, IsAnswer, IsEnd
  <2> HIDE DEF m
  <2>3. QED BY <1>1, <2>1, <2>2, PutKeeps
<1>6. QED BY <1>2, <1>3, <1>4, <1>5

\* What is taken from the wire and left alone.
LEMMA Skips ==
    ASSUME CInv, ForeignAnswer \/ IgnoredItem \/ PullIgnored \/ TakesEarlyComplete
    PROVE  CInv'
<1>1. /\ Listens /\ stage # "rejected" /\ wire # <<>> /\ wire' = Tail(wire)
      /\ UNCHANGED <<call, link, agent, response, merged, kept>>
      /\ pull' = pull /\ pullKeys' = pullKeys /\ windows' = windows
      /\ early' = early \/ early' = TRUE
  BY DEF ForeignAnswer, TakesAnswer, IgnoredItem, PullIgnored, TakesEarlyComplete, NextIs, Skip,
         rows, asked
<1>2. early' \in BOOLEAN BY <1>1, CommandPieces DEF CInv
<1>3. /\ wire \in Seq(Message) /\ Head(wire) = wire[1] /\ 1 \in DOMAIN wire
  BY <1>1, WireTail DEF CInv, CommandTypes
<1>4. ~IsOurs(Head(wire))
  <2>1. CASE IgnoredItem
    <3>1. SUFFICES ASSUME IsOurs(Head(wire)) PROVE FALSE OBVIOUS
    <3>2. stage = "awaiting" BY <2>1, <3>1, <1>1 DEF IgnoredItem, Ours, IsOurs, Listens
    <3>3. QED BY <3>1, <3>2, <1>3 DEF CInv, Idle, Before
  <2>2. CASE ~IgnoredItem
    BY <2>2 DEF ForeignAnswer, TakesAnswer, PullIgnored, TakesEarlyComplete, NextIs, IsOurs
  <2>3. QED BY <2>1, <2>2
<1>5. QED BY <1>1, <1>2, <1>4, TakeKeeps

\* A step of the link.
LEMMA LinkSteps ==
    ASSUME CInv,
           \/ StartsWait \/ ReadyFrame \/ SendsCommand \/ SendRefused
           \/ TimerOutlives \/ Admits \/ LinkLostUnheard
    PROVE  CInv'
<1>1. UNCHANGED <<call, wire, rows, asked, agent>>
  BY DEF StartsWait, ReadyFrame, SendsCommand, SendRefused, TimerOutlives, Admits, LinkLostUnheard
<1>2. /\ CommandTypeOK /\ wire = wire' /\ call = call' /\ early' = early
  BY <1>1 DEF CInv, CommandTypes, rows
<1>3. CASE StartsWait \/ ReadyFrame \/ SendsCommand \/ Admits \/ LinkLostUnheard
  <2>1. outcome' = outcome /\ stage # "settled" /\ stage' # "settled"
    BY <1>3 DEF StartsWait, ReadyFrame, SendsCommand, Admits, LinkLostUnheard, MaySend, Listens
  <2>2. \/ stage' = stage
        \/ stage \in {"connecting", "decoding"} /\ stage' \in {"decoding", "awaiting"}
    BY <1>3 DEF StartsWait, ReadyFrame, SendsCommand, Admits, LinkLostUnheard, MaySend
  <2>3. /\ up' \in {up, TRUE, FALSE} /\ admitted' \in {admitted, TRUE}
        /\ held' \subseteq {"waiters", "route", "listeners", "idleTimer", "abortListener"}
    BY <1>2, <1>3
    DEF StartsWait, ReadyFrame, SendsCommand, Admits, LinkLostUnheard, CommandTypeOK
  <2>4. up \in BOOLEAN /\ admitted \in BOOLEAN BY <1>2 DEF CommandTypeOK
  <2>5. CommandTypeOK' BY <1>2, <2>1, <2>2, <2>3, <2>4 DEF CommandTypeOK
  <2>6. QED BY <1>1, <2>1, <2>2, <2>5, LinkKeeps
<1>4. CASE SendRefused
  <2>1. /\ stage \in {"connecting", "decoding"} /\ stage' = "settled" /\ outcome' = "failed"
        /\ held' \subseteq {"idleTimer", "abortListener"} /\ up' = up /\ admitted' = admitted
    BY <1>4 DEF SendRefused, MaySend
  <2>2. CommandTypeOK' BY <1>2, <2>1 DEF CommandTypeOK
  <2>3. QED BY <1>1, <2>1, <2>2, LinkKeeps
<1>5. CASE TimerOutlives
  <2>1. /\ stage' = stage /\ outcome' = outcome /\ held' = {} /\ up' = up /\ admitted' = admitted
    BY <1>5 DEF TimerOutlives
  <2>2. CommandTypeOK' BY <1>2, <2>1 DEF CommandTypeOK
  <2>3. QED BY <1>1, <2>1, <2>2, LinkKeeps
<1>6. QED BY <1>3, <1>4, <1>5

\* A command with a stream begins in the invariant.
LEMMA CommandInit == CommandBegins => CInv
<1> SUFFICES ASSUME CommandBegins PROVE CInv
  OBVIOUS
<1>1. /\ call \in CommandCalls
      /\ stage = "connecting" /\ held = {"route"} /\ outcome = "none"
      /\ wire = <<>> /\ response = "none" /\ merged = <<>> /\ kept = <<>> /\ early = FALSE
      /\ pull = 0 /\ pullKeys = {} /\ windows = {}
      /\ agent = [answered |-> 0, sent |-> <<>>, completed |-> FALSE]
  BY DEF CommandBegins
<1>2. up \in BOOLEAN /\ admitted \in BOOLEAN BY DEF CommandBegins
<1>3. /\ agent \in [answered : Nat, sent : Seq(Nat), completed : BOOLEAN]
      /\ agent.sent = <<>> /\ agent.answered = 0
  BY <1>1, EmptySeq
<1>4. /\ <<>> \in Seq(Message) /\ <<>> \in Seq(Nat) /\ Len(<<>>) = 0
      /\ \A i \in DOMAIN <<>> : FALSE
  BY EmptySeq
<1>5. CommandTypes BY <1>1, <1>2, <1>3, <1>4 DEF CommandTypes, CommandTypeOK
<1>6. Idle /\ Windows /\ RowsOnce BY <1>1, <1>3, <1>4 DEF Idle, Before, Windows, RowsOnce
<1>7. NoAnswer(wire) /\ OneAnswer(wire) /\ NoEnd(wire)
  BY <1>1, <1>4 DEF NoAnswer, OneAnswer, NoEnd
<1>8. AnswersOnce BY <1>1, <1>3, <1>7 DEF AnswersOnce
<1>9. Stream(<<>>, 0, 0) /\ Parts(<<>>, <<>>, 0) BY <1>4, StreamNone
<1>10. Taken = 0 /\ Len(agent.sent) = 0 BY <1>1, <1>3, <1>4 DEF Taken
<1>11. Whole BY <1>1, <1>7, <1>9, <1>10 DEF Whole
<1>12. QED BY <1>5, <1>6, <1>8, <1>11 DEF CInv

\* Every step of a command with a stream keeps the invariant.
LEMMA CommandStep == CInv /\ [CommandSteps]_cvars => CInv'
<1> SUFFICES ASSUME CInv, [CommandSteps]_cvars PROVE CInv'
  OBVIOUS
<1>1. CASE UNCHANGED cvars
  <2>1. UNCHANGED <<call, wire, rows, asked, agent>> /\ stage' = stage /\ outcome' = outcome
        /\ held' = held /\ up' = up /\ admitted' = admitted /\ early' = early
    BY <1>1 DEF cvars, link, rows
  <2>2. CommandTypeOK' BY <2>1 DEF CInv, CommandTypes, CommandTypeOK
  <2>3. stage' = "settled" => held' \cap {"waiters", "route", "listeners"} = {}
    BY <2>1 DEF CInv, Idle
  <2>4. QED BY <2>1, <2>2, <2>3, LinkKeeps
<1>2. CASE \/ StartsWait \/ ReadyFrame \/ SendsCommand \/ SendRefused
           \/ TimerOutlives \/ Admits \/ LinkLostUnheard
  BY <1>2, LinkSteps
<1>3. CASE \/ ConnectionFails \/ AbortedBeforeSend \/ NotAdmitted \/ UnfitAnswer \/ RefusalAnswer
           \/ QueueFails \/ PullFailed \/ PullTimesOut \/ CommandInterrupted \/ IdleTimeout
  <2>1. Ended("failed")
    BY <1>3 DEF ConnectionFails, AbortedBeforeSend, NotAdmitted, UnfitAnswer, RefusalAnswer,
                QueueFails, PullFailed, PullTimesOut, CommandInterrupted, IdleTimeout
  <2>2. QED BY <2>1, EndedKeeps
<1>4. CASE Notified
  <2>1. Ended("notified") BY <1>4 DEF Notified
  <2>2. QED BY <2>1, EndedKeeps
<1>5. CASE LinkLost
  <2>1. /\ CleanedUp("failed") /\ up' = FALSE /\ early' = early /\ response' = response
        /\ merged' = merged /\ kept' = kept
    BY <1>5 DEF LinkLost, rows
  <2>2. /\ early' \in BOOLEAN /\ response' \in {"none", "plain", "rows"}
        /\ merged' \in Seq(Nat) /\ kept' \in Seq(Nat)
    BY <2>1, CommandPieces DEF CInv, CommandTypes
  <2>3. QED BY <2>1, <2>2, EndKeeps
<1>6. ASSUME NEW a \in CommandAnswers, WholeAnswer(a) PROVE CInv'
  <2>1. /\ CleanedUp("answered") /\ up' = up /\ early' = early /\ response' = a
        /\ a \in {"rows", "plain"} /\ merged' = merged /\ kept' = kept
    BY <1>6 DEF WholeAnswer
  <2>2. /\ up' \in BOOLEAN /\ early' \in BOOLEAN /\ response' \in {"none", "plain", "rows"}
        /\ merged' \in Seq(Nat) /\ kept' \in Seq(Nat)
    BY <2>1, CommandPieces DEF CInv, CommandTypes
  <2>3. QED BY <2>1, <2>2, EndKeeps
<1>7. CASE \E a \in CommandAnswers : OpensStream(a)
  <2>1. PICK a \in CommandAnswers : OpensStream(a) BY <1>7
  <2>2. a \in Openings BY <2>1 DEF OpensStream
  <2>3. QED BY <2>1, <2>2, OpensKeeps
<1>8. CASE \/ \E a \in CommandAnswers : HubResponds(a)
           \/ HubEndsStream
           \/ \E as \in {"another", "malformed"} : HubStreams(as)
           \/ \E as \in {"granted", "another", "refused"} : \E w \in WindowSizes : HubGrants(as, w)
  BY <1>8, HubPuts
<1>9. CASE HubStreams("ours") BY <1>9, ChunkSentKeeps
<1>10. CASE ForeignAnswer \/ IgnoredItem \/ PullIgnored \/ TakesEarlyComplete
  BY <1>10, Skips
<1>11. CASE TakesChunk \/ ChunkOverLimit \/ MalformedItem \/ TakesComplete \/ PullBegins \/ PullGranted
  BY <1>11, TakesChunkKeeps, MalformedKeeps, TakesCompleteKeeps, PullBeginsKeeps, PullGrantedKeeps
<1>12. QED
  BY <1>1, <1>2, <1>3, <1>4, <1>5, <1>6, <1>7, <1>8, <1>9, <1>10, <1>11 DEF CommandSteps

\* The invariant says what the runs check of a command with a stream.
LEMMA StreamInv == CInv => StreamLawful /\ NothingHeld
<1> SUFFICES ASSUME CInv PROVE StreamLawful /\ NothingHeld
  OBVIOUS
<1>1. RowsOnce BY DEF CInv
<1>2. CommandTypeOK BY DEF CInv, CommandTypes
<1>3. WindowsLawful
  <2>1. pull # 0 => pull = EffectiveWindow(call) BY DEF CInv, Windows
  <2>2. QED BY <1>2, <2>1, WindowsBounded DEF CInv, Windows, WindowsLawful
<1>4. NothingHeld
  BY <1>2 DEF CInv, Idle, Before, NothingHeld, CommandTypeOK
<1>5. QED BY <1>1, <1>3, <1>4 DEF StreamLawful
--------------------------------------------------------------------------------
\* Both kinds of command.  The kind that is not chosen rests in an end state, which the
\* invariants allow.
LEMMA RelayRestsInv == RelayRests => RInv
<1> SUFFICES ASSUME RelayRests PROVE RInv
  OBVIOUS
<1>1. cmd \in Calls /\ ~cmd.managed
  <2>1. PICK x : x \in Items BY RelayCommandAssumption
  <2> DEFINE c == [items |-> {x}, batch |-> TRUE, fast |-> FALSE, managed |-> FALSE,
                   reused |-> FALSE, keep |-> FALSE]
  <2>2. {x} \in (SUBSET Items) \ {{}} BY <2>1
  <2>3. c \in Calls /\ ~c.managed BY <2>2 DEF Calls
  <2> HIDE DEF c
  <2>4. cmd = CHOOSE d \in Calls : ~d.managed BY DEF RelayRests
  <2>5. QED BY <2>3, <2>4
<1>2. /\ phase = "done" /\ result = Failed /\ conv = FALSE /\ accepted = None /\ pending = {}
      /\ buffered = Nothing /\ answer = Nothing /\ streaming = {} /\ pulling = {} /\ keys = {}
      /\ decoding = <<>> /\ connected = FALSE
      /\ hub = [conv |-> "none", asked |-> FALSE, item |-> Nothing, sent |-> [i \in Items |-> 0]]
  BY DEF RelayRests
<1>3. /\ hub.item = Nothing /\ hub.asked = FALSE /\ \A i \in Items : hub.sent[i] = 0
      /\ hub.conv = "none"
      /\ hub \in [conv : {"none", "open", "ended"}, asked : BOOLEAN,
                  item : [Items -> Verdicts \cup {None}], sent : [Items -> Nat]]
  BY <1>2, NoneApart DEF Nothing
<1>4. Nothing \in [Items -> Answers \cup {None}] BY DEF Nothing
<1>5. TypeOK BY <1>1, <1>2, <1>3, <1>4, NoneApart DEF TypeOK, Phases
<1>6. HubTypes BY <1>2, <1>3, EmptySeq DEF HubTypes
<1>7. Connection /\ ConversationFate BY <1>2, <1>3 DEF Connection, ConversationFate
<1>8. Waits /\ Finishes /\ Returned /\ PullsReleased
  BY <1>2 DEF Waits, Finishes, Returned, PullsReleased
<1>9. Unsent /\ HubSays BY <1>2, <1>3, NoneApart DEF Unsent, HubSays
<1>10. OnlyAccepted BY <1>2, <1>3, NoneApart, EmptySeq DEF OnlyAccepted
<1>11. QED BY <1>5, <1>6, <1>7, <1>8, <1>9, <1>10 DEF RInv

\* The command that is not chosen rests in an end state.
LEMMA CommandRestsInv == CommandRests => CInv
<1> SUFFICES ASSUME CommandRests PROVE CInv
  OBVIOUS
<1>1. call \in CommandCalls
  <2> DEFINE c == [relay |-> FALSE, aggregates |-> FALSE, notifies |-> FALSE, aborted |-> FALSE,
                   configured |-> 0, recommended |-> 0, agentMax |-> 0]
  <2>1. c \in CommandCalls BY DEF CommandCalls
  <2> HIDE DEF c
  <2>2. call = CHOOSE d \in CommandCalls : TRUE BY DEF CommandRests
  <2>3. QED BY <2>1, <2>2
<1>2. /\ stage = "settled" /\ outcome = "failed"
      /\ held = {} /\ up = FALSE /\ admitted = FALSE /\ early = FALSE
      /\ wire = <<>> /\ response = "none" /\ merged = <<>> /\ kept = <<>>
      /\ pull = 0 /\ pullKeys = {} /\ windows = {}
      /\ agent = [answered |-> 0, sent |-> <<>>, completed |-> FALSE]
  BY DEF CommandRests
<1>3. /\ agent \in [answered : Nat, sent : Seq(Nat), completed : BOOLEAN]
      /\ <<>> \in Seq(Message) /\ <<>> \in Seq(Nat) /\ \A i \in DOMAIN <<>> : FALSE
  BY <1>2, EmptySeq
<1>4. CommandTypes BY <1>1, <1>2, <1>3 DEF CommandTypes, CommandTypeOK
<1>5. Idle /\ Windows /\ RowsOnce BY <1>2 DEF Idle, Before, Windows, RowsOnce
<1>6. NoAnswer(wire) /\ OneAnswer(wire) /\ NoEnd(wire)
  BY <1>2, <1>3 DEF NoAnswer, OneAnswer, NoEnd
<1>7. AnswersOnce /\ Whole BY <1>2, <1>6 DEF AnswersOnce, Whole
<1>8. QED BY <1>4, <1>5, <1>7 DEF CInv

\* Both invariants, together, of every step of either.
LEMMA SocketInv == SocketSpec => [](RInv /\ CInv)
<1>1. SocketInit => RInv /\ CInv
  BY RelayInit, CommandInit, RelayRestsInv, CommandRestsInv DEF SocketInit
<1>2. RInv /\ CInv /\ [SocketNext]_<<kind, vars, cvars>> => (RInv /\ CInv)'
  <2>1. SUFFICES ASSUME RInv, CInv, [SocketNext]_<<kind, vars, cvars>> PROVE RInv' /\ CInv'
    OBVIOUS
  <2>2. [Next]_vars /\ [CommandSteps]_cvars BY <2>1 DEF SocketNext
  <2>3. QED BY <2>1, <2>2, RelayStep, CommandStep
<1>3. QED BY <1>1, <1>2, PTL DEF SocketSpec

\* However acceptance, early, repeated and late responses, timers and failures interleave,
\* no response of a relay command is lost while it waits, nobody waits for a response that
\* is buffered, and a command that returns says for every item what the hub did with it
\* (relayBatchSession.ts), for any set of items and any number of answers.
THEOREM NoAnswerLost == SocketSpec => []AnswersKept
<1>1. RInv => AnswersKept BY AnswersKeptInv
<1>2. QED BY <1>1, SocketInv, PTL

\* The conversation of a command that failed is ended, unless the hub opened it after the
\* command had given up, and that of a successful one stays when it was to be kept.
THEOREM ConversationsEnd == SocketSpec => []ConversationFate
<1>1. RInv => ConversationFate BY DEF RInv
<1>2. QED BY <1>1, SocketInv, PTL

\* A streamed command returns all the hub sent of its stream, each chunk once and in
\* order, unless the hub answered twice, and no window is unlawful, for streams of any
\* length and windows of any size.
THEOREM StreamsWhole == SocketSpec => []StreamLawful
<1>1. CInv => StreamLawful BY StreamInv
<1>2. QED BY <1>1, SocketInv, PTL

\* Whatever ends a command, no pull outlives what it was for, and its id, its listeners
\* and the key of its pull are free.
THEOREM PullsEndWithCommands == SocketSpec => []PullsFreed
<1>1. RInv /\ CInv => PullsFreed BY StreamInv DEF RInv, PullsFreed
<1>2. QED BY <1>1, SocketInv, PTL
================================================================================
