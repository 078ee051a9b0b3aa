--------------------------- MODULE MCSocketCommand --------------------------
(* Socket commands, of two kinds: a conversation of the relay with a single  *)
(* command or a batch of two, called in every way, each item answered at     *)
(* most twice; and a single command of either channel with a stream of two   *)
(* chunks, called in every way, whose answer may come twice.                 *)
EXTENDS RelayCommand, StreamedCommand

VARIABLE kind

\* The kind that is not chosen rests in an end state of its own.
RelayRests ==
    /\ cmd \in {CHOOSE c \in Calls : ~c.managed} /\ phase = "done" /\ result = Failed
    /\ conv = FALSE /\ accepted = None /\ pending = {} /\ buffered = Nothing /\ answer = Nothing
    /\ streaming = {} /\ pulling = {} /\ keys = {} /\ decoding = <<>> /\ connected = FALSE
    /\ hub = [conv |-> "none", asked |-> FALSE, item |-> Nothing, sent |-> [i \in Items |-> 0]]
CommandRests ==
    /\ call \in {CHOOSE c \in CommandCalls : TRUE} /\ stage = "settled" /\ outcome = "failed"
    /\ held = {} /\ up = FALSE /\ admitted = FALSE /\ early = FALSE
    /\ wire = <<>> /\ response = "none" /\ merged = <<>> /\ kept = <<>>
    /\ pull = 0 /\ pullKeys = {} /\ windows = {}
    /\ agent = [answered |-> 0, sent |-> <<>>, completed |-> FALSE]

SocketInit ==
    \/ kind = "conversation" /\ Init /\ CommandRests
    \/ kind = "stream" /\ CommandBegins /\ RelayRests
SocketNext ==
    \/ kind = "conversation" /\ Next /\ UNCHANGED <<kind, cvars>>
    \/ kind = "stream" /\ CommandSteps /\ UNCHANGED <<kind, vars>>
SocketSpec ==
    SocketInit /\ [][SocketNext]_<<kind, vars, cvars>> /\ Fairness /\ CommandFairness

\* A key of a pull is held by a stream under way, whichever channel it came by.
PullsFreed == PullsReleased /\ NothingHeld

\* Every command ends and holds nothing in the end, though the hub may never answer at
\* all: there is no wait without a timer.
AllCommandsEnd == CommandEnds /\ <>[](stage = "settled" /\ held = {})
=============================================================================
