------------------------------ MODULE NodeExecution ------------------------------
(***************************************************************************)
(* One execution of the Plug Database node: shared/n8n/plugItemExecution.ts *)
(* runs the input items through a bounded pool of workers                   *)
(* (utils/boundedConcurrency.ts), plugTransportExecutor.ts sends each item's *)
(* command and retries it (plugTransientRetry.ts), and every attempt is an  *)
(* invocation of the session runner (module AuthSession).                   *)
(*                                                                         *)
(* The hub and the agent are external: they may refuse a command, run it    *)
(* and answer, run it and answer with an error, or have the answer lost.    *)
(***************************************************************************)
EXTENDS AuthSession, Sequences, SequencesExt

CONSTANTS
    Plans,         \* what a node may be asked: the command of each input item
    Concurrency,   \* ceiling of input items in flight
    MaxRetries,    \* MAX_TRANSIENT_RETRIES
    Expiries       \* bound: access tokens that expire during the execution

ASSUME NodeExecutionAssumption ==
    /\ Plans \subseteq Seq([kind : {"metadata", "read", "write"},
                            channel : {"rest", "socket"}, ownId : BOOLEAN])
    /\ \A p \in Plans : p # << >> /\ Invocations = DOMAIN p
    /\ Concurrency \in Nat \ {0} /\ MaxRetries \in Nat /\ Expiries \in Nat

VARIABLES
    plan,            \* the commands of the items
    continueOnFail,  \* the setting of the node
    coalesced,       \* the items travel as one batch, under item 1
    item,            \* item -> where its command stands
    firstError,      \* item whose error the node throws; 0: none
    output,          \* items answered for, in the order of the node's output
    node,            \* "running", "returned", "threw"
    executed,        \* item -> times the agent ran its command
    hints            \* history: SQL item -> attempts repeated for an error of the agent

setting == <<plan, continueOnFail, coalesced>>
nodeVars == <<item, firstError, output, node, executed, hints>>
nvars == <<vars, setting, nodeVars>>

\* pc: "queued"; "session" while the runner gets a session; "sent" waits for the answer;
\* "backoff" sleeps before the next attempt; "answered", "error" and "threw" have ended.
\* known: the agent has seen the JSON-RPC id the command carries now.
NewItem == [pc |-> "queued", attempt |-> 0, known |-> FALSE]

Active(i) == item[i].pc \in {"session", "sent", "backoff"}
Ended(i) == item[i].pc \in {"answered", "error", "threw"}

\* A coalesced batch is one request and carries the commands of all items.
Work == IF coalesced THEN {1} ELSE Invocations
Carried(i) == IF coalesced THEN Invocations ELSE {i}

\* Items run side by side only when no command of them changes anything.
ReadOnly(i) == plan[i].kind # "write"
Sql(i) == plan[i].kind # "metadata"
SideBySide == IF \A i \in Invocations : ReadOnly(i) THEN Concurrency ELSE 1

NodeInit ==
    /\ Init
    /\ plan \in Plans /\ continueOnFail \in BOOLEAN /\ coalesced \in BOOLEAN
    /\ coalesced => /\ ~continueOnFail
                    /\ \A i \in Invocations : Sql(i) /\ ~plan[i].ownId
                                              /\ plan[i].channel = plan[1].channel
    /\ item = [i \in Invocations |-> NewItem]
    /\ firstError = 0 /\ output = << >> /\ node = "running"
    /\ executed = [i \in Invocations |-> 0] /\ hints = [i \in Invocations |-> 0]
--------------------------------------------------------------------------------
(* The errors of the transports, by what the retry policy reads of them.     *)

PlugError(code, status, retryable) ==
    [class |-> "plug", code |-> code, status |-> status, retryable |-> retryable,
     auth |-> FALSE, dispatched |-> FALSE]

ValidationError == [PlugError("PLUG_VALIDATION_ERROR", 400, FALSE) EXCEPT !.class = "validation"]
TimeoutError == [PlugError("PLUG_TIMEOUT", 408, TRUE) EXCEPT !.class = "timeout"]

HttpError(status) ==
    [PlugError("HTTP", status, status = 429 \/ status >= 500) EXCEPT !.auth = status \in {401, 403}]

RequestFailed == PlugError("HTTP_REQUEST_FAILED", 0, TRUE)
MissingStatus == PlugError("HTTP_RESPONSE_MISSING_STATUS", 0, TRUE)
Disconnected == PlugError("SOCKET_DISCONNECTED", 0, TRUE)
AppError == PlugError("SOCKET_APP_ERROR", 0, TRUE)
ConnectError == PlugError("SOCKET_CONNECT_ERROR", 0, TRUE)
ControlError(status) == PlugError("SOCKET_COMMAND_ERROR", status, status \in {429, 503})
PullRejected == [ControlError(429) EXCEPT !.dispatched = TRUE]
StreamAborted == PlugError("SOCKET_STREAM_ABORTED", 0, FALSE)

\* The agent's error: a quota (-32013) always counts as retryable, else its hint does,
\* unless it says that the command may have had effects.
RpcError(code, hint, reconcile) ==
    [PlugError(code, 0, ~reconcile /\ (code = "RPC_-32013" \/ hint)) EXCEPT !.class = "agent"]

Ambiguous_mut == {"HTTP_RESPONSE_MISSING_STATUS", "CONSUMER_IDLE_TIMEOUT", "SOCKET_APP_ERROR",
                  "SOCKET_DISCONNECTED"}
Ambiguous == {"HTTP_REQUEST_FAILED", "HTTP_RESPONSE_MISSING_STATUS", "SOCKET_DISCONNECTED",
              "CONSUMER_IDLE_TIMEOUT", "SOCKET_APP_ERROR"}

\* A failure of an SQL command that does not rule out that the agent ran it.
MayHaveRun(p, err) ==
    /\ p.kind # "metadata"
    /\ \/ err.code \in Ambiguous
       \/ err.dispatched
       \/ p.channel # "socket" /\ err.status >= 500

ShouldRetry(p, err, attempt) ==
    /\ attempt < MaxRetries
    /\ err.class # "validation"
    /\ IF err.class = "timeout" THEN p.kind = "metadata" /\ p.channel # "socket"
       ELSE /\ ~err.auth /\ ~MayHaveRun(p, err)
            /\ err.code \notin {"RPC_-32014", "RPC_-32601"}
            /\ err.retryable
--------------------------------------------------------------------------------
(* The hub and the agent.  Refusals: the command was not run.  Mishaps: it    *)
(* was run, or may have been, and the node sees a failure.                   *)

\* Errors that the agent calls transient (offline, out of its quota, a query that took too
\* long, a transaction that failed): they do not say whether anything was run.
Transient == {RpcError("RPC_-32013", FALSE, FALSE), RpcError("RPC_-32000", TRUE, FALSE)}

Refusals(p) ==
    Transient \cup {RpcError("RPC_-32601", TRUE, FALSE), RpcError("RPC_-32602", FALSE, FALSE)}
    \cup IF p.channel = "rest" THEN {HttpError(400), HttpError(403), HttpError(429)}
         ELSE {ConnectError, ControlError(400), ControlError(429), ControlError(503)}

Mishaps(p) ==
    Transient \cup {TimeoutError, ValidationError, RpcError("RPC_-32000", TRUE, TRUE)}
    \cup IF p.channel = "rest" THEN {RequestFailed, MissingStatus, HttpError(503)}
         ELSE {Disconnected, AppError, PullRejected, StreamAborted}

\* Errors of a login or a refresh that end the invocation.
SessionErrors == {TimeoutError, ValidationError, RequestFailed, HttpError(401), HttpError(429),
                  HttpError(503)}

OneMore(count, i) == [k \in Invocations |-> count[k] + IF k \in Carried(i) THEN 1 ELSE 0]
Ran(i) == executed' = OneMore(executed, i)
NotRun == UNCHANGED executed
--------------------------------------------------------------------------------
(* A worker and its item.                                                   *)

\* The pool: items are taken in order, none after an error was thrown.
Stops == firstError # 0

Take(i) ==
    /\ node = "running" /\ ~Stops
    /\ i \in Work /\ item[i].pc = "queued" /\ \A k \in Work : k < i => item[k].pc # "queued"
    /\ Cardinality({k \in Work : Active(k)}) < SideBySide

Begin(i) ==
    /\ Take(i)
    /\ item' = [item EXCEPT ![i].pc = "session"]
    /\ UNCHANGED <<vars, setting, firstError, output, node, executed, hints>>

\* The result of item i: pushed when items run one by one, else kept in the item's slot.
Push(i) ==
    IF SideBySide = 1 THEN output' = Append(output, i)
    ELSE \E slot \in 1..Len(output) + 1 :
            /\ \A k \in DOMAIN output : IF k < slot THEN output[k] < i ELSE output[k] > i
            /\ output' = InsertAt(output, slot, i)

Answered(i) ==
    /\ item' = [item EXCEPT ![i].pc = "answered"]
    /\ Push(i)
    /\ UNCHANGED firstError

\* Item i fails for good: an error item with continueOnFail, else the node will throw.
Fails(i) ==
    IF continueOnFail
    THEN /\ item' = [item EXCEPT ![i].pc = "error"] /\ Push(i) /\ UNCHANGED firstError
    ELSE /\ item' = [item EXCEPT ![i].pc = "threw"] /\ UNCHANGED output
         /\ firstError' = IF firstError = 0 THEN i ELSE firstError

\* The node's own parameters do not make a command.
BuildFails(i) ==
    /\ Take(i)
    /\ Fails(i)
    /\ UNCHANGED <<vars, setting, node, executed, hints>>

\* One attempt failed with err; the retry is sent under a new id.
AttemptFails(i, err) ==
    /\ IF ShouldRetry(plan[i], err, item[i].attempt)
       THEN /\ item' = [item EXCEPT ![i].pc = "backoff"]
            /\ hints' = IF err.class = "agent" /\ Sql(i) THEN OneMore(hints, i) ELSE hints
            /\ UNCHANGED <<firstError, output>>
       ELSE Fails(i) /\ UNCHANGED hints
    /\ inv' = [inv EXCEPT ![i] = NewInvocation]
    /\ UNCHANGED <<currentSession, requests, issued, expiring, loginsDue, setting, node>>

Wakes(i) ==
    /\ item[i].pc = "backoff"
    /\ item' = [item EXCEPT ![i] = [pc |-> "session", attempt |-> @.attempt + 1, known |-> FALSE]]
    /\ UNCHANGED <<vars, setting, firstError, output, node, executed, hints>>

\* The invocation of the runner: AuthSession's own steps, up to the callback.
Session(i) ==
    /\ item[i].pc = "session"
    /\ Run(i) \/ Fresh(i) \/ React(i) \/ RefreshesSource(i) \/ Relogin(i)
    /\ UNCHANGED <<setting, nodeVars>>

SessionFails(i, err) ==
    /\ item[i].pc = "session" /\ inv[i].pc = "failed"
    /\ AttemptFails(i, err)
    /\ NotRun

\* The callback sends the command.  The first attempt of a guided command carries no id of
\* its own, so that each dispatch draws one; a retry was given one by the rotation.
HasId(i) == plan[i].ownId \/ item[i].attempt > 0

Dispatch(i) ==
    /\ item[i].pc = "session" /\ inv[i].pc \in {"callback", "retry"}
    /\ item' = [item EXCEPT ![i].pc = "sent", ![i].known = @ /\ HasId(i)]
    /\ UNCHANGED <<vars, setting, firstError, output, node, executed, hints>>

Waits(i) == item[i].pc = "sent"

Succeeds(i) ==
    /\ Waits(i) /\ ~item[i].known
    /\ Ran(i)
    /\ Answered(i)
    /\ inv' = [inv EXCEPT ![i] = NewInvocation]
    /\ UNCHANGED <<currentSession, requests, issued, expiring, loginsDue, setting, node, hints>>

Refused(i, err) == Waits(i) /\ ~item[i].known /\ NotRun /\ AttemptFails(i, err)

Replayed(i) ==
    Waits(i) /\ item[i].known /\ NotRun /\ AttemptFails(i, RpcError("RPC_-32014", TRUE, FALSE))

Mishap(i, err) ==
    /\ Waits(i) /\ ~item[i].known
    /\ Ran(i) \/ NotRun
    /\ AttemptFails(i, err)

\* The token is refused: before the command is run, or (app:error ends every command of the
\* connection) while it is being run.  The runner renews the session and calls back once.
Unauthorized(i) ==
    /\ Waits(i) /\ inv[i].session \in expiring
    /\ \/ NotRun
       \/ plan[i].channel = "socket" /\ ~item[i].known /\ Ran(i)
    /\ IF inv[i].pc = "callback"
       THEN /\ item' = [item EXCEPT ![i].pc = "session",
                                    ![i].known = @ \/ executed' # executed]
            /\ Goes(i, "react")
            /\ UNCHANGED <<setting, firstError, output, node, hints>>
       ELSE AttemptFails(i, HttpError(401))

\* Promise.all of the workers: no error rejects it, so that they have all ended.
WorkersEnd_mut ==
    firstError # 0 \/ \A i \in Work : Ended(i)
WorkersEnd == \A i \in Work : Ended(i) \/ (Stops /\ item[i].pc = "queued")

Return ==
    /\ node = "running" /\ WorkersEnd
    /\ node' = IF firstError # 0 THEN "threw" ELSE "returned"
    /\ UNCHANGED <<vars, setting, item, firstError, output, executed, hints>>

HubAnswersSession == Answer /\ UNCHANGED <<setting, nodeVars>>

TokenExpires(s) ==
    /\ Cardinality(expiring) < Expiries
    /\ Expires(s)
    /\ UNCHANGED <<setting, nodeVars>>

Reply(i) ==
    \/ Succeeds(i) \/ Replayed(i) \/ Unauthorized(i)
    \/ \E err \in Refusals(plan[i]) : Refused(i, err)
    \/ \E err \in Mishaps(plan[i]) : Mishap(i, err)

Own(i) ==
    \/ Begin(i) \/ BuildFails(i) \/ Wakes(i) \/ Session(i) \/ Dispatch(i)
    \/ \E err \in SessionErrors : SessionFails(i, err)

NodeNext ==
    \/ \E i \in Invocations : Own(i) \/ Reply(i)
    \/ HubAnswersSession
    \/ \E s \in 1..issued : TokenExpires(s)
    \/ Return

\* Every request has a timeout, every backoff a timer.
NodeFairness ==
    /\ \A i \in Invocations : WF_nvars(Own(i)) /\ WF_nvars(Reply(i))
    /\ WF_nvars(HubAnswersSession) /\ WF_nvars(Return)

NodeSpec == NodeInit /\ [][NodeNext]_nvars /\ NodeFairness
--------------------------------------------------------------------------------
NodeTypeOK ==
    /\ TypeOK
    /\ item \in [Invocations -> [pc : {"queued", "session", "sent", "backoff", "answered",
                                       "error", "threw"},
                                 attempt : 0..MaxRetries, known : BOOLEAN]]
    /\ firstError \in Invocations \cup {0} /\ output \in Seq(Invocations)
    /\ node \in {"running", "returned", "threw"}
    /\ executed \in [Invocations -> Nat] /\ hints \in [Invocations -> Nat]

\* "SQL operations are retried only when the failure establishes that redispatch is safe"
\* (docs/performance-and-reliability.md:156): whatever is lost or refused and however often
\* the session is renewed, the agent runs no SQL command of the node twice.
RedispatchIsSafe ==
    \A i \in Invocations : Sql(i) => executed[i] <= 1

\* What holds: an SQL command is run once more only for a token that expired (on the socket,
\* where app:error ends a command under way) or for an error that the agent called transient,
\* whatever the agent had done by then.  No failure of the transport, no timeout, no answer
\* of the hub with a server error and no rejected pull of its rows makes it run again.
RunsAccountedFor ==
    \A i \in Invocations :
        Sql(i) => executed[i] <= 1 + hints[i]
                                 + IF plan[i].channel = "socket" THEN Cardinality(expiring) ELSE 0

\* The node ends only when none of its commands is under way and none was begun after an
\* error; it throws the error that came first, or its results come out in the order of the
\* input, one for each item, whichever item ended first.
SettledTogether ==
    node # "running" =>
        /\ \A i \in Invocations : ~Active(i) /\ inv[i].pc = "idle"
        /\ node = "threw" <=> firstError # 0
        /\ firstError # 0 => item[firstError].pc = "threw"
        /\ node = "returned" => /\ ToSet(output) = Work
                                /\ \A j, k \in DOMAIN output : j < k => output[j] < output[k]

\* A command that may change data is never under way together with another one.
WritesRunAlone ==
    \A i, k \in Invocations :
        i # k /\ Active(i) /\ Active(k) => plan[i].kind # "write" /\ plan[k].kind # "write"

\* Items that run side by side do no harm to each other: see the two above.
ItemsTogether == SettledTogether /\ WritesRunAlone

\* The invocations that share a session share its login and its refresh too, also when
\* attempts are repeated.
SessionShared == NodeTypeOK /\ OneRequestEach /\ LoginsJustified /\ RetryHasNewSession

\* The node always comes to an end: attempts, session renewals and waits are limited.
NodeEnds == <>(node # "running")

================================================================================
