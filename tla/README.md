# Formal models of the Plug Database n8n package

TLA+ modules, TLC configurations and TLAPS proofs about the parts of this repository where
callbacks, timers, sockets and retries interleave: the receive path of a Socket.IO
connection, commands and the streams of their results, the two command executors, the
execution of a node with its retries and its session, actions and durable operations, the
socket event trigger, and the nodes that talk to the hub itself or serve AI agents.

Every definition is translated from the TypeScript sources (`shared/` and
`packages/n8n-nodes-plug-database/`); the mapping to lines is in `PROJECT.json` under `map`.
Paths below leave out the common prefixes: `socket/` is `shared/socket/`, `node/` is
`packages/n8n-nodes-plug-database/nodes/PlugDatabase/`, `trigger/` is
`packages/n8n-nodes-plug-database/nodes/PlugDatabaseSocketEventTrigger/`.

To check a module: `tlc -config <run>.cfg <MC module>.tla`; to check the proofs about it:
`tlapm <...>_proofs.tla`. Which module goes with which configuration is the `runs`
list of `PROJECT.json` and the table in section 5.

## 1. The system

An n8n node runs commands on remote agents through a hub. A command goes out over REST, over
a *consumer* Socket.IO connection (namespace `/consumers`), or over a *relay* conversation.
Large results come back as a stream of chunks that the client pulls window by window. A
separate trigger node keeps a connection open and turns the hub's events into workflow items.
Everything runs on one JavaScript thread: a callback runs to its end, and another one can run
at every `await`, timer, promise reaction and socket event. That is the atomicity of all the
models: **one action is the code between two points where another callback may run**.

### Inventory

| Component | State it keeps | Operations | Talks to | Hard part | Correct when |
|---|---|---|---|---|---|
| Ordered decode queue, `socket/parallelChunkDecode.ts` | linked list of tasks, next one to decode, reservations (frames, bytes), drain waiters | `enqueue`, `enqueueOrdered`, cancel, `clear`, `drainOrderedWork`, decode and apply callbacks | dispatcher (owner), sessions (apply) | decodes end in any order, applies are asynchronous, cancellation in between | in-order, one at a time, exact reservations, nothing forgotten |
| Socket event dispatcher, `socket/socketEventDispatcher.ts` | registered commands and their budgets, id owners, retired ids, pooled operations | register, receive, distribute, dispose, fail | decode queue, sessions, transport | late or duplicated events, pooled objects, shared budgets | a result reaches the command it belongs to, accounts hold |
| Stream pull, `socket/streamAggregationState.ts`, `streamPullPrefetch.ts` | credits, pull in flight, chunks counted during it | record chunk, begin, finish, abort a pull | both sessions | chunks race with pull responses | never more credit than the hub owes, no stall |
| Consumer command session, `socket/consumerCommandSession.ts`; relay stream, `socket/relayStreamAggregation.ts`, `streamPullSession.ts` | answer, rows, kept chunks, pull keys, timers, listeners | answer, chunk, complete, pull answer, error, timeout, abort, cleanup | dispatcher, credit account | completion and failure overtake queued work; every end must clean up | whole answers, lawful windows, nothing held after the end |
| Relay session and batch, `socket/relaySession*.ts`, `relayBatchSession.ts` | conversation, acceptance, waiters, early answers, streams | start, send, accept, refuse, answer, time out, end | hub, dispatcher, relay stream | items end one by one, answers overtake their acceptance | an answer for each item or one error; the conversation ended once |
| Managed transport, `node/managedSocketIoTransport.ts` | connection, token, reference count, stale and deferred-disposal flags | `acquire`, `release`, `dispose`, `ensureTransport`, `markStale`, `close` | both executors | shared by overlapping commands | exact count, never torn down under a user |
| Consumer executor, `node/socketCommandExecutor.ts` | capability cache and TTL, probe in flight, agent limits | `execute`, `close`, transport callbacks | managed transport, relay executor (fallback) | one probe for all, decisions kept over an await | caches speak of the present connection and identity |
| Relay executor, `node/relaySocketExecutionManager.ts` | kept conversation and queue per agent | `execute`, `close`, transport callbacks | managed transport, relay session | reuse of a conversation across failures and reconnects | one command per conversation, none leaks |
| Session runner, `shared/auth/session*.ts` | session, login and refresh in flight | run an invocation, login, refresh | REST login and refresh | many invocations find the token expired | one request each, no stale retry |
| Node execution, `shared/utils/boundedConcurrency.ts`, `shared/n8n/plugItemExecution.ts`, `plugTransportExecutor.ts`, `plugTransientRetry.ts`, `plugBatchCoalesce.ts` | workers, first error, attempts | run items, send, retry, coalesce | session runner, executors, REST | first error; an answer lost after the command ran | nothing that writes runs twice; items settle together |
| Action I/O and durable SQL, `shared/n8n/actionIoExecution.ts`, `sqlExtensionExecution.ts`, `socket/actionIo*.ts`, `shared/contracts/actionIo/` | connection and pending commands, the workflow's checkpoint | send, answer, read a page, dispose | hub over three channels | nothing is replayed, so errors must tell the truth about effects | true errors, a transcript without gaps |
| Backpressure queue, `trigger/triggerBackpressureQueue.ts` | waiting events, slots | `enqueue`, `drain`, settle, `close` | trigger node | slots freed in `finally` reactions | bounds, order, no idle slot, every event accounted for |
| Event memory and keepalive, `socket/customSocketEventSessionSupport.ts` | ids with expiry, interval | look up, remember, evict, stop | trigger, one-shot wait | expiry against redelivery | once per id while remembered |
| Trigger connection, `trigger/triggerReconnectManager.ts`, `trigger/PlugDatabaseSocketEventTrigger.node.ts`, `socket/customSocketEventSession*.ts` | session, attempt counter, failure window, timer, flags | connect, ready, subscribe, runtime error, reconnect timer, close | session runner, hub, queue | the same loss is told twice; close during a connect | one socket, one driver, final close, it comes back |
| Access nodes and socket event tools, `shared/n8n/plugClientAccessExecution.ts`, `plugUserAccessExecution.ts`, `plugToolsSocketEventExecution.ts`, `shared/rest/` | item loop, pages read so far, a socket per call | list, read, change, publish, wait | hub | a collection that changes between pages; a lost answer; a wait that is over before its subscription | whole lists, one effect per call, sockets closed |
| MCP server, `shared/n8n/mcp*.ts`, `shared/mcp/` | call count of the run | validate, list, call | AI hub wiring, SQL, tools | every limit is read anew per item, from several places | calls stay within what the author allows |
| Codec, command building, output layout, webhooks, document tools | none that outlives a call | pure mapping, I/O | | sequential | left to tests |

`PROJECT.json` lists every component with its files and how much of it is modelled.

### How the modelled parts interact

* The dispatcher owns one decode queue per connection. `SocketDispatcher` takes the queue by
  its promise (`OrderedDelivery`, which `DecodeQueue` is shown to implement); the command
  models take both by theirs: events of a command reach it in order (`wire`), and only its
  own or unnamed ones.
* Consumer results pass through the queue in arrival order, relay pull responses do not
  (`streamPullSession.ts:91`): `StreamPull` has both orders (`ordered`). What a pull buys is
  `StreamPull`; who holds which key, timer and listener is `StreamedCommand`; what a stream
  means to the conversation it runs in is `RelayCommand`.
* The two executors share the class `ManagedSocketIoTransport`, hence the module
  `ManagedTransport`, whose methods are operators on a record: `ConsumerManager` and
  `RelayManager` compose several calls in one step, as their handlers do. To them a command
  returns or fails; `RelayCommand` says what it leaves behind at the hub either way.
* A probe that times out makes the consumer executor fall back to the relay executor:
  the end state `"relay"` of `ConsumerManager` is a call of `RelayManager`.
* `NodeExecution` EXTENDS `AuthSession`: an attempt of an item is an invocation of the
  session runner, and the steps of both interleave in one run.
* `TriggerEvents` EXTENDS `BackpressureQueue`: a task of the queue looks its event up in the
  memory, prepares it and emits it. Both outlive the sockets of `TriggerSession`.
* Two runs join two kinds of thing in one instance (`MCSocketCommand`: a conversation or a
  streamed command; `MCHubNodes`: a node of the hub or the MCP server). They share no state
  in the code, so the kind is chosen at the start and the other rests in an end state.

## 2. Modules

| Module | What it stands for | Main abstraction |
|---|---|---|
| `OrderedDelivery` | what a connection promises its handlers | no decoding, no reservations |
| `DecodeQueue` | `parallelChunkDecode.ts` | the linked list is the interval `head..last` of task numbers, an undefined pointer is `last + 1`; frame contents are only their size |
| `SocketDispatcher` | `socketEventDispatcher.ts` | ids are model values, an event is its kind, the ids it carries and whether it decodes; frames are counted like bytes |
| `StreamPull` | credit account, window loop of both sessions, receive limit | chunks are numbered, so messages under way are the gaps between counters; rows are left out |
| `StreamedCommand` | `consumerCommandSession.ts`, `relayStreamAggregation.ts`, `streamPullSession.ts`, `consumerCommandStreamPull.ts`, window policy | an answer or chunk is what the handlers tell apart of it |
| `RelayCommand` | `relaySession*.ts`, `relayBatchSession.ts` | an item has one name, for the client and the hub; its stream succeeds or fails |
| `ManagedTransport` | `managedSocketIoTransport.ts` | connections are numbered; callbacks are counted |
| `ConsumerManager` | `socketCommandExecutor.ts` | a command succeeds or fails as a whole; time is "fresh" or not |
| `RelayManager` | `relaySocketExecutionManager.ts` | a conversation is named after the command that opened it |
| `AuthSession` | `createExecutionSessionRunner` in `auth/session.ts` | sessions are numbered as they are issued; any may expire at any time |
| `NodeExecution` | the item pool, retry, coalescing and the errors of all transports | an error is the fields the retry policy reads |
| `ActionIo` | Action I/O and durable SQL operations | a command is a mutation or a read of the output; a page is its events and offsets |
| `BackpressureQueue` | `triggerBackpressureQueue.ts` | events are numbered; a task resolves with or without an item, or rejects |
| `TriggerEvents` | event handler and memory of ids | the Map is its insertion order and the order in which entries expire |
| `TriggerSession` | reconnect manager, connect, runtime error and close handlers, start of a session | a flow is one call of `connectWithRetry` and names its socket |
| `HubNodes` | access nodes, socket event tools, REST clients of both | an operation is a list, a read, a change, a publication or a wait; collection items are numbers |
| `McpServer` | MCP server node and `shared/mcp/` | a name is its words and a spelling, a value its JSON kind and what it can be read as |
| `..._proofs` | theorems and their proofs, a module for each part of the system | section 7 |
| `MC...` | | finite values and symmetry for TLC; no definition is replaced |

Reading a module next to its source:

* **DecodeQueue.** `running` is true while the loop of `applyReady` is on the stack; until it
  leaves, only its own steps are enabled, which makes the re-entrant calls (an apply that
  enqueues, cancels or clears) explicit. `current` is the task whose asynchronous apply is
  pending. `pendingFrames`/`pendingBytes` are the metrics, `accFrames`/`accBytes` what
  `options.accumulated()` returns.
* **SocketDispatcher.** `op[s]` is an `Operation` object, `idle` the pool, `handle[c]` the
  object and generation that the closures of `register` captured; `life[c]` is `"refused"`
  where `register` throws because commands of another signing context are pending. An event
  arrives in `EventArrives`: `Receive` reserves for it, or overruns, when it has to be
  decoded, and `Distribute` finds its command at once when not; `ApplyDecoded` is
  `Distribute` after the decoding. Each is one step, as they have no await. A data event is
  applied by an asynchronous handler of its command, which the queue waits for (`handling`):
  it returns (`HandlerReturns`), or, for a chunk that is malformed or over the row limit,
  rejects (`HandlerRejects`). `applySocketDecodeInOrder` passes the rejection on to the queue
  (`socketEventDispatcher.ts:742`), whose `onError` fails every command of the connection.
  `history` and `traffic` exist for the properties.
* **StreamPull.** `pullPhase` follows `requestNextStreamWindow` through its awaits: request,
  response, drain of the ordered work, rest. `scheduled` is the pull work that
  `schedulePullIfCreditsExhausted` put behind the chunks. The hub grants any window up to the
  one asked for, and may replace or add to what is left of the last.
* **StreamedCommand.** `held` names what a command has to give back; every end is
  `CleanedUp`, the one `cleanup` of the code. A window of 0 is `undefined`. In stage
  `"rejected"` the handler of a chunk has thrown (`MalformedItem`, `ChunkOverLimit`): nothing
  more is taken, and the command ends when the queue tells all commands (`QueueFails`), unless
  a timer or an abort ends it first.
* **RelayCommand.** `cmd` is how the command was called: single or batch, with
  or without batch acceptance (`fast`), on a private or a managed connection, with a fresh or
  a reused conversation. `pending`, `buffered` and `answer` are the response maps of
  `relayBatchSession.ts` and their single-command counterpart; `Finally` is the `finally`.
* **ConsumerManager, RelayManager.** `exec[e].pc` is where a call of `execute` waits.
  `generation` is the cache generation the call captured at its start. `capabilityOf` is a
  history for the properties. `relay:conversation.end` is emitted without an answer, so
  a conversation is ended at the hub in the same step.
* **AuthSession, NodeExecution.** All who await one promise resume together with its result;
  what they do next are steps of their own. `item[i].pc` is where the command of an item
  waits, `executed` counts at the agent, `hints` the attempts repeated because the agent
  called its error transient. Errors carry class, code, status and the flags
  `retryable`, `auth` and `dispatched`, as each transport creates them; those of the agent are
  of class `"agent"`. A transient one (`Transient`) may come before anything ran or after it
  all did: it is among the `Refusals` and among the `Mishaps`.
* **ActionIo.** `requests` and `answers` are what is under way; an answer stays and may come
  again. `unknown` is `outcome_unknown` of the error the workflow sees.
* **BackpressureQueue, TriggerEvents.** A task passes from `preparing` to `settling` when its
  `then` or `catch` runs and leaves when its `finally` runs, one microtask later; events and
  `close` may come in between. `config` (limits and policy) is chosen in `Init`.
* **TriggerSession.** `Subscribes` tells the custom-event trigger, which subscribes and waits
  for the answer after it is ready, from the agent-profile trigger, which is done when it is
  ready. Errors are `"retryable"` or `"permanent"` (`PlugError.retryable`) or `"unknown"`.
* **HubNodes.** `try` is what the call of an item has used up of its retries and its one
  renewal. `list` is the local state of `collectAllPages`, with two histories: `whole`, the
  items there at the first page, and `shifted`, that something was put in elsewhere than at the
  end, or taken away, since. `hub.tells` is which numbers the lists of user access tell beside
  their items; what the parser makes of an answer that leaves one out is `TotalOf` (as many as
  it holds), `PageOf` (the first) and `SizeOf` (as many as it holds). A socket of the tools goes through connecting, decoding
  (the ready frame), subscribing or publishing, listening, closing, gone; `beat` is its
  keepalive interval.
* **McpServer.** What a call may reach is `Admits` (budget, names, schema), what is executed
  is `Runs` (limits of the definition, read-only SQL), in the order of `executeCallItem`.

## 3. What is checked, component by component

The comment before each property states it and quotes the promise in the repository's
documents where there is one. `PROJECT.json`, `hazards`, gives for each hazard the line where
it bites and the properties that would catch it. Type invariants are conjuncts of the first
property of their module.

* **Ordered decode queue.** `Accounting`: reservations are exactly what the unreleased frames
  hold, although cancel, clear, the loop and a resolved apply may all return one; retained
  frames exceed the limit by at most the one counted twice while its apply is pending; no
  decoder is idle while a frame of the list is undecoded. `DeliversInOrder`: the queue
  implements `OrderedDelivery`. `WorkedOff`: every burst is worked off, drains included.
* **Dispatcher.** `AccountsExact`: pooled objects, reserved, retained and budgeted bytes agree
  with what is registered, whatever is cancelled or disposed. `RoutedHome`: an event about one
  command reaches another only uncharged while that one is alone, or after its ids were
  forgotten. `BytesFailAlone`: a command whose bytes overrun its budget fails alone; the
  budget of the connection is exceeded only by more than its control reserve in frames that
  no command is charged for. Of rows this does not hold (departure 10).
* **Stream pull.** `CreditsCovered`: the balance never exceeds what the hub owes, also in the
  middle of a pull. `NeverStalled` and `StreamEnds` are the consequence a user sees;
  `NoPartialResult` says that a completion that overtakes queued chunks does not
  resolve the command early; `PullsNeverOverlap` that the three places that ask for the next
  window never have two requests out.
* **Commands.** `AnswersKept`: however acceptance, early, repeated and late answers
  interleave, none is lost while the command waits, and a command returns a result for every
  item that agrees with what the hub did, or fails. `ConversationFate`: what stays open at
  the hub is what the caller will use again. `StreamLawful`: each chunk is in the answer once
  and in order, and no window is asked for that the agent did not allow. `PullsFreed`: keys
  of pulls, listeners and routes never outlive what they were for. `AllCommandsEnd`: there is
  no wait without a timer, though the hub may never answer.
* **Executors.** `ConnectionShared`: the shared connection is counted exactly and never torn
  down under a user ("a capability probe timeout cannot tear down siblings"). `ProbeShared`:
  one probe, nobody waits for a forgotten one, caches speak of the present connection.
  `OwnConversation`, `ConversationsKept`: who may use and keep a conversation, and that none
  leaks. `QueueMoves`: a failure does not block the agent.
* **Node.** `RunsAccountedFor`: the agent runs an SQL command once, and once more at most for
  each token that expired (on the socket) and each error that the agent itself called
  transient (section 6, 1): never because an answer was lost, late, malformed or a server
  error of the hub. `ItemsTogether`: the node ends only when all its items have settled, with the
  error that came first or the output in order, and a write is never under way with another
  command. `SessionShared`: one login and one refresh at a time, the credentials are sent
  again only for a failed login or a rejected refresh, a retry has a new session.
  `NodeEnds`.
* **Action I/O.** `EffectsTold`: an error that rules effects out is true, now and later.
  `ExecutionsApart`: what the workflow has read is the output from its start without gap or
  repetition, and no connection outlives its execution. `AllEnd`.
* **Trigger.** `QueueLaws` (bounds, no idle slot, every event accounted for, first in first
  out with one slot, the newest kept), `EachEventOnce` (an id is emitted again only after it
  was forgotten, and nothing vanishes in silence), `EventsSettle`, `QuietAfterClose`; of the
  connection `OneConnection` (one socket, exactly one driver), `StillAfterClose`, `Recovers`.
* **Nodes of the hub.** `PagesComplete`: a list holds every item there was from its first page
  on, once and in order, or the read fails, unless something was put in elsewhere than at the
  end, or taken away, while it was read, or the answers do not tell enough (departure 11).
  `EffectsOnce`: a change is made once however answers are lost. `GovernedCalls`: no call
  beyond its budget, what is executed is what a listing offers, a cut answer says so, masked
  columns and sensitive arguments are not shown. `AllNodesEnd`: with every socket closed.

## 4. Fairness

Stated only where a run checks a liveness property.

* `DecodeQueue`: while a callback is pending the event loop runs one. Nothing is assumed of
  enqueues, cancels, clears and drains. Each decode and each apply settles once, so weak
  fairness of their disjunction is enough.
* `StreamPull`: weak fairness of the hub (it serves the windows it granted and completes the
  stream), of arrivals, of the decode queue and of the window loop. Failures are never
  obliged to happen, so `StreamEnds` says: without a failure the stream resolves. It says
  nothing of a stream longer than the limit of its command.
* `RelayCommand`, `StreamedCommand`: only what the session does by itself: its timers fire,
  the encoder and the decoder of the ready frame return. Nothing is assumed of the hub.
* `NodeExecution`: every step of an item, every reply (each request has a timeout, whose
  error is one of the replies), the login and refresh requests, and the return.
* `ActionIo`: the timers of connecting and waiting (`actionIoConnection.ts`,
  `actionIoTransport.ts`), and the return. The engine need not become writable.
* `TriggerEvents`: decoding and converting end, by a result or an error.
* `TriggerSession`: the reconnect timer fires, and every wait of a connect ends by its
  answer, an error or its timeout (`customSocketEventSessionWait.ts:62`). Failures are
  bounded (`MaxFaults`), so `Recovers` reads: once the failures stop, the trigger listens
  again or has told the workflow of an error.
* `HubNodes`: one weak fairness for all the node does or does not wait for longer than a
  timer (`OwnSteps`); whether the hub confirms, sends an event or changes a collection is
  left open. `McpServer`: its loop goes on, as every capability has its own timeout.

`ConsumerManager`, `RelayManager` and `SocketDispatcher` have no fairness; what would be
liveness is the invariant that makes it so (`NoVainWait`, `QueueMoves`): whoever waits, waits
for something that is under way.

## 5. Runs

| Run | Configuration | Distinct states | Instance |
|---|---|---|---|
| `decode_queue` | `DecodeQueue.cfg` | 912 908 | 4 tasks of two sizes, 2 decoders, limits of 3 frames and 5 bytes, 1 waiting drain |
| `stream_pull` | `StreamPull.cfg` | 301 249 | 6 chunks, windows up to 8, a limit of 6 that fits and one of 4 that does not, both transports, failures at any moment |
| `socket_dispatcher` | `SocketDispatcher.cfg` | 1 633 201 | 3 commands (a batch of two, a relay command) on 2 pooled objects, 2 signing contexts, 2 events of 6 forms, handlers that return or reject |
| `socket_command` | `SocketCommand.cfg` | 603 700 | a conversation with 1 or 2 items called in every way, each answered up to twice; or a command of either channel with up to 2 chunks, 2 events under way, windows 1 and 3 against a maximum of 2 |
| `consumer_manager` | `ConsumerManager.cfg` | 496 949 | 3 calls, one a batch, 2 tokens |
| `relay_manager` | `RelayManager.cfg` | 1 212 229 | 3 calls to one agent, 1 batch to another, 2 tokens |
| `node_execution` | `NodeExecution.cfg` | 617 666 | 2 items in three mixes of read, write, metadata, REST, socket; 1 retry, 1 token that expires, agent errors with a retry hint before and after a run |
| `node_redispatch` | `NodeRedispatch.cfg` | violation | 2 writes on the socket, no retries: finding 1 |
| `action_io` | `ActionIo.cfg` | 79 035 | 3 items in up to three executions over all channels, an output of 3 events, 2 lost connections |
| `trigger_events` | `TriggerEvents.cfg` | 1 792 248 | 4 events with 2 ids, 1 or 2 slots, 0 or 1 places, all policies, a memory of 1 |
| `trigger_session` | `TriggerSession.cfg` | 4 468 | custom events, 2 attempts, breaker after 1 failure, 9 failures |
| `hub_nodes` | `HubNodes.cfg` | 647 742 | 2 items, one of 17 operations and a wait or a change; collections of 4 in pages of 2, told in full, with the total alone or not at all, or answered whole; 1 change, 1 retry; or 2 MCP items out of 5 catalogs and 9 requests |

**Why the bounds are enough.** Every model is a small number of actors over counters whose
comparisons matter only near equality.

* Four tasks let two decode, one wait undecoded behind them and one arrive or be refused,
  the least in which `nextDecode` can lag or run ahead while the head is removed.
* Six chunks with windows up to eight give windows larger than the rest of the stream, used
  up exactly and used up during the pull; eight is the least window whose prefetch threshold
  (a quarter) is above one.
* Three commands on two objects are the least in which one gets the pooled object of another
  while the third is live; two events suffice for one that is being decoded while the other
  overruns a budget, and a late one after its command is disposed.
* Two items of a batch, each answered twice, are the least with an early, a repeated and a
  missing answer. Window values on both sides of the maximum decide every clamp.
* Three calls are the least in which a third meets what two others left (a probe joined and
  one replaced, a connection deferred and reused), and four relay calls put two behind a
  failure while another agent forces a reconnect.
* Two items under a shared session with one expiry show a refresh shared, a refresh lost and
  an attempt with a stale token; the plans pair what may and what may not run side by side.
* Three actions put one after a lost connection of the one before, and a read after a read.
* Two ids in a memory of one make every new id an eviction; four events fill the slots and
  the queue, repeat an id and drop one.
* Nine failures exhaust attempts, the breaker and the window several times.
* A collection of four in pages of two ends with a full page; one change between two pages
  makes the last page short, adds a third, which is beyond the limit of pages, or shifts what
  is left. The three tellings decide every fallback of the parser, with a first page of one
  and of two. Two
  input items show what one leaves behind for the next.

`CHECK_DEADLOCK FALSE` everywhere: all of these systems come to rest when their calls and
events are used up. Symmetry is used for interchangeable calls and tokens, in runs without
temporal properties only (`ConsumerManager`, `RelayManager`).

Every property of a passing run has a mutant (`..._mut`, defined next to the definition it
would replace): a plausible slip in the code, such as an off-by-one, a dropped guard or a
missing reset, under which the run finds the property violated. The mutants are used by
nothing else.

## 6. Where the code departs from what is said of it

1. **A command sent twice (`socketErrors.ts:166`), run `node_redispatch`.**
   `docs/performance-and-reliability.md:156` says that SQL operations are retried only when
   the failure establishes that redispatch is safe. An `app:error` that tells of an expired
   session while a command is under way on the socket makes the session runner renew the
   session and call back, and the command is sent a second time with a fresh request id.
   An error of the agent with a retry hint and no flags of effects leads there too, on either
   channel (`rpcNormalization.ts:357`, `plugTransientRetry.ts:229`): it may come after the
   command ran, as of a query that took too long, and the command is sent again;
   `docs/error-and-authorization-contracts.md:24` says that "a retry hint is not proof that a
   mutation can be repeated safely". The run has no retries, so that it shows the first way
   alone. `RunsAccountedFor` states what does hold.

The other departures met while modelling are in the models, and the properties say what holds
with them, by an exception where one is needed:

2. **A stale "unsupported" verdict (`socketCommandExecutor.ts:239`).** The timed-out probe
   sleeps before it records its verdict and does not compare the cache generation again, so
   that a verdict on an old connection may enter the cleared cache (`CachesCurrent` speaks of
   "supported" only).
3. **Probe after token rotation (`socketCommandExecutor.ts:90`).**
   `docs/socket/implementation-notes.md:71` promises that a fresh probe is skipped after a
   rotation; the identity callback resets the cache, so the next call probes again.
4. **A conversation left open (`relaySocketExecutionManager.ts:231`).** A relay batch whose
   results do not merge throws after the batch session returned with its conversation kept
   for reuse; it stays open until the connection, marked stale, is replaced
   (`NoLeakedConversation` speaks of connections that are not stale).
5. **A dead agent-profile trigger (`customSocketEventSessionWait.ts:41`).** The listeners for
   a disconnect are removed when the ready frame arrives and installed again after it is
   decoded. A disconnect in between is seen by nobody. The custom-event session then runs
   into the timeout of its subscription; the agent-profile session has nothing to run into
   (`Recovers` is checked with `Subscribes = TRUE`).
6. **Uncounted failures (`triggerReconnectManager.ts:160`).** An error that is not a
   `PlugError` leaves `connectWithRetry` before the accounting and is scheduled again as
   retryable: neither the attempt limit nor the breaker ever stops it.
7. **A keepalive left behind (`customSocketEventSession.ts:245`).** The interval is started
   before the connection is awaited and not stopped when that fails (`AllNodesEnd` excepts
   keepalives of connections that were never established).
8. **An event published twice.** An event sent over the socket without an idempotency key is
   sent again when the session expires before its confirmation (`EffectsOnce` allows two).
9. **Tools do not know their row limit.** The effective row limit of an MCP capability is
   passed to SQL only; a tool may return more rows, and its answer is then marked truncated.
10. **Rows of one command fail all (`socketEventDispatcher.ts:742`).** A chunk that is
   malformed or over the row limit of its command rejects in that command's handler. The
   rejection reaches the queue of the connection, which fails (`parallelChunkDecode.ts:136`)
   and sends an `app:error` to every command on it, whereas too many bytes of a command fail
   it alone (`BytesFailAlone`).
11. **Lists that look whole (`userAccess.ts:98`).** A list of user access without a total counts
   as complete, so that all of it is its first page; without a page it counts as the first one,
   so that a reading that began later reads a page again. Pages are numbered, so what is put in
   before them or taken away meanwhile doubles an item or hides one (`PagesComplete` excepts
   these).

## 7. Proofs

What a run shows on its instance, the theorems show for **every** value of the constants:
any number of calls, agents, items, chunks, events or faults, any limits and policies. Every
safety invariant and every action property that a passing run checks is stated by a theorem,
and so are the two refinements. They rest on the assumptions named in the modules and on
nothing else. Those say that sets of calls are finite, that limits are numbers (positive where
the code clamps them), that plans, catalogs and logs have their types, and that the model
values for "nothing" are none of the things they stand beside (`NoToken`, `None`, `Failed`).
`SocketDispatcher` assumes moreover that different commands have different ids. They are
random UUIDs unless the author of a raw command writes an `id` into it
(`consumerCommandWire.ts:228`). The dispatcher refuses such an id while it is registered
(`socketEventDispatcher.ts:563`); events of an earlier command under the same id it cannot
tell from those of the later, and the theorems say nothing of that.

| Module, specification | Theorem | Statement |
|---|---|---|
| `Dispatch_proofs`, `QueueSpec` | `AccountsAreKept` | `[]Accounting` |
| | `OrderIsKept` | `DeliversInOrder`: the queue implements `OrderedDelivery` |
| `Dispatch_proofs`, `Spec` of `SocketDispatcher` | `DispatcherInvariance` | `[]DispatcherInv` |
| | `AccountsAreExact`, `EventsReachHome`, `BytesFailOneCommand` | `[]AccountsExact`, `[]RoutedHome`, `[]BytesFailAlone` |
| `Streams_proofs`, `PullSpec` | `Invariance` | `[]IInv` |
| | `TypeCorrect`, `CreditSafety`, `NoStall`, `WholeStream`, `QuietOnceSettled` | `[]PullTypeOK`, `[]CreditsCovered`, `[]NeverStalled`, `[]NoPartialResult`, `[]SettledIsQuiet` |
| | `OnePullAtATime` | `PullsNeverOverlap`, an action property |
| `Streams_proofs`, `SocketSpec` | `SocketInv` | `[](RInv /\ CInv)`: of `RelayCommand` and of `StreamedCommand` |
| | `NoAnswerLost`, `ConversationsEnd`, `StreamsWhole`, `PullsEndWithCommands` | `[]AnswersKept`, `[]ConversationFate`, `[]StreamLawful`, `[]PullsFreed` |
| `Connections_proofs`, `Spec` of `ConsumerManager` | `Invariance` | `[]IInv` |
| | `SharedConnection`, `SharedProbe` | `[]ConnectionShared`, `[]ProbeShared` |
| `Connections_proofs`, `RelaySpec` | `RelayInvariance` | `[]RelayInv` |
| | `ConversationsOwned`, `NoneLeaked`, `TheQueueMoves` | `[]OwnConversation`, `[]ConversationsKept`, `[]QueueMoves` |
| `NodeExecution_proofs`, `Spec` of `AuthSession`, `NodeSpec` | `SessionInvariance`, `NodeInvariance` | `[]SessionIInv`, `[]NodeIInv` |
| | `OneSession`, `RunsAreAccountedFor`, `Together` | `[]SessionShared`, `[]RunsAccountedFor`, `[]ItemsTogether` |
| `ActionIo_proofs`, `Spec` | `ErrorsAreTrue`, `ReadsAreWhole` | `[]EffectsTold`, `[]ExecutionsApart` |
| `Triggers_proofs`, `Spec` of `BackpressureQueue` | `QueueInvariance`, `QueueLawful` | `[]QInv`, `[]QueueLaws` |
| `Triggers_proofs`, `TriggerSpec` | `TriggerRefinesQueue` | `TriggerSpec => Spec`: the trigger implements the queue |
| | `TriggerLawful`, `TriggerQuiet` | `[]QueueLaws`, `QuietAfterClose` |
| | `TriggerInvariance`, `EventsOnce` | `[]EInv`, `[]EachEventOnce` |
| `Triggers_proofs`, `SessionSpec` | `Invariance` | `[]IInv` |
| | `OneConnectionHolds`, `QuietAfterCloseHolds` | `[]OneConnection`, and `StillAfterClose`, an action property |
| `Hub_proofs`, `HubNodesSpec` | `EffectsHappenOnce`, `ListsAreComplete` | `[]EffectsOnce`, `[]PagesComplete` |
| `Hub_proofs`, `McpSpec` | `CallsAreGoverned` | `[]GovernedCalls` |

`Sums_proofs` holds the facts about sums over finite sets (`SumFunctionOnSet`) that the
accounts need: adding, removing and changing a term, splitting a sum, comparing two.
The sum is a fold, defined by a CHOOSE and a recursive function; its value is found for every
finite set by picking elements (`SumByPicking`, `SumUnfolds`), which an induction over sets of
naturals carries (`SetInduction`, `SetsInduction`). Two executors share the first lemmas of
`Connections_proofs`, about the methods of the managed transport (`acquire`, `release`,
`dispose`, `ensureTransport`): what each returns of the reference count and of the callbacks
it makes.

Each component has an inductive invariant (checked by TLC as an invariant of its run before
it was proved), one lemma per action or group of actions that it is kept, and a theorem per
property. What the properties lack to be inductive:

**Decode queue.** That the accounts are exact does not follow from themselves: a release gives
back a frame only if it was not given back before. `Marks` says who did: what was released and
is still in the list was cancelled, and what was cancelled and is in the list counts as ready,
so that the loop drops it. `ReservedBooks` then has the reservations as a sum over the tasks
that hold one (`HeldTasks`), from which each handler takes its frame out once. `DecodersTight`
(`nextDecode` is at the end of the list while a slot is free, and everything of the list before
it is decoded or being decoded) is what the source's `pump` re-establishes wherever it is called.
`Order` says that what has left the list was applied or dropped, and that what is being applied
is its head unless it was cancelled meanwhile. With it, every step of the queue is a step of
`OrderedDelivery` or a stutter (`OrderIsKept`).

**Dispatcher.** `Pools` and `Handles` tie operation objects to commands: an idle object is
blank, a live one serves one command, and a handle of an older generation serves nobody, which
is why a late `dispose` or `emit` cannot reach the command that has the object now.
`Registered` ties ids to objects, and `Queued` says of each event being decoded whom it was
reserved from. `Books` has the accounts of the connection and of each command as sums over
what lives and over what is being decoded. `Homes` is what routing rests on: an operation
learns an id of another command only once that one's ids were forgotten, and a command
that is done has its ids retired or forgotten as a whole. `LooseKnown` is the inductive form
of `BytesFailAlone`: what the commands hold beyond their own limits, together with what is
being decoded for none, is at most the bytes that were admitted uncharged.

**Action I/O.** `EffectsInv` says that what an error or an answer on its way rules out has not
happened and will not: the command has not left, or the agent has already refused it.
`AloneInv` (items run one after the other, each asked from the workflow's present checkpoint)
and `ReadInv` (the transcript is the output up to that checkpoint, and the offsets are the
bytes of its part of each stream) give `ExecutionsApart` for any page that the node accepts,
also from an agent that answers wrong ones. `LinkInv` says whose connections there are.

**Nodes of the hub.** For `EffectsOnce`, `EffectsSoFar` counts for the call on its way the
effects against the sockets that took its event (`UsedUp`), and keys against effects. For
`PagesComplete`, `ReadSoFar` describes what was read as two stretches of the collection, the
first page, which may have been short, and the full pages after it: an addition at the end
leaves both in place (`HubChangesReads`), and any other change sets `shifted`. Where the answers
leave something out, the page asked for next and its size are the parser's, and only a list
whose answers tell enough is claimed to be whole.

**MCP server.** A call is counted when it is sent, so that `OnItsWay` has to remember for the
answer what was admitted: that the catalog and the request did not throw, that the limits let
it run, and that the count is ahead of the calls that were executed.

**Stream pull.** Whether `finishStreamPull` leaves a covered balance depends on which chunks
were counted during the pull, and `NeverStalled` on a pull having been scheduled when the last
credit went. `IInv` adds `Counters` (applied <= arrived <= sent, a completion stands behind
every chunk), `PullFlag` (the flag is set exactly from the request to the end of a pull) and
`CreditsOrPull` (with no pull under way, none scheduled and room to receive, credits are left:
what the second request in `requestNextStreamWindow` is for). A grant `g` raises what the hub
owes by at least `g` less what it may drop of the old window, so `g - pendingChunks` stays
covered while chunks move from hub to wire to session.

**Consumer executor.** That a connection is never torn down under a user needs the exact count
(`CountExact`), and the count needs that a connection in use exists (`InUseIsConnected`), so
that an identity change defers the disposal instead of losing it. That nobody waits in vain
needs that the call that started a probe awaits it itself (`OwnProbe`) and that the probe
later calls join is under way and the last one started (`JoinedIsLatest`).

**Relay executor.** That a conversation has one user needs that the commands of an agent run
one at a time, which the code gets from a chain of promises. `InOrder` says that the calls can
be numbered in the order in which they took their places, and that whatever comes before a
call that began has finished; it also makes the chain end, which is `QueueMoves`.
`OpenedFirst` (a conversation belongs to the agent of the command that opened it) and
`RunsOnKept` (a command runs on what is kept for its agent, under the present identity unless
the connection is marked) carry the rest. `ReleaseAll` is defined by a recursive function; its
value for every number is proved by an induction over a set (`SetInduction`).

**Relay command.** That no response is lost needs that only accepted items are answered
(`OnlyAccepted`, from which `NoRoomAllBuffered`: when the buffer is full every item of the
command is in it, so a response that is not buffered is a repeated one), and that every item
still expected has a waiter (`Waits`). What a command returns follows from what it has when it
begins to aggregate (`Finishes`). `Connection` ties the conversation to the phase. All that
ends a command goes through one lemma, `FinallyKeeps`.

**Command with a stream.** While the hub has answered once, what was taken and what is on its
way is what the hub sent: `Stream(wire, t, k)` says that of a stream of which `t` chunks were
taken and `k` sent the wire holds the others, in order and none after the end, and `Parts`
that the merged and the kept chunks are the first `t`. Both are about one value and were
proved for every sequence (`StreamNext`, `StreamSent`, `StreamEnd`, `PartsAppend`).
`AnswersOnce` keeps a second opening from dropping rows: with one answer there is none left
once the stream is known. `WindowsBounded` is about the window policy alone.

**Session and node.** A retry has a new session because the session kept is the last one
issued (`LastOrNone`), and credentials are sent for a reason because a login is due whenever
one may start (`LoginIsDue`). How often a command runs is bounded by `Counted`: by the errors
of the agent its attempts were repeated for, and by the expired tokens its invocation cannot
have used any more (`UsedUp`), a set that grows exactly where the command may be sent again,
also while other items use the same session. That nothing else repeats it is
`MishapsAreFinal`: any other failure that may follow a run ends the attempts.
`Recorded` ties the output and the first error to what the items did; `TakenInOrder` is why a
write is alone.

**Trigger connection.** Two facts about one flow at a time hold the rest together: the flag of
the manager tells whether a flow is in the connect loop, and at most one flow drives the
trigger (`LoopFlag`, `OneDriving`); a timer is armed only while none does (`TimerAlone`).
`SocketsHeld` says which flow holds a socket. `FaultsPaid` shows that the bound on the flows
is never what keeps a reconnect from happening: each flow but the first was started for a
fault of its own.

**Trigger events.** `QueueLaws` needs the order of the waiting and started events as a whole
(`InOrder`), that a task in flight has shown nothing (`InPlace`), and with one slot that what
is prepared is the newest that was started (`OneByOne`). All handlers that drain go through
one lemma (`DrainKeeps`). A trigger step is a step of the queue or leaves it alone
(`StepRefines`), which gives `TriggerRefinesQueue`, and the laws of the queue for it. For
`EachEventOnce`, what passed the memory is remembered or forgotten (`PassedKnown`), what
passed twice is forgotten (`PassedOnce`), and what is remembered was caused by an event that
passed or failed aloud (`LiveCaused`), so that a dropped duplicate has its cause
(`SilentCaused`).

**Only model-checked.** Liveness (`StreamEnds`, `AllCommandsEnd`, `NodeEnds`, `AllEnd`,
`EventsSettle`, `Recovers`, `AllNodesEnd`, `WorkedOff`): ENABLED and fairness are out of the
reach of the prover. The finding of section 6, which is a counterexample. No module has a
RECURSIVE operator; sums and orders are folds, `ReleaseAll` a recursive function. The theorems
about `HubNodes` and `McpServer` are under the specifications of these modules; the run joins
the two, and neither has a step that touches the other's variables.

## 8. Not modelled

* Message contents: rows, SQL texts, JSON-RPC envelopes, frames, signatures, compression. The
  codec appears where it takes time or fails. That a text is a read-only statement
  (`isLikelyReadOnlySql`) is a property of the command in the plan.
* Time: timers fire at any moment they are armed, TTLs expire at any moment; durations,
  back-off and jitter do not matter to the properties.
* Command building and schema validation (`plugCommandRequestBuilder.ts`,
  `plugSqlGuidedCommands.ts`, `contracts/api.ts`), the layout of outputs, document tools,
  the Plura webhook, node descriptions: mappings of one call without state between calls,
  whose correctness is a table of inputs and outputs rather than a behaviour.
* Of the modelled files: statistics and logging; the distribution of the results of a
  coalesced batch; the touches of the keepalive; the manual test mode of the trigger; error
  texts of the MCP server.
* The hub and the network are external: they may answer, refuse, drop the connection or stay
  silent. Messages of one connection are neither lost nor reordered while it lives, as
  Socket.IO over one transport guarantees.
* Joined runs of the executors with `RelayCommand` and of `TriggerSession` with
  `TriggerEvents`: each takes the other by what it promises, as section 1 says; their product
  is beyond what can be explored.

## 9. What is left

All modules of the plan are written, and all safety properties of the runs are theorems. What
would come next, in this order: the joined model of the executors with `RelayCommand`, for
which `ConsumerManager` would have to give up its abstraction of a command to one step; the
distribution of the results of a coalesced batch to its items; the touches of the keepalive;
and the agent-profile trigger with its departure 5 as a run of its own.
