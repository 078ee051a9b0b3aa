------------------------------ MODULE HubNodes ------------------------------
(***************************************************************************)
(* The nodes that talk to the hub itself rather than to an agent: client   *)
(* access, user access, and the socket event tools, which publish an event *)
(* over HTTP or over a socket of its own and wait for one                  *)
(* (plugClientAccessExecution.ts, plugUserAccessExecution.ts,              *)
(* plugToolsSocketEventExecution.ts, customSocketEventSession.ts).  A node *)
(* works on its input items one after the other.  Each is a call under the *)
(* session of the node (AuthSession), made again from scratch when the     *)
(* session turns out to have expired, and, for calls that only read, also  *)
(* after a transient failure.  Reading all of a collection takes a request *)
(* per page, while the collection may change.  A wait for an event may be  *)
(* over before its subscription is: the node goes on and the socket closes *)
(* behind it.                                                              *)
(*                                                                         *)
(* The keepalive's touches and the decoding of an event, whose result is   *)
(* ignored once the wait is over, take no step of their own.               *)
(***************************************************************************)
EXTENDS Integers, Sequences, FiniteSets, SequencesExt

CONSTANTS
    Plans,        \* what the items ask, as sequences of operations
    Collections,  \* how many items the hub's collection begins with
    PageSize,     \* items of the page that is asked for first
    Tellings,     \* what a list of user access may tell beside its items: sets of Fields
    MaxPages,     \* the last page that may be read in one collection (MAX_COLLECT_PAGES)
    MaxRetries,   \* how often a transient failure is tried again (MAX_TRANSIENT_RETRIES)
    Events,       \* events others publish: [named, payload, files]
    MaxFiles,     \* the limits of an event: its attachments,
    MaxFile,      \* the size of one,
    MaxTotal,     \* of all of them,
    MaxPayload,   \* and of what it carries beside
    MaxChanges    \* bound: changes of the collection

VARIABLES
    node,   \* [plan, goOn, item, phase, cur, verdict]: the loop over the input items
    try,    \* [retries, renewed]: what the item's call has used up
    list,   \* [page, size, got, total, whole, shifted]: the collection being read
    socks,  \* the sockets of the socket event tools, in the order they were opened
    hub,    \* [items, bare, tells, effects, keys, changes]: the hub
    out     \* what each item came to

hvars == <<node, try, list, socks, hub, out>>

Errors == {"expired", "transient", "plain"}
Op == node.plan[node.item]
Open == [kind |-> "none"]
Least(a, b) == IF a < b THEN a ELSE b

-----------------------------------------------------------------------------
(* The operations. An operation is [does, valid, all, page, socket, keyed, *)
(* event]: what it does, whether its parameters are valid, for a list      *)
(* whether all pages are asked for and the first one, and for an event the *)
(* channel, whether it has an idempotency key, and the event.              *)

ClientReads == {"listClientAgents", "getClientAgent", "listAccessRequests", "getClientToken"}
ClientChanges == {"requestAgentAccess", "revokeAgentAccess", "setClientToken"}
UserReads == {"listAgentCatalog", "listManagedAccessRequests", "listAgentClients"}
UserChanges == {"approveAccessRequest", "rejectAccessRequest", "revokeAgentClientAccess"}
Paged == {"listClientAgents", "listAccessRequests", "listAgentCatalog", "listManagedAccessRequests"}
Loose == {"listManagedAccessRequests", "listAgentClients"}
Fields == {"total", "page", "size"}

Operations ==
    [does : ClientReads \cup ClientChanges \cup UserReads \cup UserChanges
              \cup {"publishSocketEvent", "waitForSocketEvent"},
     valid : BOOLEAN, all : BOOLEAN, page : Nat \ {0}, socket : BOOLEAN, keyed : BOOLEAN,
     event : [named : BOOLEAN, payload : Nat, files : Seq([size : Nat, told : Nat])]]

ASSUME HubNodesAssumption ==
    /\ Collections \subseteq Nat /\ {PageSize, MaxPages} \subseteq Nat \ {0}
    /\ {MaxRetries, MaxFiles, MaxFile, MaxTotal, MaxPayload, MaxChanges} \subseteq Nat
    /\ Tellings \subseteq SUBSET Fields
    /\ Plans \subseteq Seq(Operations) \ {<<>>}
    /\ \A plan \in Plans : \A i \in DOMAIN plan :
          /\ plan[i].socket => plan[i].does \in {"publishSocketEvent", "waitForSocketEvent"}
          /\ plan[i].all => plan[i].does \in Paged

Lists == Op.does \in Paged \cup Loose
Changes == Op.does \in ClientChanges \cup UserChanges \cup {"publishSocketEvent"}

\* An attachment says how many bytes its text decodes to.
Attached(f) == f.told = f.size
FilesFit(files) ==
    /\ Len(files) <= MaxFiles
    /\ \A i \in DOMAIN files : files[i].told <= MaxFile
    /\ FoldLeft(LAMBDA sum, f : sum + f.told, 0, files) <= MaxTotal
WithinLimits(e) == e.payload <= MaxPayload /\ FilesFit(e.files)

\* What a node agrees to publish, and what a listener accepts.
Publishable(e) == e.named /\ (\A i \in DOMAIN e.files : Attached(e.files[i])) /\ WithinLimits(e)
Readable(e) == e.named /\ (\A i \in DOMAIN e.files : Attached(e.files[i])) /\ FilesFit(e.files)

-----------------------------------------------------------------------------
(* The call of an item.                                                    *)

Fresh_mut == [page |-> Op.page, size |-> PageSize, got |-> list.got, total |-> 0, whole |-> <<>>, shifted |-> FALSE]

\* A call begins with nothing collected, whatever an earlier one had read.
Fresh == [page |-> Op.page, size |-> PageSize, got |-> <<>>, total |-> 0, whole |-> <<>>, shifted |-> FALSE]

\* A socket at its beginning: a wait starts its keepalive before the socket is up.
Socket(waits) == [stage |-> "connecting", up |-> FALSE, met |-> FALSE, taken |-> FALSE, waits |-> waits, beat |-> waits]

\* The item's call is made, with tries used up: a socket event over the socket opens one.
CallsHub(tries, sockets) ==
    /\ try' = tries /\ list' = Fresh /\ UNCHANGED out
    /\ IF Op.socket
       THEN /\ socks' = Append(sockets, Socket(Op.does = "waitForSocketEvent"))
            /\ node' = [node EXCEPT !.phase = "socket", !.cur = Len(sockets) + 1]
       ELSE socks' = sockets /\ node' = [node EXCEPT !.phase = "rest", !.cur = 0]

\* executePerInputItem: an error becomes the item's output or the node's.
ItemEnds(result, sockets) ==
    /\ socks' = sockets /\ UNCHANGED <<try, list>>
    /\ IF result.kind # "error" \/ node.goOn
       THEN out' = Append(out, result) /\ node' = [node EXCEPT !.item = @ + 1, !.phase = "next", !.cur = 0]
       ELSE UNCHANGED out /\ node' = [node EXCEPT !.phase = "threw", !.cur = 0]

Repeats_mut(err) == err = "transient" /\ try.retries < MaxRetries

\* Only what reads may be tried again after a failure that left its fate unknown.
Repeats(err) == err = "transient" /\ Op.does \in ClientReads \cup UserReads /\ try.retries < MaxRetries

\* The session is renewed once for a call; a renewal may fail like any request.
Fails(err, sockets) ==
    \/ err = "expired" /\ ~try.renewed /\ CallsHub([try EXCEPT !.renewed = TRUE], sockets)
    \/ \E e \in IF err # "expired" THEN {err} ELSE IF try.renewed THEN {"plain"} ELSE {"plain", "transient"} :
        \/ Repeats(e) /\ CallsHub([retries |-> try.retries + 1, renewed |-> FALSE], sockets)
        \/ ~Repeats(e) /\ ItemEnds([kind |-> "error"], sockets)

\* The next item: one whose parameters are not valid fails before anything is sent.
StartItem ==
    /\ node.phase = "next" /\ node.item <= Len(node.plan) /\ UNCHANGED hub
    /\ IF Op.valid /\ (Op.does = "publishSocketEvent" => Publishable(Op.event))
       THEN CallsHub([retries |-> 0, renewed |-> FALSE], socks)
       ELSE ItemEnds([kind |-> "error"], socks)

NodeEnds ==
    /\ node.phase = "next" /\ node.item > Len(node.plan)
    /\ node' = [node EXCEPT !.phase = "done"] /\ UNCHANGED <<try, list, socks, hub, out>>

-----------------------------------------------------------------------------
(* Over HTTP.                                                              *)

\* A page of n items of the collection, cut by the hub; a hub that does not page answers
\* with all.
Bare == hub.bare /\ Op.does \in Loose
From(p, n) == IF Bare THEN 1 ELSE (p - 1) * n + 1
Page(p, n) == IF Bare THEN hub.items ELSE SubSeq(hub.items, From(p, n), Least(p * n, Len(hub.items)))

\* What an answer is taken to say: the lists of user access may be the collection itself, or
\* leave a number out, and are then the first page of as many items as they have, and all of
\* them. A count stands in for the total, and one of the page's items adds nothing.
Says(field) == ~Bare /\ (Op.does \notin Loose \/ field \in hub.tells)
TotalOf(items) == IF Says("total") THEN Len(hub.items) ELSE Len(items)
PageOf(p) == IF Says("page") THEN p ELSE 1
SizeOf(items) == IF Says("size") THEN list.size ELSE Len(items)

\* collectAllPages goes on while the first page promised more and the last one was full;
\* the first is allowed to be short.
GoesOn(items, got, total, first) ==
    /\ Op.all /\ Len(got) < total /\ items # <<>>
    /\ first \/ Len(items) >= SizeOf(items)

\* The answers say enough to read all that there is (for the properties).
Enough == ~Op.all \/ Bare \/ (Says("total") /\ (Op.page = 1 \/ (Says("page") /\ Says("size"))))

\* The first answer tells how many items there are, which page it is, and the size of the
\* pages to ask for after it.
PageRead ==
    /\ node.phase = "rest" /\ Lists /\ UNCHANGED hub
    /\ LET first == list.total = 0 /\ list.got = <<>>
           items == Page(list.page, list.size)
           got == list.got \o items
           total == IF first THEN TotalOf(items) ELSE list.total
           current == IF first THEN PageOf(list.page) ELSE list.page
           size == IF first THEN SizeOf(items) ELSE list.size
           whole == IF ~first THEN list.whole
                    ELSE IF Op.all THEN SubSeq(hub.items, From(list.page, list.size), Len(hub.items)) ELSE items
       IN
       \/ /\ GoesOn(items, got, total, first) /\ current < MaxPages
          /\ list' = [list EXCEPT !.page = current + 1, !.size = size, !.got = got, !.total = total, !.whole = whole]
          /\ UNCHANGED <<node, try, socks, out>>
       \/ GoesOn(items, got, total, first) /\ current >= MaxPages /\ Fails("plain", socks)
       \/ /\ ~GoesOn(items, got, total, first)
          /\ ItemEnds([kind |-> "list", got |-> got, whole |-> whole, sure |-> Enough /\ ~list.shifted], socks)

\* One resource is read.
ResourceRead ==
    /\ node.phase = "rest" /\ ~Lists /\ ~Changes /\ UNCHANGED hub
    /\ ItemEnds([kind |-> "detail"], socks)

\* What the hub is asked to do is done, unless a call with the same key did it already.
Effect ==
    hub' = IF Op.keyed /\ node.item \in hub.keys THEN hub
           ELSE [hub EXCEPT !.effects[node.item] = @ + 1, !.keys = @ \union {node.item}]

\* A request that changes something is carried out; its answer may be lost or unreadable.
Carried ==
    /\ node.phase = "rest" /\ Changes /\ Effect
    /\ \/ ItemEnds([kind |-> "did"], socks)
       \/ \E e \in {"transient", "plain"} : Fails(e, socks)

\* The request is turned down, or never arrives.
Refused ==
    /\ node.phase = "rest" /\ UNCHANGED hub
    /\ \E e \in Errors : Fails(e, socks)

\* Others change the collection: they add to its end or elsewhere, numbered downwards from
\* 0, or take away what is there.
HubChanges ==
    /\ hub.changes < MaxChanges /\ UNCHANGED <<node, try, socks, out>>
    /\ \/ /\ hub' = [hub EXCEPT !.items = Append(@, 0 - hub.changes), !.changes = @ + 1]
          /\ UNCHANGED list
       \/ \E i \in DOMAIN hub.items : \E items \in {InsertAt(hub.items, i, 0 - hub.changes), RemoveAt(hub.items, i)} :
            /\ hub' = [hub EXCEPT !.items = items, !.changes = @ + 1]
            /\ list' = [list EXCEPT !.shifted = @ \/ list.got # <<>>]

-----------------------------------------------------------------------------
(* Over a socket.                                                          *)

At(k, stage) == socks[k].stage = stage
Moved(k, stage) == [socks EXCEPT ![k].stage = stage]
Dropped(k, beat) == [socks EXCEPT ![k].stage = "gone", ![k].up = FALSE, ![k].beat = beat]

\* A socket is given up: the call fails with it, if it is the call's.
GivesUp(k, err, beat) ==
    IF k = node.cur THEN Fails(err, Dropped(k, beat))
    ELSE socks' = Dropped(k, beat) /\ UNCHANGED <<node, try, list, out>>

Stays(k, stage) == socks' = Moved(k, stage) /\ UNCHANGED <<node, try, list, hub, out>>

\* The wait is over with the session established: the item waits for the session to close.
Closes(k, verdict) ==
    /\ socks' = [Moved(k, "closing") EXCEPT ![k].beat = FALSE]
    /\ node' = IF k = node.cur THEN [node EXCEPT !.verdict = verdict] ELSE node
    /\ UNCHANGED <<try, list, hub, out>>

\* connection:ready arrives; the listeners of the wait are taken down before its frame is
\* decoded, so that nothing hears the socket go meanwhile.
ConnectionReady(k) ==
    /\ At(k, "connecting")
    /\ socks' = [Moved(k, "decoding") EXCEPT ![k].up = TRUE] /\ UNCHANGED <<node, try, list, hub, out>>

ReadyDecoded(k) ==
    /\ At(k, "decoding")
    /\ \/ /\ socks' = [Moved(k, IF socks[k].waits THEN "subscribing" ELSE "publishing") EXCEPT ![k].met = TRUE]
          /\ UNCHANGED <<node, try, list, hub, out>>
       \/ GivesUp(k, "plain", socks[k].beat) /\ UNCHANGED hub

\* The socket goes while nobody listens.
DropsUnheard(k) ==
    /\ At(k, "decoding") /\ socks[k].up
    /\ socks' = [socks EXCEPT ![k].up = FALSE] /\ UNCHANGED <<node, try, list, hub, out>>

Subscribed_mut(k) ==
    /\ At(k, "subscribing") /\ socks[k].up /\ Stays(k, "listening")

\* The subscription is confirmed: a wait that is over by then closes the session at once.
Subscribed(k) ==
    /\ At(k, "subscribing") /\ socks[k].up
    /\ IF k = node.cur THEN Stays(k, "listening") ELSE Closes(k, Open)

\* An event arrives: the wait has it, or fails with it when it cannot be read. Before the
\* subscription is confirmed nobody waits for the session to close.
EventArrives(k) ==
    /\ k = node.cur /\ socks[k].up
    /\ \E e \in Events :
        \/ At(k, "listening") /\ Closes(k, IF Readable(e) THEN [kind |-> "event"] ELSE [kind |-> "error", err |-> "plain"])
        \/ /\ At(k, "subscribing") /\ UNCHANGED hub
           /\ IF Readable(e) THEN ItemEnds([kind |-> "event"], socks) ELSE Fails("plain", socks)

\* The hub takes a published event from the socket, and confirms it.
PublishTaken(k) ==
    /\ k = node.cur /\ At(k, "publishing") /\ socks[k].up /\ ~socks[k].taken /\ Effect
    /\ socks' = [socks EXCEPT ![k].taken = TRUE] /\ UNCHANGED <<node, try, list, out>>
Published(k) ==
    /\ k = node.cur /\ At(k, "publishing") /\ socks[k].up /\ socks[k].taken
    /\ ItemEnds([kind |-> "did"], Dropped(k, FALSE)) /\ UNCHANGED hub

\* A timer, an application error, a refusal, an unreadable frame or the end of the socket
\* ends whatever is waited for. A connection that never came up leaves the interval of the
\* keepalive behind.
ConnectFails(k) ==
    /\ At(k, "connecting") /\ UNCHANGED hub
    /\ \E e \in Errors : GivesUp(k, e, socks[k].beat)
AckFails(k) ==
    /\ socks[k].stage \in {"subscribing", "publishing"} /\ UNCHANGED hub
    /\ \E e \in Errors : GivesUp(k, e, FALSE)

\* An established session is closed first and the call fails then.
ListenFails(k) ==
    /\ k = node.cur /\ At(k, "listening")
    /\ \E e \in Errors : Closes(k, [kind |-> "error", err |-> e])

\* close: unsubscribed, or not in time, and disconnected.
Closed(k) ==
    /\ At(k, "closing") /\ UNCHANGED hub
    /\ IF k # node.cur THEN socks' = Dropped(k, FALSE) /\ UNCHANGED <<node, try, list, out>>
       ELSE IF node.verdict.kind = "event" THEN ItemEnds(node.verdict, Dropped(k, FALSE))
       ELSE Fails(node.verdict.err, Dropped(k, FALSE))

-----------------------------------------------------------------------------
HubNodesBegin ==
    /\ node \in [plan : Plans, goOn : BOOLEAN, item : {1}, phase : {"next"}, cur : {0}, verdict : {Open}]
    /\ try = [retries |-> 0, renewed |-> FALSE]
    /\ list = [page |-> 1, size |-> PageSize, got |-> <<>>, total |-> 0, whole |-> <<>>, shifted |-> FALSE]
    /\ socks = <<>> /\ out = <<>>
    /\ \E n \in Collections, bare \in BOOLEAN, tells \in Tellings :
        /\ bare => tells = {}
        /\ hub = [items |-> [i \in 1..n |-> i], bare |-> bare, tells |-> tells, keys |-> {}, changes |-> 0,
                  effects |-> [i \in DOMAIN node.plan |-> 0]]

\* Steps the node takes by itself, and answers it does not wait for longer than a timer.
OwnSteps ==
    \/ StartItem \/ NodeEnds \/ PageRead \/ ResourceRead \/ Carried \/ Refused
    \/ \E k \in DOMAIN socks : ReadyDecoded(k) \/ ConnectFails(k) \/ AckFails(k) \/ ListenFails(k) \/ Closed(k)
HubSteps ==
    \/ HubChanges
    \/ \E k \in DOMAIN socks :
        ConnectionReady(k) \/ DropsUnheard(k) \/ Subscribed(k) \/ EventArrives(k) \/ PublishTaken(k) \/ Published(k)

HubNodesSteps == OwnSteps \/ HubSteps
HubNodesFairness == WF_hvars(OwnSteps)
HubNodesSpec == HubNodesBegin /\ [][HubNodesSteps]_hvars /\ HubNodesFairness

-----------------------------------------------------------------------------
(* What the workflows may rely on.                                         *)

\* A list holds what it says (collectAllPages): every item that was there from its first
\* page on is in it, once and in order, or the read fails; nothing of an attempt before a
\* renewal or a retry is left in it. Excepted are collections in which something was put in
\* elsewhere than at the end, or taken away, while they were read, which pages that are
\* numbered cannot follow; and reading all of a list whose answers do not tell how much there
\* is, or, when it begins at a later page, which page they are or of which size: it is
\* taken for whole, or a page is read again (parseLooseListResponse).
PagesComplete ==
    \A i \in DOMAIN out : out[i].kind = "list" /\ out[i].sure =>
        /\ IsPrefix(out[i].whole, out[i].got)
        /\ Cardinality({out[i].got[j] : j \in DOMAIN out[i].got}) = Len(out[i].got)

\* A call that changes something changes it once (plugAccessTransientRetry.ts), however
\* its answer is lost and its session renewed, and did so when it says so. An event that
\* is published over a socket without a key is published again when its session expires.
\* What is published can be read by those who listen (custom-socket-events.ts).
EffectsOnce ==
    /\ \A i \in DOMAIN hub.effects :
        hub.effects[i] <= IF node.plan[i].socket /\ ~node.plan[i].keyed THEN 2 ELSE 1
    /\ \A i \in DOMAIN out : out[i].kind = "did" =>
        hub.effects[i] > 0 /\ (node.plan[i].does = "publishSocketEvent" => Readable(node.plan[i].event))

\* The node ends, and every socket is closed and its keepalive stopped in the end, also
\* those left behind by an early event; but for the keepalive of a connection that was
\* never established, which nothing stops (startCustomSocketEventSession).
HubNodesEnd ==
    <>[](/\ node.phase \in {"done", "threw"}
         /\ \A k \in DOMAIN socks : At(k, "gone") /\ (socks[k].beat => ~socks[k].met))
=============================================================================
