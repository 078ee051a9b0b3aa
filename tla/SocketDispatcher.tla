-------------------------- MODULE SocketDispatcher --------------------------
(***************************************************************************)
(* The dispatcher of one physical connection (socketEventDispatcher.ts).   *)
(* Commands register their ids and get a private view of the transport;    *)
(* the dispatcher routes every event the hub sends to the command it       *)
(* belongs to and charges its bytes to that command's budget.              *)
(*                                                                         *)
(* Operation objects are POOLED: a disposed one serves the next command    *)
(* with a higher generation, while handles, decodes in flight and events   *)
(* of the command it served before are still around.                       *)
(*                                                                         *)
(* The decode queue is taken by its promise (OrderedDelivery, shown of     *)
(* DecodeQueue): events are applied one at a time in arrival order, a      *)
(* cancelled one is skipped.  What the sessions do with an event is theirs *)
(* (StreamedCommand, RelayCommand) but for one thing: a chunk handler may  *)
(* reject, and that fails everybody.  Frames are counted the way bytes are *)
(* and are left out, as is the wording of errors.                          *)
(***************************************************************************)
EXTENDS Integers, FiniteSets, Sequences, SequencesExt, FiniteSetsExt, Functions

CONSTANTS
    Commands,   \* the commands of one connection, each registered at most once
    ClientIds,  \* the request ids the commands choose: one per item
    HubIds,     \* the request ids the hub chooses
    Agents,     \* agents; a relay conversation is named by its agent
    Requests,   \* [Commands -> SUBSET ClientIds]: several ids for a batch
    HubId,      \* [ClientIds -> HubIds]: the hub's alias for a request
    AgentOf,    \* [Commands -> Agents \cup {None}]: None for consumer commands
    Signing,    \* [Commands -> the signing contexts its credential may give]
    Slots,      \* operation objects that may come to exist, numbered
    PoolSize,   \* how many disposed operation objects are kept (8 in the code)
    Limit,      \* maxBufferedBytes of one item
    Reserve,    \* controlReserveBytes
    Wire,       \* the data events of a request: <<kind, form, does it decode>>
    SizeOf,     \* [DataKinds -> Nat]: bytes of a data event
    MaxEvents,  \* how many events the hub sends: bounds the run, not the code
    None        \* no operation, no agent, no item

Reasons == {"budget", "unassigned", "bad", "rejected", "ended"}  \* why a dispatcher is closed

\* Ids of different commands differ: they are random UUIDs, unless the author of a raw
\* command writes an id of his own into it, which is then his to keep apart.
ASSUME DispatcherAssumption ==
    /\ Requests \in [Commands -> SUBSET ClientIds]
    /\ \A c \in Commands : IsFiniteSet(Requests[c])
    /\ \A c, d \in Commands : c # d => Requests[c] \cap Requests[d] = {}
    /\ HubId \in [ClientIds -> HubIds] /\ IsInjective(HubId)
    /\ ClientIds \cap HubIds = {} /\ Slots \subseteq Nat \ {0} /\ Slots # {}
    /\ AgentOf \in [Commands -> Agents \cup {None}]
    /\ None \notin Agents /\ None \notin ClientIds /\ None \notin Slots
    /\ None \notin Reasons /\ None \notin [slot : Slots, gen : Nat]
    /\ SizeOf \in [{"response", "chunk", "complete"} -> Nat]
    /\ Wire \subseteq {"response", "chunk", "complete"} \X {"bare", "framed", "plain"} \X BOOLEAN
    /\ Limit \in Nat \ {0} /\ {Reserve, PoolSize, MaxEvents} \subseteq Nat

VARIABLES
    op,        \* the operation objects, [Slots -> operation]
    idle,      \* idleOperations: the object disposed last is taken first
    requests,  \* id -> the object it is registered to, or None
    retired,   \* retiredIds: ids of finished commands
    handle,    \* per command: the object and generation its handle closes over
    queue,     \* data events being decoded, with what receive reserved for them
    handling,  \* the kind of the data event whose handler has not returned, or "none"
    account,   \* [reserved, retained, budget]: the bytes of the connection
    closed,    \* why this dispatcher failed or was disposed, or None
    context,   \* the signing context the dispatcher was created with, or None
    life,      \* per command: "new", "open", "done", or "refused"
    traffic,   \* [sent, loose]: events so far; bytes no command was charged for
    history    \* [forgotten, strays], for the properties: ids no longer retired; per
               \* command the events about others that were handed to it

vars == <<op, idle, requests, retired, handle, queue, handling, account, closed, context,
          life, traffic, history>>

AllIds == ClientIds \cup HubIds
Blank == [live |-> FALSE, gen |-> 0, ids |-> {}, convs |-> {}, agent |-> None,
          alias |-> [i \in AllIds |-> None], count |-> 1, bytes |-> 0, pending |-> 0,
          item |-> [i \in ClientIds |-> 0], itemPending |-> [i \in ClientIds |-> 0]]
Live == {s \in Slots : op[s].live}
Serves(s, c) == op[s].live /\ handle[c] = [slot |-> s, gen |-> op[s].gen]
ItemsOf(o) == {i \in ClientIds : o.alias[i] = i}

(* What the hub sends: an acceptance tells the alias of each item (for a     *)
(* batch in one event); outside its encoded data a frame carries no id or    *)
(* the hub's, an unframed event both; and a frame need not decode.           *)
DataKinds == {"response", "chunk", "complete"}
HeadOf(form, i) == CASE form = "bare" -> {} [] form = "framed" -> {HubId[i]}
                     [] form = "plain" -> {i, HubId[i]}
About(c) ==
    {[kind |-> "accepted", about |-> A, head |-> A \cup {HubId[i] : i \in A},
      body |-> {}, conv |-> AgentOf[c], ok |-> TRUE] : A \in {Requests[c]} \cup {{i} : i \in Requests[c]}}
    \cup {[kind |-> p[1], about |-> {i}, head |-> HeadOf(p[2], i), conv |-> None,
           body |-> IF p[1] = "response" THEN {i} ELSE {HubId[i]}, ok |-> p[3]]
          : i \in Requests[c], p \in Wire}
    \cup {[kind |-> "started", about |-> {}, head |-> {}, body |-> {}, conv |-> AgentOf[c], ok |-> TRUE]}
Events == UNION {About(c) : c \in Commands}
Ids(e) == e.head \cup e.body
Retained(e) == e.kind \in {"response", "chunk"}
Size(e) == IF e.kind \in DataKinds THEN SizeOf[e.kind] ELSE 0

Init ==
    /\ op = [s \in Slots |-> Blank] /\ idle = <<>>
    /\ requests = [i \in AllIds |-> None] /\ retired = {}
    /\ handle = [c \in Commands |-> None] /\ queue = <<>> /\ handling = "none"
    /\ account = [reserved |-> 0, retained |-> 0, budget |-> Reserve]
    /\ closed = None /\ context = None
    /\ life = [c \in Commands |-> "new"]
    /\ traffic = [sent |-> 0, loose |-> 0]
    /\ history = [forgotten |-> {}, strays |-> [c \in Commands |-> {}]]

-----------------------------------------------------------------------------
(* Registration.                                                             *)

(* A pooled object serves the next command with a new generation.            *)
Serving(o, c) ==
    [o EXCEPT !.live = TRUE, !.gen = @ + 1, !.agent = AgentOf[c],
              !.count = Max({1, Cardinality(Requests[c])}), !.ids = Requests[c],
              !.alias = [i \in AllIds |-> IF i \in Requests[c] THEN i ELSE None]]
UnusedSlots == {s \in Slots : op[s].gen = 0}
Matches(g) == closed = None /\ context = g

RegisterHere(c, g) ==
    /\ life[c] = "new" /\ Matches(g)
    /\ \A i \in Requests[c] : requests[i] = None
    /\ idle # <<>> \/ UnusedSlots # {}
    /\ LET s == IF idle # <<>> THEN Last(idle) ELSE Min(UnusedSlots) IN
       /\ op' = [op EXCEPT ![s] = Serving(op[s], c)]
       /\ idle' = IF idle # <<>> THEN Front(idle) ELSE idle
       /\ requests' = [i \in AllIds |-> IF i \in Requests[c] THEN s ELSE requests[i]]
       /\ handle' = [handle EXCEPT ![c] = [slot |-> s, gen |-> op[s].gen + 1]]
       /\ account' = [account EXCEPT !.budget = @ + Limit * op'[s].count]
    /\ retired' = retired \ Requests[c]
    /\ life' = [life EXCEPT ![c] = "open"]
    /\ UNCHANGED <<queue, handling, closed, context, traffic, history>>

(* A connection without a dispatcher gets one, and so does one whose         *)
(* dispatcher closed, or stands idle with another signing context: what      *)
(* still holds the old dispatcher no longer reaches its successor.           *)
RegisterAnew(c, g) ==
    /\ life[c] = "new" /\ ~Matches(g)
    /\ closed # None \/ Live = {}
    /\ LET s == Min(Slots) IN
       /\ op' = [[t \in Slots |-> Blank] EXCEPT ![s] = Serving(Blank, c)]
       /\ requests' = [i \in AllIds |-> IF i \in Requests[c] THEN s ELSE None]
       /\ handle' = [[d \in Commands |-> None] EXCEPT ![c] = [slot |-> s, gen |-> 1]]
       /\ account' = [reserved |-> 0, retained |-> 0,
                      budget |-> Reserve + Limit * op'[s].count]
    /\ idle' = <<>> /\ retired' = {} /\ queue' = <<>> /\ handling' = "none" /\ closed' = None
    /\ context' = g
    /\ life' = [d \in Commands |-> IF d = c THEN "open"
                                   ELSE IF life[d] = "open" THEN "done" ELSE life[d]]
    /\ traffic' = [traffic EXCEPT !.loose = 0]
    /\ history' = [history EXCEPT !.forgotten = @ \cup retired \cup UNION {op[t].ids : t \in Slots}]

(* Pending commands of another signing context refuse the newcomer.          *)
RegisterRefused(c, g) ==
    /\ life[c] = "new" /\ ~Matches(g) /\ closed = None /\ Live # {}
    /\ life' = [life EXCEPT ![c] = "refused"]
    /\ UNCHANGED <<op, idle, requests, retired, handle, queue, handling, account, closed, context, traffic, history>>

-----------------------------------------------------------------------------
(* The private view of a command.  Every call compares the generation its    *)
(* handle was made with: after dispose a call changes nothing.               *)
HandleLive_mut(c) == handle[c] # None /\ op[handle[c].slot].live
HandleLive(c) ==
    handle[c] # None /\ op[handle[c].slot].live
                     /\ op[handle[c].slot].gen = handle[c].gen

(* transport.emit: a command, a pull or a conversation message; the ids it   *)
(* carries become the operation's.  Also called by what a finished session   *)
(* left behind.                                                              *)
Emit(c) ==
    /\ handle[c] # None /\ closed = None /\ HandleLive(c)
    /\ LET s == handle[c].slot IN
       /\ \A i \in Requests[c] : requests[i] \in {None, s}
       /\ op' = [op EXCEPT ![s].ids = @ \cup Requests[c],
                           ![s].convs = @ \cup ({AgentOf[c]} \ {None})]
       /\ requests' = [i \in AllIds |-> IF i \in Requests[c] THEN s ELSE requests[i]]
    /\ UNCHANGED <<idle, retired, handle, queue, handling, account, closed, context, life, traffic, history>>

(* Cancelling a reservation gives back what receive reserved; its event is   *)
(* skipped when its turn comes.                                              *)
Cancelled_mut(q, S) == q
Cancelled(q, S) == [n \in DOMAIN q |-> IF q[n].owner \in S
                       THEN [q[n] EXCEPT !.owner = None, !.skip = TRUE] ELSE q[n]]
BytesOf(N) == SumFunctionOnSet([n \in DOMAIN queue |-> Size(queue[n].e)], N)
Pending == {n \in DOMAIN queue : ~queue[n].skip}
ReservedBy(S) == BytesOf({n \in Pending : queue[n].owner \in S})

(* The handle's dispose: the object returns to the pool, its ids retire.     *)
Pooled(s) == IF Len(idle) < PoolSize THEN Append(idle, s) ELSE idle
Dispose(c) ==
    /\ life[c] = "open" /\ HandleLive(c)
    /\ LET s == handle[c].slot
           \* the last command also cancels what no command claimed
           gone == IF Live = {s} THEN Slots \cup {None} ELSE {s} IN
       /\ op' = [op EXCEPT ![s] = [Blank EXCEPT !.gen = op[s].gen]]
       /\ idle' = Pooled(s)
       /\ requests' = [i \in AllIds |-> IF requests[i] = s THEN None ELSE requests[i]]
       /\ retired' = retired \cup op[s].ids
       /\ queue' = Cancelled(queue, gone)
       /\ account' = [reserved |-> IF closed = None THEN account.reserved - ReservedBy(gone)
                                                    ELSE account.reserved,
                      retained |-> account.retained - op[s].bytes,
                      budget |-> account.budget - Limit * op[s].count]
    /\ life' = [life EXCEPT ![c] = "done"]
    /\ UNCHANGED <<handle, handling, closed, context, traffic, history>>

(* The ids of a command, retired together, are swept after a minute; the     *)
(* oldest go earlier when there are more than 1024.                          *)
Forget ==
    /\ closed = None
    /\ \E c \in Commands :
          LET ids == retired \cap (Requests[c] \cup {HubId[i] : i \in Requests[c]}) IN
          /\ ids # {} /\ retired' = retired \ ids
          /\ history' = [history EXCEPT !.forgotten = @ \cup ids]
    /\ UNCHANGED <<op, idle, requests, handle, queue, handling, account, closed, context, life, traffic>>

-----------------------------------------------------------------------------
(* Failing.  Every live command is told; the dispatcher then lets go of its  *)
(* queue, its reservations and the events of the transport; a handler that   *)
(* has not returned no longer matters.                                       *)
CloseWith(why) ==
    /\ closed' = why
    /\ queue' = <<>> /\ handling' = "none"
    /\ account' = [account EXCEPT !.reserved = 0]

OverLimit_mut(o, i, extra) ==
    (i # None /\ o.item[i] + extra > Limit) \/ o.bytes + extra > Limit * o.count
OverLimit(o, i, extra) ==
    \/ i # None /\ o.item[i] + o.itemPending[i] + extra > Limit
    \/ o.bytes + o.pending + extra > Limit * o.count

(* The item of an operation an event is about: the ids it knows it by.       *)
ItemFor(o, ids) ==
    LET known == {o.alias[i] : i \in ids} \ {None}
    IN  IF known = {} THEN None ELSE CHOOSE i \in known : TRUE

(* Data events reserve their bytes: from their command, if the frame tells   *)
(* it, which alone fails when its budget is exceeded; and from the           *)
(* connection, which fails all.                                              *)
Claimant(e) == {requests[i] : i \in e.head} \ {None}
Receive(e) ==
    LET s == IF Claimant(e) = {} THEN None ELSE CHOOSE t \in Claimant(e) : TRUE
        owned == s # None /\ Retained(e)
        i == IF s = None THEN None ELSE ItemFor(op[s], e.head)
    IN  IF owned /\ OverLimit(op[s], i, Size(e))
        THEN UNCHANGED <<op, queue, handling, account, closed>>
        ELSE IF account.retained + account.reserved + Size(e) > account.budget
        THEN CloseWith("budget") /\ UNCHANGED op
        ELSE /\ account' = [account EXCEPT !.reserved = @ + Size(e)]
             /\ op' = IF ~owned THEN op ELSE
                  [op EXCEPT ![s].pending = @ + Size(e),
                             ![s].itemPending = [j \in ClientIds |->
                                  IF j = i THEN @[j] + Size(e) ELSE @[j]]]
             /\ queue' = Append(queue, [e |-> e, owner |-> s, item |-> i, skip |-> FALSE])
             /\ UNCHANGED <<handling, closed>>

(* Whom an event belongs to: by id; then, unless an id of it is retired, by  *)
(* conversation, by the agent a conversation starts with, and a lone command *)
(* sees what carries no id and every data event.                             *)
Candidates(e) ==
    LET byId    == {requests[i] : i \in Ids(e)} \ {None}
        byConv  == {s \in Live : e.conv \in op[s].convs}
        byAgent == {s \in Live : e.kind = "started" /\ op[s].agent = e.conv}
        alone   == IF Cardinality(Live) = 1 /\ (e.kind \in DataKinds \/ Ids(e) = {})
                   THEN Live ELSE {}
    IN  IF byId # {} THEN byId
        ELSE IF Ids(e) \cap retired # {} THEN {}
        ELSE IF byConv # {} THEN byConv
        ELSE IF byAgent # {} THEN byAgent
        ELSE alone

Matched(e, o) ==
    \/ Ids(e) \cap o.ids # {}
    \/ e.kind = "started" /\ o.agent = e.conv
    \/ e.kind \notin DataKinds /\ e.conv \in o.convs

(* A matched event teaches the operation further ids of its items.           *)
Groups(e) == IF e.kind = "accepted" THEN {{i, HubId[i]} : i \in e.about} ELSE {Ids(e)}
Adopting(e, o) ==
    LET items == ItemsOf(o)
        itemOf(g) == IF ItemFor(o, g) # None THEN ItemFor(o, g)
                     ELSE IF Cardinality(items) = 1 THEN CHOOSE i \in items : TRUE
                     ELSE None
        aliasOf(j) == LET g == {h \in Groups(e) : j \in h} IN
                      IF g = {} \/ itemOf(UNION g) = None THEN o.alias[j] ELSE itemOf(UNION g)
    IN  [o EXCEPT !.ids = @ \cup Ids(e), !.convs = @ \cup ({e.conv} \ {None}),
                  !.alias = [j \in AllIds |-> aliasOf(j)]]
Charged(e, o, i) ==
    [o EXCEPT !.bytes = @ + Size(e),
              !.item = [j \in ClientIds |-> IF j = i THEN @[j] + Size(e) ELSE @[j]]]

(* The bytes an operation retains are charged to it and to the connection;   *)
(* one that exceeds its limit is told so instead of being given the event.   *)
(* The queue waits for the handler that is given a data event.               *)
Deliver(s, e, ops, acc, rest) ==
    LET matched == Matched(e, ops[s])
        o == IF matched THEN Adopting(e, ops[s]) ELSE ops[s]
        i == ItemFor(o, Ids(e))
        charged == matched /\ Retained(e)
        full == IF charged THEN Charged(e, o, i) ELSE o
        over == charged /\ OverLimit(full, i, 0)
        served == {c \in Commands : Serves(s, c)}
    IN  /\ op' = [ops EXCEPT ![s] = full]
        /\ requests' = [j \in AllIds |-> IF matched /\ j \in Ids(e) THEN s ELSE requests[j]]
        /\ account' = [acc EXCEPT !.retained = @ + IF charged THEN Size(e) ELSE 0]
        /\ queue' = rest /\ UNCHANGED closed
        /\ handling' = IF e.kind \in DataKinds /\ ~over THEN e.kind ELSE handling
        /\ history' = IF over THEN history ELSE
             [history EXCEPT !.strays = [c \in Commands |->
                IF c \notin served \/ e.about \subseteq Requests[c] THEN @[c] ELSE @[c] \cup
                {[about |-> e.about, charged |-> charged, alone |-> Cardinality(Live) = 1]}]]

Distribute(e, ops, acc, rest) ==
    LET who == Candidates(e) IN
    IF Cardinality(who) > 1 \/ (who = {} /\ Ids(e) = {})
    THEN /\ closed' = "unassigned" /\ queue' = <<>> /\ handling' = "none"
         /\ account' = [acc EXCEPT !.reserved = 0]
         /\ op' = ops /\ UNCHANGED <<requests, history>>
    ELSE IF who = {}
    THEN op' = ops /\ account' = acc /\ queue' = rest /\ UNCHANGED <<closed, requests, handling, history>>
    ELSE Deliver(CHOOSE t \in who : TRUE, e, ops, acc, rest)

(* An event reaches the dispatcher while a command listens: a control event  *)
(* is routed at once, a data event waits for its decode.  The hub sends none *)
(* about a command it was never sent.                                        *)
EventArrives(c) ==
    /\ closed = None /\ Live # {} /\ traffic.sent < MaxEvents /\ life[c] \in {"open", "done"}
    /\ \E e \in About(c) :
         /\ e.kind = "started" => AgentOf[c] # None
         /\ traffic' = [sent |-> traffic.sent + 1, loose |-> traffic.loose +
                         IF Claimant(e) = {} \/ ~Retained(e) THEN Size(e) ELSE 0]
         /\ IF e.kind \in DataKinds
            THEN Receive(e) /\ UNCHANGED <<requests, history>>
            ELSE Distribute(e, op, account, queue)
    /\ UNCHANGED <<idle, retired, handle, context, life>>

(* The decode queue hands the oldest data event over once the handler of the *)
(* one before has returned: its reservation is released before it is routed. *)
(* A cancelled one is skipped, one that does not decode fails the            *)
(* connection.                                                               *)
Released(q) ==
    IF q.owner = None \/ ~Retained(q.e) THEN op ELSE
    [op EXCEPT ![q.owner].pending = @ - Size(q.e),
               ![q.owner].itemPending = [j \in ClientIds |->
                    IF j = q.item THEN @[j] - Size(q.e) ELSE @[j]]]
ApplyDecoded ==
    /\ queue # <<>> /\ closed = None /\ handling = "none"
    /\ LET q == Head(queue) IN
       \/ /\ q.skip
          /\ queue' = Tail(queue)
          /\ UNCHANGED <<op, requests, handling, account, closed, history>>
       \/ /\ ~q.skip /\ ~q.e.ok
          /\ CloseWith("bad")
          /\ op' = Released(q)
          /\ UNCHANGED <<requests, history>>
       \/ /\ ~q.skip /\ q.e.ok
          /\ Distribute(q.e, Released(q),
                        [account EXCEPT !.reserved = @ - Size(q.e)], Tail(queue))
    /\ UNCHANGED <<idle, retired, handle, context, life, traffic>>

(* A handler returns; or the one of a chunk rejects, which the queue takes   *)
(* for its own failure, whoever the chunk was for and though that command    *)
(* may be gone by now: its rows are over the limit, the chunk is malformed,  *)
(* or the relay has not accepted the request.  Other handlers keep their     *)
(* errors to their command.                                                  *)
HandlerReturns ==
    /\ handling # "none" /\ handling' = "none"
    /\ UNCHANGED <<op, idle, requests, retired, handle, queue, account, closed, context, life, traffic, history>>
HandlerRejects ==
    /\ handling = "chunk" /\ CloseWith("rejected")
    /\ UNCHANGED <<op, idle, requests, retired, handle, context, life, traffic, history>>

(* The transport ends, an app:error arrives, or a control event is malformed *)
(* or larger than the control reserve.                                       *)
ConnectionEnds ==
    /\ closed = None /\ Live # {}
    /\ CloseWith("ended")
    /\ UNCHANGED <<op, idle, requests, retired, handle, context, life, traffic, history>>

Next ==
    \/ \E c \in Commands :
          \/ \E g \in Signing[c] :
                RegisterHere(c, g) \/ RegisterAnew(c, g) \/ RegisterRefused(c, g)
          \/ Emit(c) \/ Dispose(c) \/ EventArrives(c)
    \/ Forget \/ ApplyDecoded \/ HandlerReturns \/ HandlerRejects \/ ConnectionEnds

Spec == Init /\ [][Next]_vars

-----------------------------------------------------------------------------
(* Properties.                                                               *)

Operation == [live : BOOLEAN, gen : Nat, ids : SUBSET AllIds, convs : SUBSET Agents,
              agent : Agents \cup {None}, alias : [AllIds -> ClientIds \cup {None}],
              count : Nat, bytes : Int, pending : Int,
              item : [ClientIds -> Int], itemPending : [ClientIds -> Int]]

TypeOK ==
    /\ op \in [Slots -> Operation] /\ requests \in [AllIds -> Slots \cup {None}]
    /\ retired \subseteq AllIds /\ idle \in Seq(Slots)

(* No object serves two commands or lies in the pool while it serves one;    *)
(* and the accounts of the connection and of every command agree with what   *)
(* is registered, retained and being decoded, whatever was pooled, cancelled *)
(* or disposed in between: nothing is credited to the command that got the   *)
(* object next (socketEventDispatcher.ts:568).                               *)
Holding(s) == {n \in DOMAIN queue : queue[n].owner = s /\ Retained(queue[n].e)}
AccountsExact ==
    /\ TypeOK
    /\ IsInjective(idle) /\ \A n \in DOMAIN idle : idle[n] \in Slots \ Live
    /\ \A s \in Live : \E c \in Commands : {d \in Commands : Serves(s, d)} = {c}
    /\ closed = None =>
          /\ account.reserved = BytesOf(Pending)
          /\ \A s \in Slots : op[s].pending = BytesOf(Holding(s))
    /\ account.retained = SumFunctionOnSet([s \in Slots |-> op[s].bytes], Live)
    /\ account.budget = Reserve + SumFunctionOnSet([s \in Slots |-> Limit * op[s].count], Live)
    /\ \A s \in Slots : ~op[s].live => op[s].ids = {} /\ op[s].bytes = 0

(* An event about one command reaches another only uncharged, and only when  *)
(* that one is alone on the connection (its session then compares the ids):  *)
(* or after the ids it carries were forgotten.  Late, duplicated and         *)
(* reordered events and stale handles are all around                         *)
(* (socketEventDispatcher.ts:250).                                           *)
RoutedHome ==
    \A c \in Commands : \A r \in history.strays[c] :
        \/ r.alone /\ ~r.charged
        \/ r.about \cap history.forgotten # {}

(* Bytes that overrun the budget of their command, when they are reserved or *)
(* when they are charged, end that command alone: the budget of the          *)
(* connection is only exceeded when more than the control reserve arrived in *)
(* completions and in frames no command could be told from                   *)
(* (socketEventDispatcher.ts:453).  Rows are another matter: those of one    *)
(* command, counted by its handler, fail all (HandlerRejects).               *)
BytesFailAlone == closed = "budget" => traffic.loose > Reserve
=============================================================================
