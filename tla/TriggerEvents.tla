----------------------------- MODULE TriggerEvents -----------------------------
(***************************************************************************)
(* The way of an event through an active trigger: the handler of           *)
(* shared/socket/customSocketEventSession.ts hands a task to the queue     *)
(* (module BackpressureQueue); the task decodes the frame, drops an event  *)
(* whose id it has seen (createEventIdDedupe), prepares the attachments    *)
(* and emits the item.                                                     *)
(*                                                                         *)
(* The memory of ids lives as long as the activation, across sockets. It   *)
(* is a Map in insertion order whose entries expire in the order they were *)
(* set; setting an expired id anew leaves it in its place.  A trigger that *)
(* does not deduplicate is one whose events all have ids of their own.     *)
(***************************************************************************)
EXTENDS BackpressureQueue

CONSTANTS
    EventIds,     \* ids the publishers use; an event that is sent again keeps its id
    MaxEntries    \* defaultSocketEventDeduplicationMaxEntries

ASSUME TriggerEventsAssumption == MaxEntries \in Nat \ {0}

VARIABLES
    idOf,       \* the id of each event, in arrival order
    attaching,  \* events in preparation that passed the memory: prepareBinaryData runs
    entries,    \* ids in the Map, in its order
    live,       \* ids in the Map that have not expired, in the order they were set
    forgotten   \* history: ids that expired or were evicted

memory == <<entries, live, forgotten>>
tvars == <<vars, idOf, attaching, memory>>

TriggerInit ==
    /\ Init
    /\ idOf = <<>> /\ attaching = {}
    /\ entries = <<>> /\ live = <<>> /\ forgotten = {}

--------------------------------------------------------------------------------
\* scheduleEvent for an event with this id
Arrives(id) ==
    /\ Accept \/ DropIncoming \/ DropOldest \/ Refuse
    /\ idOf' = Append(idOf, id)
    /\ UNCHANGED <<attaching, memory>>

\* The lookup of an id, and what remembering it makes of the Map: one entry at most goes,
\* the first, when it has expired or the Map is too large.
Seen_mut(id) == Len(entries) >= MaxEntries
Seen(id) == id \in ToSet(live)

Set(id) == IF id \in ToSet(entries) THEN entries ELSE Append(entries, id)
Evicts(id) ==
    \/ Len(Set(id)) > MaxEntries
    \/ Head(Set(id)) \notin ToSet(live) \cup {id}

Remember(id) ==
    IF Evicts(id)
    THEN /\ entries' = Tail(Set(id))
         /\ live' = RemoveFirst(Append(live, id), Head(Set(id)))
         /\ forgotten' = forgotten \cup {Head(Set(id))}
    ELSE /\ entries' = Set(id) /\ live' = Append(live, id)
         /\ UNCHANGED forgotten

Undecoded(e) == e \in preparing \ attaching

\* The frame decodes to an event of this listener. Looking up and remembering are one step,
\* ahead of the conversion of the attachments.
Duplicate(e) ==
    /\ Undecoded(e) /\ Seen(idOf[e])
    /\ TaskResolves(e, FALSE)
    /\ UNCHANGED <<idOf, attaching, memory>>

Attaches(e) ==
    /\ Undecoded(e) /\ ~Seen(idOf[e])
    /\ Remember(idOf[e])
    /\ IF closed THEN TaskResolves(e, FALSE) /\ UNCHANGED attaching
       ELSE attaching' = attaching \cup {e} /\ UNCHANGED vars
    /\ UNCHANGED <<idOf>>

Emits(e) ==
    /\ e \in attaching
    /\ TaskResolves(e, TRUE)
    /\ attaching' = attaching \ {e}
    /\ UNCHANGED <<idOf, memory>>

\* An invalid frame, a foreign event name, or an attachment that cannot be converted.
TaskFails(e) ==
    /\ TaskRejects(e)
    /\ attaching' = attaching \ {e}
    /\ UNCHANGED <<idOf, memory>>

TaskFinally(e) == Finally(e) /\ UNCHANGED <<idOf, attaching, memory>>

\* The time to live of the oldest entry passes.
EntryExpires ==
    /\ live # <<>>
    /\ live' = Tail(live)
    /\ forgotten' = forgotten \cup {Head(live)}
    /\ UNCHANGED <<vars, idOf, attaching, entries>>

TriggerCloses == Close /\ UNCHANGED <<idOf, attaching, memory>>

Works(e) == Duplicate(e) \/ Attaches(e) \/ Emits(e) \/ TaskFails(e) \/ TaskFinally(e)

TriggerNext ==
    \/ \E id \in EventIds : Arrives(id)
    \/ \E e \in 1..arrived : Works(e)
    \/ EntryExpires \/ TriggerCloses

\* Decoding and converting end, by a result or an error.
TriggerFairness == WF_tvars(\E e \in 1..arrived : Works(e))

TriggerSpec == TriggerInit /\ [][TriggerNext]_tvars /\ TriggerFairness
--------------------------------------------------------------------------------
\* "persiste across reconnects" (docs/socket/socket-event-trigger.md:88): an id is emitted
\* again only after it was forgotten, also when the redelivery arrives while the first event
\* is still being prepared; the memory keeps its bound.
EmittedOncePerId ==
    /\ Len(entries) <= MaxEntries /\ ToSet(live) \subseteq ToSet(entries)
    /\ \A i, j \in DOMAIN emitted :
           i # j /\ idOf[emitted[i]] = idOf[emitted[j]] => idOf[emitted[i]] \in forgotten

\* An event that was started vanishes without an error only when an event of its id was
\* emitted, failed aloud or is still being prepared.
NothingSilent ==
    ~closed =>
        \A e \in ToSet(started) \ Inflight :
            \/ e \in ToSet(emitted) \cup failed
            \/ \E k \in (ToSet(emitted) \cup failed \cup preparing) \ {e} : idOf[k] = idOf[e]

\* While the socket delivers events again, each id has exactly one fate: emitted once, or
\* failed aloud, or still under way.
EachEventOnce == EmittedOncePerId /\ NothingSilent

\* Once no more events arrive, all that waited have been started and have ended.
EventsSettle == <>[](queue = <<>> /\ Inflight = {})

================================================================================
