--------------------------- MODULE BackpressureQueue ---------------------------
(***************************************************************************)
(* PlugDatabaseSocketEventTrigger/triggerBackpressureQueue.ts: the queue   *)
(* that bounds the work a burst of socket events causes. At most           *)
(* `inflight` events are prepared at a time, at most `size` wait, and      *)
(* `policy` says what happens to an event that finds the queue full.       *)
(*                                                                         *)
(* Events are numbered in arrival order. The queue outlives the sockets of *)
(* a trigger: it is closed only by closeFunction of the node.              *)
(***************************************************************************)
EXTENDS Naturals, Sequences, FiniteSets, SequencesExt

CONSTANTS
    MaxEvents,      \* bound: events that arrive in a behaviour
    InflightLimits, \* values of maxInflightEvents, at least 1 (normalizeTriggerInteger)
    QueueSizes      \* values of maxQueueSize, at least 0

ASSUME BackpressureAssumption ==
    /\ MaxEvents \in Nat
    /\ InflightLimits \subseteq Nat \ {0}
    /\ QueueSizes \subseteq Nat

VARIABLES
    config,      \* the input of createBackpressureQueue; never changes
    arrived,     \* events enqueued so far
    queue,       \* waiting events
    preparing,   \* events whose task promise is pending
    settling,    \* events whose then/catch ran but not yet their finally
    closed,
    started,     \* history: events in the order their task was called; startedCount
    emitted,     \* history: events in the order their item reached the workflow
    lost,        \* events dropped by policy; droppedNewestCount + droppedOldestCount
    refused,     \* events answered with SOCKET_EVENT_BACKPRESSURE_LIMIT
    failed       \* events whose failure was reported; failedCount

outcomes == <<emitted, lost, refused, failed>>
vars == <<config, arrived, queue, preparing, settling, closed, started, outcomes>>

Events == 1..MaxEvents
Policies == {"fail", "dropNewest", "dropOldest"}
Inflight == preparing \cup settling

Init ==
    /\ config \in [inflight : InflightLimits, size : QueueSizes, policy : Policies]
    /\ arrived = 0 /\ queue = <<>>
    /\ preparing = {} /\ settling = {} /\ closed = FALSE
    /\ started = <<>> /\ emitted = <<>>
    /\ lost = {} /\ refused = {} /\ failed = {}

\* How many tasks of a queue drain starts when `busy` are in flight.
Startable_mut(q, busy) ==
    IF config.inflight + 1 - busy < Len(q) THEN config.inflight + 1 - busy ELSE Len(q)
Startable(q, busy) ==
    IF config.inflight - busy < Len(q) THEN config.inflight - busy ELSE Len(q)

\* What queue.shift leaves of q after n tasks were taken.
Remaining(q, n) == SubSeq(q, n + 1, Len(q))

\* drain(), over queue q with `busy` tasks in flight
Drain(q, busy) ==
    LET n     == Startable(q, busy)
        first == SubSeq(q, 1, n)
    IN  /\ queue' = Remaining(q, n)
        /\ started' = started \o first
        /\ preparing' = preparing \cup ToSet(first)

\* queue.push
Pushed(q, e) == Append(q, e)

SlotFree == Cardinality(Inflight) < config.inflight

\* The queue is full, and the event does not go straight to a free slot.
Full == ~(SlotFree /\ queue = <<>>) /\ Len(queue) >= config.size

\* enqueue(task) while open: into a free slot, or behind the waiting events
Accept ==
    /\ ~closed /\ arrived < MaxEvents
    /\ ~Full
    /\ arrived' = arrived + 1
    /\ Drain(Pushed(queue, arrived'), Cardinality(Inflight))
    /\ UNCHANGED <<config, settling, closed, outcomes>>

\* ... that finds the queue full and is discarded: dropNewest, or any drop policy
\* when the queue has no capacity at all
DropIncoming ==
    /\ ~closed /\ arrived < MaxEvents
    /\ Full
    /\ config.policy = "dropNewest" \/ (config.policy = "dropOldest" /\ config.size = 0)
    /\ arrived' = arrived + 1
    /\ lost' = lost \cup {arrived'}
    /\ UNCHANGED <<config, queue, preparing, settling, closed, started, emitted, refused,
                   failed>>

\* What dropOldest keeps of the waiting events, and the one it gives up.
Kept(q) == Tail(q)
Victim(q) == Head(q)

\* ... that takes the place of the oldest waiting event
DropOldest ==
    /\ ~closed /\ arrived < MaxEvents
    /\ Full
    /\ config.policy = "dropOldest" /\ config.size > 0
    /\ arrived' = arrived + 1
    /\ lost' = lost \cup {Victim(queue)}
    /\ Drain(Pushed(Kept(queue), arrived'), Cardinality(Inflight))
    /\ UNCHANGED <<config, settling, closed, emitted, refused, failed>>

\* ... that is refused with an error
Refuse ==
    /\ ~closed /\ arrived < MaxEvents
    /\ Full
    /\ config.policy = "fail"
    /\ arrived' = arrived + 1
    /\ refused' = refused \cup {arrived'}
    /\ UNCHANGED <<config, queue, preparing, settling, closed, started, emitted, lost,
                   failed>>

\* What a finished task may still show: onEvent of the node and the catch of drain
\* look at `closed` before they emit.
MayEmit_mut == TRUE
MayEmit == ~closed

\* The task emits its item and resolves; a duplicate event resolves without an item.
TaskResolves(e, item) ==
    /\ e \in preparing
    /\ preparing' = preparing \ {e} /\ settling' = settling \cup {e}
    /\ emitted' = IF item /\ MayEmit THEN Append(emitted, e) ELSE emitted
    /\ UNCHANGED <<config, arrived, queue, closed, started, lost, refused, failed>>

\* The task rejects (an invalid frame, an attachment that cannot be converted).
TaskRejects(e) ==
    /\ e \in preparing
    /\ preparing' = preparing \ {e} /\ settling' = settling \cup {e}
    /\ failed' = IF MayEmit THEN failed \cup {e} ELSE failed
    /\ UNCHANGED <<config, arrived, queue, closed, started, emitted, lost, refused>>

\* The tasks still in flight when the finally of e drains.
InflightAfter_mut(e) == Cardinality(Inflight)
InflightAfter(e) == Cardinality(Inflight \ {e})

\* The finally of drain: frees the slot and drains again unless closed.
Finally(e) ==
    /\ e \in settling
    /\ settling' = settling \ {e}
    /\ IF closed THEN UNCHANGED <<queue, started, preparing>>
       ELSE Drain(queue, InflightAfter(e))
    /\ UNCHANGED <<config, arrived, closed, outcomes>>

\* close()
Close ==
    /\ ~closed
    /\ closed' = TRUE
    /\ queue' = <<>>
    /\ UNCHANGED <<config, arrived, preparing, settling, started, outcomes>>

Next ==
    \/ Accept \/ DropIncoming \/ DropOldest \/ Refuse
    \/ \E e \in Events, item \in BOOLEAN : TaskResolves(e, item)
    \/ \E e \in Events : TaskRejects(e) \/ Finally(e)
    \/ Close

Spec == Init /\ [][Next]_vars
--------------------------------------------------------------------------------
TypeOK ==
    /\ config \in [inflight : InflightLimits, size : QueueSizes, policy : Policies]
    /\ arrived \in 0..MaxEvents
    /\ queue \in Seq(Events) /\ emitted \in Seq(Events)
    /\ started \in Seq(Events) /\ IsInjective(started)
    /\ preparing \subseteq Events /\ settling \subseteq Events
    /\ closed \in BOOLEAN
    /\ lost \subseteq Events /\ refused \subseteq Events /\ failed \subseteq Events

\* The promises of the queue, whatever order tasks end and events arrive in.
\* No more than maxInflightEvents are prepared at a time and no more than maxQueueSize wait.
Bounded == Cardinality(Inflight) <= config.inflight /\ Len(queue) <= config.size

\* A slot is never left idle while an event waits: the finally of a task is the only
\* thing that restarts the queue, so an event left behind would wait for the next one.
NoIdleSlot == ~closed /\ queue # <<>> => Cardinality(Inflight) = config.inflight

\* Every event that arrived is in exactly one place: its task was started, it waits,
\* it was dropped or it was refused; only close makes waiting events vanish.
Accounted ==
    LET places == <<ToSet(started), ToSet(queue), lost, refused>>
    IN  /\ \A i, j \in 1..4 : i < j => places[i] \cap places[j] = {}
        /\ ~closed => 1..arrived = UNION ToSet(places)

\* docs/socket/socket-event-trigger.md: one event in flight keeps the items in order.
OneAtATimeIsFifo ==
    config.inflight = 1 =>
        \A i, j \in DOMAIN emitted : i < j => emitted[i] < emitted[j]

\* With dropOldest and a capacity, the latest event is always kept, and no waiting
\* event is older than a dropped one.
NewestKept ==
    config.policy = "dropOldest" /\ config.size > 0 /\ ~closed =>
        /\ arrived \notin lost
        /\ \A e \in lost, w \in ToSet(queue) : e < w

QueueLaws == TypeOK /\ Bounded /\ NoIdleSlot /\ Accounted /\ OneAtATimeIsFifo /\ NewestKept

\* After close no task starts and nothing reaches the workflow, although tasks that
\* were in flight still end.
QuietAfterClose == [][closed => UNCHANGED <<started, outcomes>>]_vars

================================================================================
