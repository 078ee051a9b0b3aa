------------------------------ MODULE DecodeQueue ------------------------------
(***************************************************************************)
(* shared/socket/parallelChunkDecode.ts: the queue that decodes the frames *)
(* of a connection concurrently (at most MaxParallel at a time) and        *)
(* applies the decoded values strictly in arrival order.                   *)
(*                                                                         *)
(* The linked list of tasks only ever grows at its tail and shrinks at its *)
(* head, so with tasks numbered in arrival order it is the interval        *)
(* head..last; an undefined `head` or `nextDecode` is last + 1.            *)
(*                                                                         *)
(* JavaScript runs one callback to completion: `running` is TRUE while the *)
(* loop of applyReady is on the stack, and only its steps are enabled then.*)
(***************************************************************************)
EXTENDS Naturals, FiniteSets, FiniteSetsExt, Functions

CONSTANTS
    MaxTasks,      \* bound: tasks enqueued in a behaviour
    MaxParallel,   \* options.maxParallel
    MaxFrames,     \* options.maxPendingFrames
    MaxBytes,      \* options.maxPendingBytes
    ByteSizes,     \* sizes of the frames that arrive
    MaxDrains      \* bound: callers waiting in drainOrderedWork

ASSUME DecodeQueueAssumption ==
    /\ MaxTasks \in Nat
    /\ MaxParallel \in 1..8
    /\ MaxFrames \in Nat \ {0}
    /\ MaxBytes \in Nat \ {0}
    /\ ByteSizes \subseteq Nat
    /\ MaxDrains \in Nat

VARIABLES
    head, last, nextDecode,   \* the list is head..last; next candidate to decode
    decodes,       \* tasks that carry a decode (the others are ordered work)
    bytes,         \* task -> reserved bytes
    decoding,      \* tasks whose decode promise is pending; |decoding| is `active`
    ready, failed, cancelled, released,   \* the flags of Task
    current,       \* task whose apply promise is pending, 0 if none: `applying`
    running,       \* the applyReady loop is on the stack
    queueClosed,
    pendingFrames, pendingBytes,      \* metrics
    accFrames, accBytes,   \* what options.accumulated() returns
    drains,        \* unresolved drainOrderedWork callers
    errors,        \* calls of options.onError
    started        \* history: tasks whose apply has been called

list     == <<head, last, nextDecode>>
flags    == <<ready, failed, cancelled, released>>
metrics  == <<pendingFrames, pendingBytes>>
acc      == <<accFrames, accBytes>>
queueVars == <<list, decodes, bytes, decoding, flags, current, running, queueClosed,
               metrics, acc, drains, errors, started>>

Tasks == 1..MaxTasks
Queue == head..last
applying == current # 0

QueueInit ==
    /\ head = 1 /\ last = 0 /\ nextDecode = 1
    /\ decodes = {} /\ bytes = [t \in Tasks |-> 0]
    /\ decoding = {}
    /\ ready = {} /\ failed = {} /\ cancelled = {} /\ released = {}
    /\ current = 0 /\ running = FALSE /\ queueClosed = FALSE
    /\ pendingFrames = 0 /\ pendingBytes = 0
    /\ accFrames = 0 /\ accBytes = 0
    /\ drains = 0 /\ errors = 0
    /\ started = {}

--------------------------------------------------------------------------------
(* Helpers of the closure.                                                 *)

\* nextDecode after the head moved to h: it follows when it was the removed task.
NextDecodeAfterRemoval(n, h) == IF n < h THEN h ELSE n

\* The tasks `release` still has something to do for.
Unreleased_mut(S) == S
Unreleased(S) == S \ released

\* release(task) for every task of S: returns each reservation once.
Release(S) ==
    LET fresh == Unreleased(S) \cap decodes
    IN  /\ released' = released \cup S
        /\ pendingFrames' = pendingFrames - Cardinality(fresh)
        /\ pendingBytes' = pendingBytes - SumFunctionOnSet(bytes, fresh)

\* The first k elements of a set of tasks, in arrival order.
FirstOf(S, k) == {t \in S : Cardinality({u \in S : u < t}) < k}

\* How many more decodes pump may start.
FreeSlots(busy) == MaxParallel - Cardinality(busy)

\* pump, over the list up to tail `to` with decode tasks D and `busy` decodes
\* running: starts the next decodes while slots are free, walking nextDecode over
\* ordered work and cancelled tasks.
Pump(to, D, busy, dropped) ==
    LET candidates == {t \in nextDecode..to : t \in D \ dropped}
        starts     == FirstOf(candidates, FreeSlots(busy))
    IN  /\ decoding' = busy \cup starts
        /\ nextDecode' = IF Cardinality(busy) >= MaxParallel THEN nextDecode
                         ELSE IF Cardinality(starts) < FreeSlots(busy) THEN to + 1
                         ELSE Max(starts) + 1

\* clearPendingDecodes while open: every task of the list is cancelled and
\* released, the list becomes empty and every drain resolves.
ClosedOnClear == TRUE
ClearPending ==
    /\ queueClosed' = ClosedOnClear
    /\ head' = last + 1 /\ nextDecode' = last + 1
    /\ cancelled' = cancelled \cup Queue
    /\ Release(Queue)
    /\ drains' = 0

\* fail(error): clear, then report.
Fail ==
    /\ ClearPending
    /\ errors' = errors + 1

--------------------------------------------------------------------------------
(* The operations, and the callbacks that reach the queue.                 *)

Idle == ~running

\* enqueueOrderedWork(work)
EnqueueOrdered ==
    /\ Idle /\ ~queueClosed /\ last < MaxTasks
    /\ last' = last + 1
    /\ ready' = ready \cup {last'}
    /\ Pump(last', decodes, decoding, cancelled)
    /\ running' = TRUE
    /\ UNCHANGED <<head, decodes, bytes, failed, cancelled, released, current,
                   queueClosed, metrics, acc, drains, errors, started>>

\* The limit test of enqueueDecodeThenOrdered.
OverQueueLimit(b) ==
    \/ pendingFrames + accFrames + 1 > MaxFrames
    \/ pendingBytes + accBytes + b > MaxBytes

\* enqueueDecodeThenOrdered(decode, apply, b, signal) within the limits
EnqueueDecode(b) ==
    /\ Idle /\ ~queueClosed /\ last < MaxTasks
    /\ ~OverQueueLimit(b)
    /\ last' = last + 1
    /\ decodes' = decodes \cup {last'}
    /\ bytes' = [bytes EXCEPT ![last'] = b]
    /\ pendingFrames' = pendingFrames + 1
    /\ pendingBytes' = pendingBytes + b
    /\ Pump(last', decodes', decoding, cancelled)
    /\ running' = TRUE
    /\ UNCHANGED <<head, flags, current, queueClosed, acc, drains, errors, started>>

\* ... and above them: the queue fails and the frame is dropped.
EnqueueOverLimit(b) ==
    /\ Idle /\ ~queueClosed /\ last < MaxTasks
    /\ OverQueueLimit(b)
    /\ Fail
    /\ UNCHANGED <<last, decodes, bytes, decoding, ready, failed, current, running,
                   acc, started>>

\* task.cancel, on the abort signal of a task that is not released yet
Cancel(t) ==
    /\ Idle
    /\ t \in (Queue \cap decodes) \ released
    /\ cancelled' = cancelled \cup {t}
    /\ ready' = ready \cup {t}
    /\ Release({t})
    /\ running' = TRUE
    /\ UNCHANGED <<list, decodes, bytes, decoding, failed, current, queueClosed, acc,
                   drains, errors, started>>

\* complete: a decode promise settles, successfully or not. A task that was
\* cleared or cancelled meanwhile may still be decoding.
DecodeSettled(t, ok) ==
    /\ Idle
    /\ t \in decoding
    /\ ready' = ready \cup {t}
    /\ failed' = IF ok THEN failed ELSE failed \cup {t}
    /\ IF queueClosed THEN decoding' = decoding \ {t} /\ UNCHANGED nextDecode
       ELSE Pump(last, decodes, decoding \ {t}, cancelled)
    /\ running' = TRUE
    /\ UNCHANGED <<head, last, decodes, bytes, cancelled, released, current, queueClosed,
                   metrics, acc, drains, errors, started>>

\* clearPendingDecodes() from the owner or from the abort of options.signal
Clear ==
    /\ Idle /\ ~queueClosed
    /\ ClearPending
    /\ UNCHANGED <<last, decodes, bytes, decoding, ready, failed, current, running,
                   acc, errors, started>>

\* drainOrderedWork() that has to wait
Drain ==
    /\ Idle
    /\ head <= last
    /\ drains < MaxDrains
    /\ drains' = drains + 1
    /\ UNCHANGED <<list, decodes, bytes, decoding, flags, current, running, queueClosed,
                   metrics, acc, errors, started>>

--------------------------------------------------------------------------------
(* The loop of applyReady.                                                 *)

\* The loop is entered, or goes round, with a head that may be applied.
HeadReady_mut == running /\ ~queueClosed /\ head \in ready \cap Queue
HeadReady == running /\ ~applying /\ ~queueClosed /\ head \in ready \cap Queue

\* finishDrains at the end of the loop; an early return does not reach it.
DrainsAfterLoop_mut == drains
DrainsAfterLoop == IF ~applying /\ ~queueClosed /\ head > last THEN 0 ELSE drains

\* It stops: another apply is pending, the queue is closed, or the head is not ready.
ApplyLoopEnds ==
    /\ running /\ ~HeadReady
    /\ running' = FALSE
    /\ drains' = DrainsAfterLoop
    /\ UNCHANGED <<list, decodes, bytes, decoding, flags, current, queueClosed, metrics,
                   acc, errors, started>>

\* The tasks the loop passes over.
Skippable == cancelled

SkipCancelled ==
    /\ HeadReady
    /\ head \in Skippable
    /\ head' = head + 1
    /\ nextDecode' = NextDecodeAfterRemoval(nextDecode, head')
    /\ Release({head})
    /\ UNCHANGED <<last, decodes, bytes, decoding, ready, failed, cancelled, current,
                   running, queueClosed, acc, drains, errors, started>>

HeadFailed ==
    /\ HeadReady
    /\ head \in failed \ Skippable
    /\ Fail
    /\ running' = FALSE
    /\ UNCHANGED <<last, decodes, bytes, decoding, ready, failed, current, acc, started>>

Applicable == HeadReady /\ head \notin cancelled \cup failed

\* What the owner retains of the frame it applies.
Accumulate(keep) ==
    IF keep /\ head \in decodes
    THEN accFrames' = accFrames + 1 /\ accBytes' = accBytes + bytes[head]
    ELSE UNCHANGED acc

\* apply returns a promise: the loop is left until it settles.
StartAsync(keep) ==
    /\ Applicable
    /\ started' = started \cup {head}
    /\ current' = head
    /\ Accumulate(keep)
    /\ running' = FALSE
    /\ UNCHANGED <<list, decodes, bytes, decoding, flags, queueClosed, metrics, drains, errors>>

\* apply returns at once; the head is removed and the loop goes on. The callback
\* may have enqueued ordered work (schedulePullIfCreditsExhausted).
ApplySync(keep, more) ==
    /\ Applicable
    /\ more => last < MaxTasks
    /\ started' = started \cup {head}
    /\ Accumulate(keep)
    /\ head' = head + 1
    /\ last' = IF more THEN last + 1 ELSE last
    /\ ready' = ready \cup ((last + 1)..last')
    /\ LET pumped == IF more /\ Cardinality(decoding) < MaxParallel
                     THEN last' + 1 ELSE nextDecode
       IN  nextDecode' = NextDecodeAfterRemoval(pumped, head')
    /\ Release({head})
    /\ UNCHANGED <<decodes, bytes, decoding, failed, cancelled, current, running,
                   queueClosed, drains, errors>>

\* apply calls clearPendingDecodes (the command settled) and returns at once, or throws.
ApplyCloses(throws) ==
    /\ Applicable
    /\ started' = started \cup {head}
    /\ IF throws THEN Fail ELSE ClearPending /\ UNCHANGED errors
    /\ running' = FALSE
    /\ UNCHANGED <<last, decodes, bytes, decoding, ready, failed, current, acc>>

\* The apply promise resolves: the task is removed unless the list was cleared.
ApplyResolved ==
    /\ Idle /\ applying
    /\ current' = 0
    /\ head' = IF head = current THEN head + 1 ELSE head
    /\ nextDecode' = NextDecodeAfterRemoval(nextDecode, head')
    /\ Release({current})
    /\ running' = TRUE
    /\ UNCHANGED <<last, decodes, bytes, decoding, ready, failed, cancelled, queueClosed,
                   acc, drains, errors, started>>

\* It rejects: a failure of a cancelled task is swallowed, any other one fails the queue.
SwallowRejection(t) == t \in cancelled

ApplyRejected ==
    /\ Idle /\ applying
    /\ current' = 0
    /\ IF SwallowRejection(current)
       THEN /\ head' = IF head = current THEN head + 1 ELSE head
            /\ nextDecode' = NextDecodeAfterRemoval(nextDecode, head')
            /\ running' = TRUE
            /\ UNCHANGED <<cancelled, released, queueClosed, metrics, drains, errors>>
       ELSE Fail /\ UNCHANGED running
    /\ UNCHANGED <<last, decodes, bytes, decoding, ready, failed, acc, started>>

ApplyLoop ==
    \/ ApplyLoopEnds
    \/ SkipCancelled
    \/ HeadFailed
    \/ \E keep \in BOOLEAN : StartAsync(keep)
    \/ \E keep, more \in BOOLEAN : ApplySync(keep, more)
    \/ \E throws \in BOOLEAN : ApplyCloses(throws)

QueueNext ==
    \/ EnqueueOrdered
    \/ \E b \in ByteSizes : EnqueueDecode(b) \/ EnqueueOverLimit(b)
    \/ \E t \in Tasks : Cancel(t)
    \/ \E t \in Tasks, ok \in BOOLEAN : DecodeSettled(t, ok)
    \/ Clear
    \/ Drain
    \/ ApplyLoop
    \/ ApplyResolved
    \/ ApplyRejected

\* While a callback is pending the event loop runs one: the loop on the stack goes on,
\* and every decode and every apply settles. Each of them runs once, so none starves.
Callback ==
    \/ ApplyLoop \/ ApplyResolved \/ ApplyRejected
    \/ \E t \in Tasks, ok \in BOOLEAN : DecodeSettled(t, ok)

Fairness == WF_queueVars(Callback)

QueueSpec == QueueInit /\ [][QueueNext]_queueVars /\ Fairness
--------------------------------------------------------------------------------
QueueTypeOK ==
    /\ head \in 1..(MaxTasks + 1) /\ last \in 0..MaxTasks
    /\ nextDecode \in 1..(MaxTasks + 1)
    /\ decodes \subseteq Tasks /\ bytes \in [Tasks -> Nat]
    /\ decoding \subseteq Tasks
    /\ ready \subseteq Tasks /\ failed \subseteq Tasks
    /\ cancelled \subseteq Tasks /\ released \subseteq Tasks
    /\ current \in 0..MaxTasks /\ running \in BOOLEAN /\ queueClosed \in BOOLEAN
    /\ pendingFrames \in Nat /\ pendingBytes \in Nat
    /\ accFrames \in Nat /\ accBytes \in Nat
    /\ drains \in 0..MaxDrains /\ errors \in Nat
    /\ started \subseteq Tasks

\* The reservation counters are exactly what the unreleased frames hold: no
\* interleaving of cancel, clear, decode and apply returns a reservation twice
\* or keeps one (release, metrics).
ReservationsExact ==
    /\ pendingFrames = Cardinality(decodes \ released)
    /\ pendingBytes = SumFunctionOnSet(bytes, decodes \ released)

\* Frames reserved and frames retained by the owner never exceed the configured
\* limit, but for the one frame that is counted twice while its apply is pending.
WithinLimit ==
    pendingFrames + accFrames <= MaxFrames + (IF current \in decodes \ released THEN 1 ELSE 0)

\* No more than MaxParallel decodes ever overlap, and while a slot is free no
\* frame of the list is left undecoded: nextDecode is never carried past a frame
\* nor left behind on a removed one.
DecodersBusy ==
    /\ Cardinality(decoding) <= MaxParallel
    /\ \A t \in (Queue \cap decodes) \ (ready \cup decoding) :
          Cardinality(decoding) = MaxParallel

\* What the queue holds and who works on it, in one statement: a queue that decodes in
\* parallel keeps its accounts and its slots right under every interleaving.
Accounting == QueueTypeOK /\ ReservationsExact /\ WithinLimit /\ DecodersBusy

\* A burst is worked off: in the end the promise of every enqueued task has resolved
\* and so has every drainOrderedWork, for good.
WorkedOff == <>[](1..last \subseteq released /\ drains = 0)

\* The queue implements the ordered hand-over its callers rely on.
Abstract == INSTANCE OrderedDelivery WITH
    submitted <- last,
    outcome <- [t \in Tasks |-> IF t \in started THEN "delivered"
                                ELSE IF t \in cancelled THEN "dropped"
                                ELSE "pending"],
    busy <- current,
    open <- ~queueClosed
DeliversInOrder == Abstract!Spec
================================================================================
