---------------------------- MODULE Dispatch_proofs -----------------------------
(***************************************************************************)
(* Proofs about DecodeQueue: its accounts and slots are right under every  *)
(* interleaving, and it implements OrderedDelivery; and about the          *)
(* dispatcher behind it: its accounts are exact, events reach the command  *)
(* they are about, and a command overruns its budget alone, for any        *)
(* commands, operation objects, limits and sizes of events.                *)
(***************************************************************************)
EXTENDS DecodeQueue, SocketDispatcher, Sums_proofs

--------------------------------------------------------------------------------
(* The decode queue.                                                       *)

QueueTyped ==
    /\ last \in 0..MaxTasks /\ head \in 1..(last + 1) /\ nextDecode \in head..(last + 1)
    /\ decodes \subseteq 1..last /\ bytes \in [Tasks -> Nat]
    /\ ready \subseteq 1..last /\ failed \subseteq 1..last
    /\ cancelled \subseteq 1..last /\ released \subseteq 1..last
    /\ current \in 0..last /\ running \in BOOLEAN /\ queueClosed \in BOOLEAN
    /\ accFrames \in Nat /\ accBytes \in Nat
    /\ drains \in 0..MaxDrains /\ errors \in Nat
    /\ started \subseteq 1..last

\* A released task of the list was cancelled, and one that was cancelled is passed over.
Marks ==
    /\ cancelled \subseteq released
    /\ cancelled \intersect Queue \subseteq ready
    /\ released \intersect Queue \subseteq cancelled

\* nextDecode is behind what is decoded, and at the end of the list while a slot is free.
DecodersTight ==
    /\ decoding \subseteq 1..(nextDecode - 1) /\ Cardinality(decoding) <= MaxParallel
    /\ Cardinality(decoding) < MaxParallel => nextDecode = last + 1
    /\ \A t \in Queue \intersect decodes : t < nextDecode => t \in ready \cup decoding

\* What has left the list was applied or dropped, and what is being applied is its head.
Order ==
    /\ queueClosed => head = last + 1
    /\ 1..(head - 1) \subseteq started \cup cancelled
    /\ started \subseteq 1..(head - 1) \cup {current}
    /\ current <= head
    /\ current # 0 => current \in started /\ (current \in cancelled \/ (current = head /\ head <= last))

ReservedBooks ==
    /\ pendingFrames \in Nat /\ pendingBytes \in Nat
    /\ ReservationsExact

QueueInv == QueueTyped /\ Marks /\ DecodersTight /\ Order /\ ReservedBooks /\ WithinLimit
--------------------------------------------------------------------------------
(* Sets of tasks.                                                           *)

\* Tasks that have arrived are finitely many.
LEMMA TasksAreFinite ==
    ASSUME NEW n \in Nat, NEW S \in SUBSET (1..n)
    PROVE  IsFiniteSet(S) /\ Cardinality(S) \in Nat
<1>1. IsFiniteSet(1..n)
  BY FS_Interval
<1>2. IsFiniteSet(S)
  BY <1>1, FS_Subset
<1> QED
  BY <1>2, FS_CardinalityType

\* A set of tasks that is not empty has a last one.
LEMMA LatestTask ==
    ASSUME NEW n \in Nat, NEW S \in SUBSET (1..n), S # {}
    PROVE  \E m \in S : \A k \in S : k <= m
<1>1. PICK T : T = {n - k : k \in S}
  OBVIOUS
<1>2. T \in SUBSET Nat /\ T # {}
  <2>1. \A k \in S : n - k \in Nat
    OBVIOUS
  <2> QED
    BY <1>1, <2>1
<1>3. PICK d \in T : \A k \in T : d <= k
  BY <1>2, LeastElement
<1>4. PICK m \in S : d = n - m
  BY <1>1, <1>3
<1>5. \A k \in S : k <= m
  <2> TAKE k \in S
  <2>1. n - k \in T
    BY <1>1
  <2>2. n - m <= n - k
    BY <1>3, <1>4, <2>1
  <2> QED
    BY <2>2
<1> QED
  BY <1>5

\* The first k tasks of a set are at most k, they are all of it if they are fewer, and no
\* task is before one of them that is not among them.
LEMMA FirstOnes ==
    ASSUME NEW n \in Nat, NEW S \in SUBSET (1..n), NEW k \in Nat
    PROVE  /\ FirstOf(S, k) \subseteq S /\ Cardinality(FirstOf(S, k)) <= k
           /\ Cardinality(FirstOf(S, k)) < k => FirstOf(S, k) = S
           /\ \A t \in FirstOf(S, k), u \in S : u < t => u \in FirstOf(S, k)
<1>1. PICK F : F = FirstOf(S, k)
  OBVIOUS
<1>2. \A t \in S : {u \in S : u < t} \in SUBSET (1..n)
  OBVIOUS
<1>3. F \in SUBSET S /\ \A t \in S : t \in F <=> Cardinality({u \in S : u < t}) < k
  BY <1>1 DEF FirstOf
<1>4. F \in SUBSET (1..n)
  BY <1>3
<1>5. PICK c \in Nat : c = Cardinality(F)
  BY <1>4, TasksAreFinite
<1>6. c <= k
  <2> SUFFICES ASSUME ~(c <= k) PROVE FALSE
    OBVIOUS
  <2>1. F # {}
    BY <1>5, FS_EmptySet
  <2>2. PICK m \in F : \A t \in F : t <= m
    BY <1>4, <2>1, LatestTask
  <2>3. IsFiniteSet(F) /\ IsFiniteSet(F \ {m}) /\ Cardinality(F \ {m}) = c - 1
    BY <1>4, <1>5, <2>2, TasksAreFinite, FS_RemoveElement
  <2>4. F \ {m} \in SUBSET {u \in S : u < m}
    <3> SUFFICES ASSUME NEW u \in F \ {m} PROVE u \in S /\ u < m
      OBVIOUS
    <3>1. u \in 1..n /\ m \in 1..n /\ u <= m /\ u # m
      BY <1>4, <2>2
    <3> QED
      BY <1>3, <3>1
  <2>5. m \in S
    BY <1>3, <2>2
  <2>6. PICK d \in Nat : d = Cardinality({u \in S : u < m}) /\ IsFiniteSet({u \in S : u < m})
    BY <1>2, <2>5, TasksAreFinite
  <2>7. c - 1 <= d
    BY <2>3, <2>4, <2>6, FS_Subset
  <2>8. d < k
    BY <1>3, <2>2, <2>5, <2>6
  <2> QED
    BY <2>7, <2>8
<1>7. c < k => F = S
  <2> SUFFICES ASSUME c < k, F # S PROVE FALSE
    OBVIOUS
  <2>1. S \ F \in SUBSET Nat /\ S \ F # {}
    <3>1. 1..n \in SUBSET Nat
      OBVIOUS
    <3> QED
      BY <1>3, <3>1
  <2>2. PICK m \in S \ F : \A t \in S \ F : m <= t
    BY <2>1, LeastElement
  <2>3. {u \in S : u < m} \in SUBSET F
    <3> SUFFICES ASSUME NEW u \in S, u < m PROVE u \in F
      OBVIOUS
    <3>1. u \in Nat /\ m \in Nat
      OBVIOUS
    <3> QED
      BY <2>2, <3>1
  <2>4. IsFiniteSet(F)
    BY <1>4, TasksAreFinite
  <2>5. PICK d \in Nat : d = Cardinality({u \in S : u < m})
    BY <1>2, TasksAreFinite
  <2>6. d <= c
    BY <1>5, <2>3, <2>4, <2>5, FS_Subset
  <2>7. ~(d < k)
    BY <1>3, <2>5
  <2> QED
    BY <2>6, <2>7
<1>8. ASSUME NEW t \in F, NEW u \in S, u < t
      PROVE  u \in F
  <2>1. t \in S /\ t \in 1..n /\ u \in 1..n
    BY <1>3
  <2>2. {v \in S : v < u} \in SUBSET {v \in S : v < t}
    <3>1. \A v \in S : v \in 1..n
      OBVIOUS
    <3>2. \A v \in 1..n : v < u => v < t
      BY <1>8, <2>1
    <3> QED
      BY <3>1, <3>2
  <2>3. PICK a \in Nat, b \in Nat : a = Cardinality({v \in S : v < u}) /\ b = Cardinality({v \in S : v < t})
    BY <1>2, <2>1, TasksAreFinite
  <2>4. IsFiniteSet({v \in S : v < t})
    BY <1>2, <2>1, TasksAreFinite
  <2>5. a <= b
    BY <2>2, <2>3, <2>4, FS_Subset
  <2>6. b < k
    BY <1>3, <2>1, <2>3
  <2>7. a < k
    BY <2>5, <2>6
  <2> QED
    BY <1>3, <2>3, <2>7
<1> QED
  BY <1>1, <1>3, <1>5, <1>6, <1>7, <1>8
--------------------------------------------------------------------------------
(* What pump does.                                                          *)

\* Decodes are started in order while slots are free, and nextDecode is behind them; where
\* it is not at the end of the list, all slots are taken.
LEMMA PumpStarts ==
    ASSUME NEW to \in Nat, NEW D \in SUBSET (1..to), NEW busy \in SUBSET (1..(nextDecode - 1)), NEW dropped,
           nextDecode \in 1..(to + 1), Cardinality(busy) <= MaxParallel, Pump(to, D, busy, dropped)
    PROVE  /\ nextDecode' \in nextDecode..(to + 1) /\ busy \subseteq decoding'
           /\ decoding' \subseteq 1..(nextDecode' - 1) /\ Cardinality(decoding') <= MaxParallel
           /\ Cardinality(decoding') < MaxParallel => nextDecode' = to + 1
           /\ \A t \in D \ dropped : nextDecode <= t /\ t < nextDecode' => t \in decoding'
<1>1. MaxParallel \in Nat
  BY DecodeQueueAssumption
<1>2. PICK next \in Nat : next = nextDecode /\ next >= 1 /\ next <= to + 1
  OBVIOUS
<1>3. PICK b \in Nat : b = Cardinality(busy) /\ IsFiniteSet(busy)
  <2>1. next - 1 \in Nat /\ busy \in SUBSET (1..(next - 1))
    BY <1>2
  <2> QED
    BY <2>1, TasksAreFinite
<1>4. PICK free \in Nat : free = FreeSlots(busy) /\ free = MaxParallel - b
  BY <1>1, <1>3 DEF FreeSlots
<1>5. PICK candidates : candidates = {t \in nextDecode..to : t \in D \ dropped}
  OBVIOUS
<1>6. candidates \in SUBSET (1..to) /\ \A t \in candidates : next <= t /\ t <= to
  BY <1>2, <1>5
<1>7. PICK starts : starts = FirstOf(candidates, free)
  OBVIOUS
<1>8. /\ starts \subseteq candidates /\ Cardinality(starts) <= free
      /\ Cardinality(starts) < free => starts = candidates
      /\ \A t \in starts, u \in candidates : u < t => u \in starts
  BY <1>6, <1>7, FirstOnes
<1>9. PICK s \in Nat : s = Cardinality(starts) /\ IsFiniteSet(starts)
  <2>1. starts \in SUBSET (1..to)
    BY <1>6, <1>8
  <2> QED
    BY <2>1, TasksAreFinite
<1>10. decoding' = busy \cup starts
  BY <1>4, <1>5, <1>7 DEF Pump
<1>11. nextDecode' = IF b >= MaxParallel THEN next ELSE IF s < free THEN to + 1 ELSE Max(starts) + 1
  BY <1>2, <1>3, <1>4, <1>5, <1>7, <1>9 DEF Pump
<1>12. Cardinality(decoding') = b + s
  <2>1. busy \intersect starts = {}
    <3> SUFFICES ASSUME NEW t \in busy, t \in starts PROVE FALSE
      OBVIOUS
    <3>1. t \in 1..(next - 1) /\ next <= t
      BY <1>2, <1>6, <1>8
    <3> QED
      BY <3>1
  <2>2. Cardinality(busy \cup starts) = Cardinality(busy) + Cardinality(starts) - Cardinality(busy \intersect starts)
    BY <1>3, <1>9, FS_Union
  <2>3. Cardinality(busy \intersect starts) = 0
    BY <2>1, FS_EmptySet
  <2> QED
    BY <1>3, <1>9, <1>10, <2>2, <2>3
<1>13. s <= free
  BY <1>8, <1>9
<1>14. CASE b >= MaxParallel
  <2>1. free = 0 /\ s = 0 /\ b = MaxParallel
    BY <1>1, <1>3, <1>4, <1>13, <1>14
  <2>2. starts = {}
    BY <1>9, <2>1, FS_EmptySet
  <2>3. nextDecode' = next /\ decoding' = busy
    BY <1>10, <1>11, <1>14, <2>2
  <2>4. \A t \in D \ dropped : ~(nextDecode <= t /\ t < nextDecode')
    BY <1>2, <2>3
  <2> QED
    BY <1>1, <1>2, <1>12, <2>1, <2>3, <2>4
<1>15. CASE b < MaxParallel /\ s < free
  <2>1. starts = candidates /\ nextDecode' = to + 1
    BY <1>1, <1>8, <1>9, <1>11, <1>15
  <2>2. decoding' \subseteq 1..(nextDecode' - 1)
    BY <1>2, <1>6, <1>10, <2>1
  <2>3. ASSUME NEW t \in D \ dropped, nextDecode <= t, t < nextDecode' PROVE t \in decoding'
    <3>1. t \in nextDecode..to
      BY <1>2, <2>1, <2>3
    <3> QED
      BY <1>5, <1>10, <2>1, <3>1
  <2> QED
    BY <1>1, <1>2, <1>4, <1>10, <1>12, <1>13, <2>1, <2>2, <2>3
<1>16. CASE b < MaxParallel /\ ~(s < free)
  <2>1. s = free /\ s > 0
    BY <1>1, <1>4, <1>13, <1>16
  <2>2. starts # {} /\ starts \in SUBSET (1..to)
    <3>1. starts \in SUBSET (1..to)
      BY <1>6, <1>8
    <3>2. Cardinality({}) = 0
      BY FS_EmptySet
    <3>3. starts # {}
      <4> SUFFICES ASSUME starts = {} PROVE FALSE
        OBVIOUS
      <4>1. Cardinality(starts) = 0
        BY <3>2
      <4> QED
        BY <1>9, <2>1, <4>1
    <3> QED
      BY <3>1, <3>3
  <2>3. PICK m \in starts : m = Max(starts) /\ \A t \in starts : t <= m
    <3>1. \E m \in starts : \A t \in starts : m >= t
      BY <2>2, LatestTask
    <3> QED
      BY <2>2, <3>1 DEF Max
  <2>4. nextDecode' = m + 1 /\ m \in candidates /\ m \in Nat /\ next <= m /\ m <= to
    BY <1>1, <1>6, <1>8, <1>11, <1>16, <2>3
  <2>5. decoding' \subseteq 1..(nextDecode' - 1)
    <3> SUFFICES ASSUME NEW t \in decoding' PROVE t \in 1..m
      BY <2>4
    <3>1. CASE t \in busy
      BY <1>2, <2>4, <3>1
    <3>2. CASE t \in starts
      BY <2>2, <2>3, <2>4, <3>2
    <3> QED
      BY <1>10, <3>1, <3>2
  <2>6. ASSUME NEW t \in D \ dropped, nextDecode <= t, t < nextDecode' PROVE t \in decoding'
    <3>1. t \in Nat /\ t <= m /\ t \in nextDecode..to
      BY <1>2, <2>4, <2>6
    <3>2. t \in candidates
      BY <1>5, <3>1
    <3>3. t = m \/ t < m
      BY <2>4, <3>1
    <3> QED
      BY <1>8, <1>10, <2>3, <3>2, <3>3
  <2> QED
    BY <1>1, <1>2, <1>4, <1>10, <1>12, <2>1, <2>4, <2>5, <2>6
<1> QED
  BY <1>1, <1>14, <1>15, <1>16
--------------------------------------------------------------------------------
(* The reservations.                                                        *)

HeldTasks == decodes \ released

\* What is reserved are the unreleased frames, finitely many, of known sizes.
LEMMA HeldFrames ==
    ASSUME QueueTyped
    PROVE  /\ HeldTasks \in SUBSET (1..last) /\ IsFiniteSet(HeldTasks) /\ Cardinality(HeldTasks) \in Nat /\ last \in Nat
           /\ \A t \in 1..last : t \in Tasks /\ bytes[t] \in Nat
<1>1. last \in Nat /\ MaxTasks \in Nat /\ last <= MaxTasks
  BY DecodeQueueAssumption DEF QueueTyped
<1>2. HeldTasks \in SUBSET (1..last)
  BY DEF QueueTyped, HeldTasks
<1>3. \A t \in 1..last : t \in Tasks /\ bytes[t] \in Nat
  BY <1>1 DEF QueueTyped, Tasks
<1> QED
  BY <1>1, <1>2, <1>3, TasksAreFinite

\* Releasing returns what was still reserved, once: the accounts stay exact.
LEMMA ReleaseKeepsBooks ==
    ASSUME QueueTyped, ReservedBooks, NEW S, Release(S), UNCHANGED <<decodes, bytes>>
    PROVE  /\ ReservedBooks' /\ released' = released \cup S /\ pendingFrames' <= pendingFrames
           /\ \A t \in S \intersect HeldTasks : pendingFrames' < pendingFrames
<1>1. PICK fresh : fresh = Unreleased(S) \cap decodes
  OBVIOUS
<1>2. /\ released' = released \cup S /\ pendingFrames' = pendingFrames - Cardinality(fresh)
      /\ pendingBytes' = pendingBytes - SumFunctionOnSet(bytes, fresh)
  BY <1>1 DEF Release
<1>3. fresh \in SUBSET HeldTasks /\ fresh = S \intersect HeldTasks /\ HeldTasks' = HeldTasks \ fresh
  BY <1>1, <1>2 DEF Unreleased, HeldTasks
<1>4. PICK rest : rest = HeldTasks \ fresh
  OBVIOUS
<1>5. fresh \in SUBSET (1..last) /\ rest \in SUBSET (1..last) /\ last \in Nat
  BY <1>3, <1>4, HeldFrames
<1>6. PICK h \in Nat, f \in Nat, k \in Nat : h = Cardinality(HeldTasks) /\ f = Cardinality(fresh) /\ k = Cardinality(rest)
  BY <1>5, HeldFrames, TasksAreFinite
<1>7. h = f + k
  <2>1. Cardinality(HeldTasks \ fresh) = Cardinality(HeldTasks) - Cardinality(HeldTasks \cap fresh)
    BY HeldFrames, FS_Difference
  <2>2. HeldTasks \cap fresh = fresh
    BY <1>3
  <2>3. k = h - f
    BY <1>4, <1>6, <2>1, <2>2
  <2> QED
    BY <2>3
<1>8. \A S1 \in SUBSET (1..last) : IsFiniteSet(S1) /\ IntOn(bytes, S1) /\ SumFunctionOnSet(bytes, S1) \in Nat
  <2> TAKE S1 \in SUBSET (1..last)
  <2>1. IsFiniteSet(S1)
    BY <1>5, TasksAreFinite
  <2>2. \A t \in S1 : bytes[t] \in Nat
    BY HeldFrames
  <2>3. SumFunctionOnSet(bytes, S1) \in Nat
    BY <2>1, <2>2, SumIsNat
  <2> QED
    BY <2>1, <2>2, <2>3 DEF IntOn
<1>9. PICK hb \in Nat, fb \in Nat, kb \in Nat :
        hb = SumFunctionOnSet(bytes, HeldTasks) /\ fb = SumFunctionOnSet(bytes, fresh) /\ kb = SumFunctionOnSet(bytes, rest)
  BY <1>5, <1>8, HeldFrames
<1>10. hb = fb + kb
  <2>1. SumFunctionOnSet(bytes, HeldTasks) = SumFunctionOnSet(bytes, fresh) + SumFunctionOnSet(bytes, HeldTasks \ fresh)
    BY <1>3, <1>8, HeldFrames, SumSplit
  <2> QED
    BY <1>4, <1>9, <2>1
<1>11. pendingFrames = h /\ pendingBytes = hb
  BY <1>6, <1>9 DEF ReservedBooks, ReservationsExact, HeldTasks
<1>12. pendingFrames' = k /\ pendingBytes' = kb
  BY <1>2, <1>6, <1>7, <1>9, <1>10, <1>11
<1>13. decodes' \ released' = rest
  BY <1>3, <1>4 DEF HeldTasks
<1>14. ReservedBooks'
  BY <1>6, <1>9, <1>12, <1>13 DEF ReservedBooks, ReservationsExact
<1>15. ASSUME NEW t \in S \intersect HeldTasks PROVE pendingFrames' < pendingFrames
  <2>1. fresh # {} /\ IsFiniteSet(fresh)
    BY <1>3, <1>5, TasksAreFinite
  <2>2. f # 0
    BY <1>6, <2>1, FS_EmptySet
  <2> QED
    BY <1>6, <1>7, <1>11, <1>12, <2>2
<1>16. pendingFrames' <= pendingFrames
  BY <1>6, <1>7, <1>11, <1>12
<1> QED
  BY <1>2, <1>14, <1>15, <1>16

\* A frame that is enqueued is reserved.
LEMMA EnqueueKeepsBooks ==
    ASSUME QueueTyped, ReservedBooks, last < MaxTasks, NEW b \in Nat, last' = last + 1, decodes' = decodes \cup {last'},
           bytes' = [bytes EXCEPT ![last'] = b], released' = released,
           pendingFrames' = pendingFrames + 1, pendingBytes' = pendingBytes + b
    PROVE  ReservedBooks' /\ bytes' \in [Tasks -> Nat]
<1>1. last \in Nat /\ last' \in Nat /\ last' \in Tasks
  BY DecodeQueueAssumption DEF QueueTyped, Tasks
<1>2. last' \notin decodes /\ last' \notin released
  BY <1>1 DEF QueueTyped
<1>3. PICK new, held : new = last' /\ held = HeldTasks
  OBVIOUS
<1>4. decodes' \ released' = held \cup {new} /\ new \notin held
  BY <1>2, <1>3 DEF HeldTasks
<1>5. PICK f, g : f = bytes /\ g = bytes'
  OBVIOUS
<1>6. g \in [Tasks -> Nat] /\ g[new] = b /\ \A t \in 1..last : g[t] = f[t]
  BY <1>1, <1>3, <1>5 DEF QueueTyped, Tasks
<1>7. PICK h \in Nat : h = Cardinality(held) /\ IsFiniteSet(held)
  BY <1>3, HeldFrames
<1>8. Cardinality(held \cup {new}) = h + 1
  BY <1>4, <1>7, FS_AddElement
<1>9. \A t \in held : f[t] \in Nat /\ g[t] = f[t]
  <2>1. \A t \in held : t \in 1..last
    BY <1>3, HeldFrames
  <2> QED
    BY <1>5, <1>6, <2>1, HeldFrames
<1>10. IntOn(g, held \cup {new}) /\ IntOn(f, held)
  <2>1. \A t \in held \cup {new} : g[t] \in Nat
    BY <1>6, <1>9
  <2> QED
    BY <1>9, <2>1 DEF IntOn
<1>11. SumFunctionOnSet(g, held \cup {new}) = SumFunctionOnSet(g, held) + g[new]
  BY <1>4, <1>7, <1>10, SumAdd
<1>12. SumFunctionOnSet(f, held) = SumFunctionOnSet(g, held)
  BY <1>7, <1>9, <1>10, SumEqual
<1>13. pendingFrames = h /\ pendingBytes \in Nat /\ pendingBytes = SumFunctionOnSet(f, held)
  BY <1>3, <1>5, <1>7 DEF ReservedBooks, ReservationsExact, HeldTasks
<1>14. pendingFrames' = h + 1 /\ pendingBytes' = SumFunctionOnSet(g, held \cup {new}) /\ pendingBytes' \in Nat
  BY <1>6, <1>11, <1>12, <1>13
<1>15. ReservedBooks'
  BY <1>4, <1>5, <1>7, <1>8, <1>14 DEF ReservedBooks, ReservationsExact
<1> QED
  BY <1>5, <1>6, <1>15

\* Nothing is reserved or released.
LEMMA BooksStay ==
    ASSUME ReservedBooks, UNCHANGED <<decodes, bytes, released, metrics>>
    PROVE  ReservedBooks'
BY DEF ReservedBooks, ReservationsExact, metrics
--------------------------------------------------------------------------------
(* Clearing the queue.                                                      *)

\* The frame that is counted twice is the head of the list, when there is one.
LEMMA TwiceCounted ==
    ASSUME QueueInv, current \in HeldTasks
    PROVE  current = head /\ current \in Queue
BY DEF QueueInv, QueueTyped, Marks, Order, HeldTasks, Queue

\* What is within a limit with more is so with less.
LEMMA StillWithin ==
    ASSUME NEW p \in Nat, NEW q \in Nat, NEW a \in Nat, NEW m \in Nat, q <= p, p + a <= m
    PROVE  q + a <= m
OBVIOUS

\* One that is over by one is within after losing one.
LEMMA BackWithin ==
    ASSUME NEW p \in Nat, NEW q \in Nat, NEW a \in Nat, NEW m \in Nat, q < p, p + a <= m + 1
    PROVE  q + a <= m
OBVIOUS

\* A limit is kept where both sides are raised.
LEMMA BothMore ==
    ASSUME NEW p \in Nat, NEW a \in Nat, NEW m \in Nat, p + a <= m
    PROVE  p + (a + 1) <= m + 1
OBVIOUS

\* A limit is kept where one is exchanged for one.
LEMMA OneForOne ==
    ASSUME NEW p \in Nat, NEW q \in Nat, NEW a \in Nat, NEW m \in Nat, q < p, p + a <= m
    PROVE  q + (a + 1) <= m
OBVIOUS

\* A limit is kept where it is raised.
LEMMA OneMore ==
    ASSUME NEW p \in Nat, NEW a \in Nat, NEW m \in Nat, p + a <= m
    PROVE  p + a <= m + 1 /\ p + a <= m + 0
OBVIOUS

\* Frames reserved and frames retained are within the limit once the head is released.
LEMMA LimitAfterRelease ==
    ASSUME QueueInv, NEW S, Release(S), UNCHANGED <<decodes, bytes>>, current \in HeldTasks => current \in S
    PROVE  pendingFrames' + accFrames <= MaxFrames
<1>1. PICK p \in Nat, a \in Nat, m \in Nat : p = pendingFrames /\ a = accFrames /\ m = MaxFrames
  BY DecodeQueueAssumption DEF QueueInv, ReservedBooks, QueueTyped
<1>2. PICK q \in Nat : q = pendingFrames' /\ q <= p
  BY <1>1, ReleaseKeepsBooks DEF QueueInv, ReservedBooks
<1>3. CASE current \in HeldTasks
  <2>1. q < p
    BY <1>1, <1>2, <1>3, ReleaseKeepsBooks DEF QueueInv
  <2>2. p + a <= m + 1
    BY <1>1, <1>3 DEF QueueInv, WithinLimit, HeldTasks
  <2>3. q + a <= m
    BY <2>1, <2>2, BackWithin
  <2> QED
    BY <1>1, <1>2, <2>3
<1>4. CASE current \notin HeldTasks
  <2>1. pendingFrames + accFrames <= MaxFrames + 0
    BY <1>4 DEF QueueInv, WithinLimit, HeldTasks
  <2>2. p + a <= m
    BY <1>1, <2>1
  <2>3. q + a <= m
    BY <1>2, <2>2, StillWithin
  <2> QED
    BY <1>1, <1>2, <2>3
<1> QED
  BY <1>3, <1>4

\* The limit holds where it holds without the frame that is counted twice.
LEMMA LimitIsKept ==
    ASSUME pendingFrames' \in Nat, accFrames' \in Nat, pendingFrames' + accFrames' <= MaxFrames
    PROVE  WithinLimit'
<1>1. MaxFrames \in Nat
  BY DecodeQueueAssumption
<1>2. CASE current' \in decodes' \ released'
  <2>1. pendingFrames' + accFrames' <= MaxFrames + 1
    BY <1>1, OneMore
  <2> QED
    BY <1>2, <2>1 DEF WithinLimit
<1>3. CASE current' \notin decodes' \ released'
  <2>1. pendingFrames' + accFrames' <= MaxFrames + 0
    BY <1>1, OneMore
  <2> QED
    BY <1>3, <2>1 DEF WithinLimit
<1> QED
  BY <1>2, <1>3

\* Clearing cancels and releases the whole list, also while its head is being applied.
LEMMA ClearKeeps ==
    ASSUME QueueInv, ClearPending, UNCHANGED <<last, decodes, bytes, decoding, ready, failed, acc>>,
           errors' \in Nat, running' \in BOOLEAN,
           \/ UNCHANGED <<started, current>>
           \/ head \in Queue /\ started' = started \cup {head} /\ current' = 0
           \/ UNCHANGED started /\ current' = 0
    PROVE  QueueInv'
<1>1. QueueTyped /\ Marks /\ DecodersTight /\ Order /\ ReservedBooks
  BY DEF QueueInv
<1>2. /\ queueClosed' = TRUE /\ head' = last + 1 /\ nextDecode' = last + 1 /\ cancelled' = cancelled \cup Queue
      /\ Release(Queue) /\ drains' = 0
  BY DEF ClearPending, ClosedOnClear
<1>3. PICK n \in Nat : n = last /\ n <= MaxTasks
  BY <1>1, DecodeQueueAssumption DEF QueueTyped
<1>4. Queue \subseteq 1..last /\ Queue' = {}
  BY <1>1, <1>2, <1>3 DEF Queue, QueueTyped
<1>5. ReservedBooks' /\ released' = released \cup Queue
  BY <1>1, <1>2, ReleaseKeepsBooks
<1>6. QueueTyped'
  <2>1. MaxDrains \in Nat /\ MaxTasks \in Nat
    BY DecodeQueueAssumption
  <2>2. last' = n /\ head' = n + 1 /\ nextDecode' = n + 1 /\ n \in 0..MaxTasks
    BY <1>2, <1>3, <2>1
  <2>3. cancelled' \subseteq 1..n /\ released' \subseteq 1..n /\ started' \subseteq 1..n /\ current' \in 0..n
    <3>1. cancelled' \subseteq 1..n /\ released' \subseteq 1..n
      BY <1>1, <1>2, <1>3, <1>4, <1>5 DEF QueueTyped
    <3>2. head \in Queue => head \in 1..n
      BY <1>3, <1>4
    <3>3. started' \subseteq 1..n
      BY <1>1, <1>3, <3>2 DEF QueueTyped
    <3>4. current' \in 0..n
      BY <1>1, <1>3 DEF QueueTyped
    <3> QED
      BY <3>1, <3>3, <3>4
  <2>4. queueClosed' \in BOOLEAN /\ accFrames' \in Nat /\ accBytes' \in Nat /\ drains' \in 0..MaxDrains
    BY <1>1, <1>2, <2>1 DEF QueueTyped, acc
  <2>5. decodes' \subseteq 1..n /\ bytes' \in [Tasks -> Nat] /\ ready' \subseteq 1..n /\ failed' \subseteq 1..n
    BY <1>1, <1>3 DEF QueueTyped
  <2> QED
    BY <2>2, <2>3, <2>4, <2>5 DEF QueueTyped, Tasks
<1>7. Marks'
  BY <1>1, <1>2, <1>4, <1>5 DEF Marks
<1>8. DecodersTight'
  <2>1. decoding' \subseteq 1..(nextDecode' - 1)
    <3>1. nextDecode - 1 <= last /\ nextDecode \in Nat
      BY <1>1, <1>3 DEF QueueTyped
    <3> QED
      BY <1>1, <1>2, <1>3, <3>1 DEF DecodersTight
  <2> QED
    BY <1>1, <1>2, <1>4, <2>1 DEF DecodersTight
<1>9. Order'
  <2>1. \A t \in 1..last : t \in started' \cup cancelled'
    <3> TAKE t \in 1..last
    <3>1. t \in 1..(head - 1) \/ t \in Queue
      BY <1>1, <1>3 DEF QueueTyped, Queue
    <3> QED
      BY <1>1, <1>2, <3>1 DEF Order
  <2>2. started' \subseteq 1..last /\ current' # 0 => current' \in started' /\ current' \in cancelled'
    BY <1>1, <1>2, <1>3, <1>4, <1>6 DEF QueueTyped, Order, Queue
  <2>3. head' - 1 = last
    BY <1>2, <1>3
  <2>4. started' \subseteq 1..last /\ current' <= head'
    BY <1>2, <1>3, <1>6 DEF QueueTyped
  <2> QED
    BY <1>2, <2>1, <2>2, <2>3, <2>4 DEF Order
<1>10. WithinLimit'
  <2>1. current \in HeldTasks => current \in Queue
    BY TwiceCounted
  <2>2. pendingFrames' + accFrames <= MaxFrames
    BY <1>2, <2>1, LimitAfterRelease
  <2>3. pendingFrames' \in Nat /\ accFrames' \in Nat /\ accFrames' = accFrames
    BY <1>5, <1>6 DEF ReservedBooks, QueueTyped, acc
  <2> QED
    BY <2>2, <2>3, LimitIsKept
<1> QED
  BY <1>5, <1>6, <1>7, <1>8, <1>9, <1>10 DEF QueueInv
--------------------------------------------------------------------------------
(* Slots.                                                                   *)

\* What is between two tasks stays so when the list grows.
LEMMA Between ==
    ASSUME NEW h \in Nat, NEW next \in Nat, NEW n \in Nat, NEW to \in Nat,
           h >= 1, h <= next, next <= n + 1, n <= to
    PROVE  next \in 1..(to + 1)
OBVIOUS

\* ... and when nextDecode goes on.
LEMMA LaterStill ==
    ASSUME NEW h \in Nat, NEW next \in Nat, NEW to \in Nat, h <= next, NEW m \in next..(to + 1)
    PROVE  m \in h..(to + 1)
OBVIOUS

\* A step that pumps keeps the slots right.
LEMMA PumpKeepsSlots ==
    ASSUME QueueTyped, Marks, DecodersTight, last' \in {last, last + 1}, decodes' \subseteq 1..last',
           \A t \in decodes' : t \in decodes \/ t = last + 1,
           NEW busy \in SUBSET decoding, Pump(last', decodes', busy, cancelled),
           UNCHANGED <<head, cancelled>>, ready \subseteq ready', decoding \ busy \subseteq ready'
    PROVE  DecodersTight' /\ nextDecode' \in head'..(last' + 1)
<1>1. PICK n \in Nat, h \in Nat, to \in Nat, next \in Nat :
        /\ n = last /\ h = head /\ to = last' /\ next = nextDecode
        /\ h >= 1 /\ h <= next /\ next <= n + 1 /\ n <= to /\ to <= n + 1
  BY DEF QueueTyped
<1>2. IsFiniteSet(decoding) /\ Cardinality(decoding) \in Nat
  <2>1. next - 1 \in Nat /\ decoding \in SUBSET (1..(next - 1))
    BY <1>1 DEF DecodersTight
  <2> QED
    BY <2>1, TasksAreFinite
<1>3. Cardinality(busy) <= Cardinality(decoding) /\ Cardinality(busy) \in Nat
  BY <1>2, FS_Subset, FS_CardinalityType
<1>4. Cardinality(busy) <= MaxParallel
  BY <1>2, <1>3, DecodeQueueAssumption DEF DecodersTight
<1>5. busy \in SUBSET (1..(nextDecode - 1)) /\ nextDecode \in 1..(last' + 1) /\ last' \in Nat
  <2>1. busy \in SUBSET (1..(nextDecode - 1))
    BY DEF DecodersTight
  <2>2. next \in 1..(to + 1)
    BY <1>1, Between
  <2> QED
    BY <1>1, <2>1, <2>2
<1>6. /\ nextDecode' \in nextDecode..(last' + 1) /\ busy \subseteq decoding'
      /\ decoding' \subseteq 1..(nextDecode' - 1) /\ Cardinality(decoding') <= MaxParallel
      /\ Cardinality(decoding') < MaxParallel => nextDecode' = last' + 1
      /\ \A t \in decodes' \ cancelled : nextDecode <= t /\ t < nextDecode' => t \in decoding'
  BY <1>4, <1>5, PumpStarts
<1>7. ASSUME NEW t \in Queue' \intersect decodes', t < nextDecode'
      PROVE  t \in ready' \cup decoding'
  <2>1. t \in Nat /\ h <= t /\ t <= to
    BY <1>1, <1>7 DEF Queue
  <2>2. CASE t < nextDecode
    <3>1. t <= last /\ t \in Queue
      BY <1>1, <2>1, <2>2 DEF Queue
    <3>2. t \in decodes
      <4>1. t # last + 1
        BY <1>1, <2>1, <3>1
      <4> QED
        BY <1>7, <4>1
    <3>3. t \in ready \cup decoding
      BY <2>2, <3>1, <3>2 DEF DecodersTight
    <3> QED
      BY <1>6, <3>3
  <2>3. CASE nextDecode <= t /\ t \notin cancelled
    BY <1>6, <1>7, <2>3
  <2>4. CASE t \in cancelled
    <3>1. t \in Queue
      <4>1. t \in 1..last
        BY <2>4 DEF QueueTyped
      <4> QED
        BY <1>1, <2>1, <4>1 DEF Queue
    <3> QED
      BY <2>4, <3>1 DEF Marks
  <2>5. t < nextDecode \/ nextDecode <= t
    BY <1>1, <2>1
  <2> QED
    BY <2>2, <2>3, <2>4, <2>5
<1>8. nextDecode' \in head'..(last' + 1)
  <2>1. nextDecode' \in next..(to + 1)
    BY <1>1, <1>6
  <2>2. PICK m \in next..(to + 1) : m = nextDecode'
    BY <2>1
  <2>3. m \in h..(to + 1)
    BY <1>1, <2>2, LaterStill
  <2> QED
    BY <1>1, <2>2, <2>3
<1> QED
  BY <1>6, <1>7, <1>8 DEF DecodersTight

\* The list loses its head, or nothing, and ready and decoding frames stay so: the slots are
\* as they were.
LEMMA RemovalKeepsSlots ==
    ASSUME QueueTyped, DecodersTight, last' = last, head' \in {head, head + 1}, head' <= last + 1,
           nextDecode' = NextDecodeAfterRemoval(nextDecode, head'),
           UNCHANGED <<decodes, decoding>>, ready \subseteq ready'
    PROVE  DecodersTight' /\ nextDecode' \in head'..(last' + 1)
<1>1. PICK n \in Nat, h \in Nat, g \in Nat, next \in Nat :
        /\ n = last /\ h = head /\ g = head' /\ next = nextDecode
        /\ h >= 1 /\ h <= next /\ next <= n + 1 /\ (g = h \/ g = h + 1) /\ g <= n + 1
  BY DEF QueueTyped
<1>2. PICK m \in Nat : m = nextDecode' /\ m >= next /\ m >= g /\ m <= n + 1 /\ (m = next \/ (m = g /\ next < g))
  BY <1>1 DEF NextDecodeAfterRemoval
<1>3. decoding' \subseteq 1..(nextDecode' - 1)
  BY <1>1, <1>2 DEF DecodersTight
<1>4. Cardinality(decoding') < MaxParallel => nextDecode' = last' + 1
  BY <1>1, <1>2 DEF DecodersTight
<1>5. ASSUME NEW t \in Queue' \intersect decodes', t < nextDecode'
      PROVE  t \in ready' \cup decoding'
  <2>1. t \in Nat /\ g <= t /\ t <= n /\ t < m
    BY <1>1, <1>2, <1>5 DEF Queue
  <2>2. t \in Queue /\ t < nextDecode
    BY <1>1, <1>2, <2>1 DEF Queue
  <2> QED
    BY <1>5, <2>2 DEF DecodersTight
<1>6. nextDecode' \in head'..(last' + 1)
  BY <1>1, <1>2
<1> QED
  BY <1>3, <1>4, <1>5, <1>6 DEF DecodersTight--------------------------------------------------------------------------------
(* The operations.                                                          *)

\* Where releasing is all that happens to the reservations, the limit is kept.
LEMMA ReleaseKeepsLimit ==
    ASSUME QueueInv, NEW S, Release(S), UNCHANGED <<decodes, bytes, current, acc>>
    PROVE  WithinLimit'
<1>1. PICK p \in Nat, a \in Nat, m \in Nat : p = pendingFrames /\ a = accFrames /\ a = accFrames' /\ m = MaxFrames
  BY DecodeQueueAssumption DEF QueueInv, ReservedBooks, QueueTyped, acc
<1>2. PICK q \in Nat : q = pendingFrames' /\ q <= p /\ released' = released \cup S
  BY <1>1, ReleaseKeepsBooks DEF QueueInv, ReservedBooks
<1>3. CASE current' \in decodes' \ released'
  <2>1. current \in HeldTasks
    BY <1>2, <1>3 DEF HeldTasks
  <2>2. p + a <= m + 1
    BY <1>1, <2>1 DEF QueueInv, WithinLimit, HeldTasks
  <2>3. m + 1 \in Nat
    OBVIOUS
  <2>4. q + a <= m + 1
    BY <1>2, <2>2, <2>3, StillWithin
  <2> QED
    BY <1>1, <1>2, <1>3, <2>4 DEF WithinLimit
<1>4. CASE current' \notin decodes' \ released'
  <2>1. current \in HeldTasks => current \in S
    BY <1>2, <1>4 DEF HeldTasks
  <2>2. pendingFrames' + accFrames <= MaxFrames
    BY <2>1, LimitAfterRelease
  <2> QED
    BY <1>1, <1>2, <2>2, LimitIsKept
<1> QED
  BY <1>3, <1>4

\* A task arrives at the end of the list and decodes are started.
LEMMA GrowthKeeps ==
    ASSUME QueueInv, ~queueClosed, last < MaxTasks, last' = last + 1, ready' = ready \/ ready' = ready \cup {last'},
           decodes' = decodes \/ decodes' = decodes \cup {last'}, bytes' \in [Tasks -> Nat],
           Pump(last', decodes', decoding, cancelled), running' = TRUE,
           UNCHANGED <<head, failed, cancelled, released, current, queueClosed, acc, drains, errors, started>>
    PROVE  QueueTyped' /\ Marks' /\ DecodersTight' /\ Order'
<1>1. QueueTyped /\ Marks /\ DecodersTight /\ Order
  BY DEF QueueInv
<1>2. PICK n \in Nat, h \in Nat, c \in Nat : n = last /\ h = head /\ c = current /\ h >= 1 /\ h <= n + 1 /\ c <= n /\ n < MaxTasks
  BY <1>1, DecodeQueueAssumption DEF QueueTyped
<1>3. \A S : S \subseteq 1..last => S \subseteq 1..last' /\ S \cup {last'} \subseteq 1..last'
  BY <1>2
<1>4. DecodersTight' /\ nextDecode' \in head'..(last' + 1)
  <2>1. decodes' \subseteq 1..last' /\ \A t \in decodes' : t \in decodes \/ t = last + 1
    BY <1>1, <1>3 DEF QueueTyped
  <2>2. decoding \in SUBSET decoding /\ decoding \ decoding \subseteq ready' /\ ready \subseteq ready'
    OBVIOUS
  <2> QED
    BY <1>1, <2>1, <2>2, PumpKeepsSlots
<1>5. QueueTyped'
  <2>1. last' \in 0..MaxTasks /\ head' \in 1..(last' + 1) /\ current' \in 0..last'
    BY <1>2, DecodeQueueAssumption
  <2>2. /\ decodes' \subseteq 1..last' /\ ready' \subseteq 1..last' /\ failed' \subseteq 1..last'
        /\ cancelled' \subseteq 1..last' /\ released' \subseteq 1..last' /\ started' \subseteq 1..last'
    BY <1>1, <1>3 DEF QueueTyped
  <2>3. running' \in BOOLEAN /\ queueClosed' \in BOOLEAN /\ accFrames' \in Nat /\ accBytes' \in Nat /\ drains' \in 0..MaxDrains /\ errors' \in Nat
    BY <1>1 DEF QueueTyped, acc
  <2> QED
    BY <1>4, <2>1, <2>2, <2>3 DEF QueueTyped, Tasks
<1>6. Marks'
  <2>1. \A t \in 1..last : t \in Queue' => t \in Queue
    BY <1>2 DEF Queue
  <2> QED
    BY <1>1, <2>1 DEF Marks, QueueTyped
<1>7. Order'
  <2>1. head <= last => head' <= last'
    BY <1>2
  <2> QED
    BY <1>1, <2>1 DEF Order
<1> QED
  BY <1>4, <1>5, <1>6, <1>7

\* enqueueOrderedWork.
LEMMA EnqueueOrderedKeeps ==
    ASSUME QueueInv, EnqueueOrdered
    PROVE  QueueInv'
<1>1. QueueTyped' /\ Marks' /\ DecodersTight' /\ Order'
  <2>1. bytes' \in [Tasks -> Nat] /\ Pump(last', decodes', decoding, cancelled)
    BY DEF QueueInv, QueueTyped, EnqueueOrdered
  <2> QED
    BY <2>1, GrowthKeeps DEF EnqueueOrdered
<1>2. ReservedBooks'
  BY BooksStay DEF QueueInv, EnqueueOrdered
<1>3. WithinLimit'
  BY DEF QueueInv, EnqueueOrdered, WithinLimit, metrics, acc
<1> QED
  BY <1>1, <1>2, <1>3 DEF QueueInv

\* What is not over a limit with one more is within it.
LEMMA NotOver ==
    ASSUME NEW p \in Nat, NEW a \in Nat, NEW m \in Nat, ~(p + a + 1 > m)
    PROVE  p + 1 + a <= m
OBVIOUS

\* enqueueDecodeThenOrdered within the limits.
LEMMA EnqueueDecodeKeeps ==
    ASSUME QueueInv, NEW b \in ByteSizes, EnqueueDecode(b)
    PROVE  QueueInv'
<1>1. b \in Nat
  BY DecodeQueueAssumption
<1>2. ReservedBooks' /\ bytes' \in [Tasks -> Nat]
  <2>1. released' = released
    BY DEF EnqueueDecode, flags
  <2> QED
    BY <1>1, <2>1, EnqueueKeepsBooks DEF QueueInv, EnqueueDecode
<1>3. QueueTyped' /\ Marks' /\ DecodersTight' /\ Order'
  BY <1>2, GrowthKeeps DEF EnqueueDecode, flags
<1>4. WithinLimit'
  <2>1. PICK p \in Nat, a \in Nat, m \in Nat : p = pendingFrames /\ a = accFrames /\ a = accFrames' /\ m = MaxFrames
    BY DecodeQueueAssumption DEF QueueInv, ReservedBooks, QueueTyped, acc, EnqueueDecode
  <2>2. ~(p + a + 1 > m) /\ pendingFrames' = p + 1
    BY <2>1 DEF EnqueueDecode, OverQueueLimit
  <2>3. p + 1 + a <= m
    BY <2>2, NotOver
  <2> QED
    BY <1>2, <1>3, <2>1, <2>2, <2>3, LimitIsKept DEF ReservedBooks, QueueTyped
<1> QED
  BY <1>2, <1>3, <1>4 DEF QueueInv

\* The steps that clear the queue: the owner clears it or a frame exceeds its limits, ...
LEMMA ClearingKeeps ==
    ASSUME QueueInv, Clear \/ \E b \in ByteSizes : EnqueueOverLimit(b)
    PROVE  QueueInv'
<1>1. CASE Clear
  <2>1. errors' \in Nat /\ running' \in BOOLEAN
    BY <1>1 DEF Clear, QueueInv, QueueTyped
  <2>2. UNCHANGED <<started, current>>
    BY <1>1 DEF Clear
  <2> QED
    BY <1>1, <2>1, <2>2, ClearKeeps DEF Clear
<1>2. ASSUME NEW b \in ByteSizes, EnqueueOverLimit(b) PROVE QueueInv'
  <2>1. errors' \in Nat /\ running' \in BOOLEAN
    BY <1>2 DEF EnqueueOverLimit, Fail, QueueInv, QueueTyped
  <2>2. UNCHANGED <<started, current>>
    BY <1>2 DEF EnqueueOverLimit
  <2> QED
    BY <1>2, <2>1, <2>2, ClearKeeps DEF EnqueueOverLimit, Fail
<1> QED
  BY <1>1, <1>2

\* ... the head's decode failed, ...
LEMMA HeadFailedKeeps ==
    ASSUME QueueInv, HeadFailed
    PROVE  QueueInv'
<1>1. errors \in Nat /\ errors' = errors + 1 /\ running' = FALSE
  BY DEF HeadFailed, Fail, QueueInv, QueueTyped
<1>2. UNCHANGED current
  BY DEF HeadFailed
<1>3. errors' \in Nat /\ running' \in BOOLEAN
  <2>1. errors' \in Nat
    BY <1>1
  <2>2. running' \in BOOLEAN
    BY <1>1
  <2> QED
    BY <2>1, <2>2
<1> QED
  BY <1>1, <1>2, <1>3, ClearKeeps DEF HeadFailed, Fail

\* ... or a handler clears it or throws.
LEMMA ApplyClosesKeeps ==
    ASSUME QueueInv, NEW throws \in BOOLEAN, ApplyCloses(throws)
    PROVE  QueueInv'
<1>1. errors \in Nat /\ (errors' = errors \/ errors' = errors + 1) /\ running' = FALSE /\ ClearPending
  BY DEF ApplyCloses, Fail, QueueInv, QueueTyped
<1>2. head \in Queue /\ current' = 0
  BY DEF ApplyCloses, Applicable, HeadReady, applying
<1>3. errors' \in Nat /\ running' \in BOOLEAN
  <2>1. errors' \in Nat
    BY <1>1
  <2>2. running' \in BOOLEAN
    BY <1>1
  <2> QED
    BY <2>1, <2>2
<1> QED
  BY <1>1, <1>2, <1>3, ClearKeeps DEF ApplyCloses
\* The abort signal of a task cancels and releases it.
LEMMA CancelKeeps ==
    ASSUME QueueInv, NEW t \in Tasks, Cancel(t)
    PROVE  QueueInv'
<1>1. QueueTyped /\ Marks /\ DecodersTight /\ Order /\ ReservedBooks
  BY DEF QueueInv
<1>2. /\ t \in Queue /\ t \notin released /\ cancelled' = cancelled \cup {t} /\ ready' = ready \cup {t}
      /\ Release({t}) /\ running' = TRUE
      /\ UNCHANGED <<head, last, nextDecode, decodes, bytes, decoding, failed, current, queueClosed, acc, drains, errors, started>>
  BY DEF Cancel, list
<1>3. t \in 1..last
  BY <1>1, <1>2 DEF QueueTyped, Queue
<1>4. ReservedBooks' /\ released' = released \cup {t}
  BY <1>1, <1>2, ReleaseKeepsBooks
<1>5. Queue' = Queue
  BY <1>2 DEF Queue
<1>6. QueueTyped'
  BY <1>1, <1>2, <1>3, <1>4 DEF QueueTyped, acc
<1>7. Marks'
  BY <1>1, <1>2, <1>4, <1>5 DEF Marks
<1>8. DecodersTight'
  BY <1>1, <1>2, <1>5 DEF DecodersTight
<1>9. Order'
  BY <1>1, <1>2 DEF Order
<1>10. WithinLimit'
  BY <1>2, ReleaseKeepsLimit
<1> QED
  BY <1>4, <1>6, <1>7, <1>8, <1>9, <1>10 DEF QueueInv

\* A decode settles; the freed slot goes to the next frame of an open list.
LEMMA DecodeSettledKeeps ==
    ASSUME QueueInv, NEW t \in Tasks, NEW ok \in BOOLEAN, DecodeSettled(t, ok)
    PROVE  QueueInv'
<1>1. QueueTyped /\ Marks /\ DecodersTight /\ Order /\ ReservedBooks
  BY DEF QueueInv
<1>2. /\ t \in decoding /\ ready' = ready \cup {t} /\ (failed' = failed \/ failed' = failed \cup {t}) /\ running' = TRUE
      /\ UNCHANGED <<head, last, decodes, bytes, cancelled, released, current, queueClosed, pendingFrames, pendingBytes, acc, drains, errors, started>>
  BY DEF DecodeSettled, metrics
<1>3. t \in 1..last
  <2>1. PICK n \in Nat, m \in Nat : n = last /\ m = nextDecode /\ m <= n + 1
    BY <1>1 DEF QueueTyped
  <2> QED
    BY <1>1, <1>2, <2>1 DEF DecodersTight
<1>4. DecodersTight' /\ nextDecode' \in head'..(last' + 1)
  <2>1. CASE queueClosed
    <3>1. decoding' = decoding \ {t} /\ nextDecode' = nextDecode /\ nextDecode = last + 1 /\ Queue = {} /\ Queue' = {}
      <4>1. decoding' = decoding \ {t} /\ nextDecode' = nextDecode
        BY <2>1 DEF DecodeSettled
      <4>2. PICK n \in Nat : n = last
        BY <1>1 DEF QueueTyped
      <4>3. head = n + 1 /\ nextDecode \in head..(n + 1)
        BY <1>1, <2>1, <4>2 DEF Order, QueueTyped
      <4>4. nextDecode = n + 1 /\ head..n = {}
        BY <4>2, <4>3
      <4> QED
        BY <1>2, <4>1, <4>2, <4>4 DEF Queue
    <3>2. Cardinality(decoding') <= MaxParallel
      <4>1. PICK m \in Nat : m = nextDecode - 1
        BY <1>1 DEF QueueTyped
      <4>2. IsFiniteSet(decoding) /\ Cardinality(decoding) \in Nat
        BY <1>1, <4>1, TasksAreFinite DEF DecodersTight
      <4>3. Cardinality(decoding') <= Cardinality(decoding) /\ Cardinality(decoding') \in Nat
        BY <3>1, <4>2, FS_Subset, FS_CardinalityType
      <4> QED
        BY <1>1, <4>2, <4>3, DecodeQueueAssumption DEF DecodersTight
    <3> QED
      BY <1>1, <1>2, <3>1, <3>2 DEF DecodersTight, QueueTyped
  <2>2. CASE ~queueClosed
    <3>1. PICK busy \in SUBSET decoding : busy = decoding \ {t}
      OBVIOUS
    <3>2. Pump(last', decodes', busy, cancelled)
      BY <1>2, <2>2, <3>1 DEF DecodeSettled
    <3>3. last' \in {last, last + 1} /\ decodes' \subseteq 1..last' /\ \A u \in decodes' : u \in decodes \/ u = last + 1
      BY <1>1, <1>2 DEF QueueTyped
    <3>4. ready \subseteq ready' /\ decoding \ busy \subseteq ready'
      BY <1>2, <3>1
    <3> QED
      BY <1>1, <1>2, <3>2, <3>3, <3>4, PumpKeepsSlots
  <2> QED
    BY <2>1, <2>2
<1>5. QueueTyped'
  BY <1>1, <1>2, <1>3, <1>4 DEF QueueTyped, acc
<1>6. Marks'
  BY <1>1, <1>2 DEF Marks, Queue
<1>7. Order'
  BY <1>1, <1>2 DEF Order
<1>8. ReservedBooks'
  BY <1>1, <1>2, BooksStay DEF metrics
<1>9. WithinLimit'
  BY <1>2 DEF QueueInv, WithinLimit, acc
<1> QED
  BY <1>4, <1>5, <1>6, <1>7, <1>8, <1>9 DEF QueueInv

\* A caller waits for the list to drain, or the loop ends and lets the callers go.
LEMMA WaitingKeeps ==
    ASSUME QueueInv, Drain \/ ApplyLoopEnds
    PROVE  QueueInv'
<1>1. QueueTyped /\ Marks /\ DecodersTight /\ Order /\ ReservedBooks /\ WithinLimit
  BY DEF QueueInv
<1>2. /\ drains' \in 0..MaxDrains /\ running' \in BOOLEAN
      /\ UNCHANGED <<head, last, nextDecode, decodes, bytes, decoding, ready, failed, cancelled, released, current, queueClosed,
                     pendingFrames, pendingBytes, accFrames, accBytes, errors, started>>
  <2>1. drains \in 0..MaxDrains /\ MaxDrains \in Nat /\ running \in BOOLEAN
    BY <1>1, DecodeQueueAssumption DEF QueueTyped
  <2>2. CASE Drain
    <3>1. drains < MaxDrains /\ drains' = drains + 1 /\ UNCHANGED running
      BY <2>2 DEF Drain
    <3>2. drains' \in 0..MaxDrains
      BY <2>1, <3>1
    <3> QED
      BY <2>1, <2>2, <3>1, <3>2 DEF Drain, list, flags, metrics, acc
  <2>3. CASE ApplyLoopEnds
    <3>1. drains' = drains \/ drains' = 0
      BY <2>3 DEF ApplyLoopEnds, DrainsAfterLoop
    <3>2. drains' \in 0..MaxDrains
      BY <2>1, <3>1
    <3>3. running' \in BOOLEAN
      BY <2>3 DEF ApplyLoopEnds
    <3> QED
      BY <2>3, <3>2, <3>3 DEF ApplyLoopEnds, list, flags, metrics, acc
  <2> QED
    BY <2>2, <2>3
<1>3. QueueTyped'
  BY <1>1, <1>2 DEF QueueTyped
<1>4. Marks' /\ DecodersTight'
  BY <1>1, <1>2 DEF Marks, DecodersTight, Queue
<1>5. Order'
  BY <1>1, <1>2 DEF Order
<1>6. ReservedBooks' /\ WithinLimit'
  BY <1>1, <1>2 DEF ReservedBooks, ReservationsExact, WithinLimit
<1> QED
  BY <1>3, <1>4, <1>5, <1>6 DEF QueueInv--------------------------------------------------------------------------------
(* The loop of applyReady, and the settling of what it applies.             *)

\* The loop passes over a head that was cancelled.
LEMMA SkipCancelledKeeps ==
    ASSUME QueueInv, SkipCancelled
    PROVE  QueueInv'
<1>1. QueueTyped /\ Marks /\ DecodersTight /\ Order /\ ReservedBooks
  BY DEF QueueInv
<1>2. /\ head \in Queue /\ head \in cancelled /\ current = 0 /\ ~queueClosed /\ head' = head + 1 /\ Release({head})
      /\ nextDecode' = NextDecodeAfterRemoval(nextDecode, head')
      /\ UNCHANGED <<last, decodes, bytes, decoding, ready, failed, cancelled, current, running, queueClosed, acc, drains, errors, started>>
  BY DEF SkipCancelled, HeadReady, applying, Skippable
<1>3. PICK n \in Nat, h \in Nat : n = last /\ h = head /\ h >= 1 /\ h <= n
  BY <1>1, <1>2 DEF QueueTyped, Queue
<1>4. ReservedBooks' /\ released' = released \cup {head}
  BY <1>1, <1>2, ReleaseKeepsBooks
<1>5. DecodersTight' /\ nextDecode' \in head'..(last' + 1)
  <2>1. head' \in {head, head + 1} /\ head' <= last + 1
    BY <1>2, <1>3
  <2> QED
    BY <1>1, <1>2, <2>1, RemovalKeepsSlots
<1>6. QueueTyped'
  <2>1. head' \in 1..(last' + 1) /\ head \in 1..last
    BY <1>2, <1>3
  <2> QED
    BY <1>1, <1>2, <1>4, <1>5, <2>1 DEF QueueTyped, acc
<1>7. \A t \in Queue' : t \in Queue /\ t # head
  BY <1>2, <1>3 DEF Queue
<1>8. Marks'
  BY <1>1, <1>2, <1>4, <1>7 DEF Marks
<1>9. Order'
  <2>1. \A t \in 1..(head' - 1) : t \in 1..(head - 1) \/ t = head
    BY <1>2, <1>3
  <2>2. 1..(head - 1) \subseteq 1..(head' - 1) /\ current' = 0 /\ current' <= head'
    BY <1>2, <1>3
  <2> QED
    BY <1>1, <1>2, <2>1, <2>2 DEF Order
<1>10. WithinLimit'
  BY <1>2, ReleaseKeepsLimit
<1> QED
  BY <1>4, <1>5, <1>6, <1>8, <1>9, <1>10 DEF QueueInv

\* What the loop applies is a head that is neither cancelled nor released, and is ready.
LEMMA WhatIsApplied ==
    ASSUME QueueInv, Applicable
    PROVE  /\ head \in Queue /\ head \in 1..last /\ head \notin cancelled /\ head \notin released
           /\ current = 0 /\ ~queueClosed /\ head \notin started /\ pendingFrames + accFrames <= MaxFrames
<1>1. /\ head \in Queue /\ head \notin cancelled /\ current = 0 /\ ~queueClosed
  BY DEF Applicable, HeadReady, applying
<1>2. head \in 1..last
  BY <1>1 DEF QueueInv, QueueTyped, Queue
<1>3. head \notin released
  BY <1>1 DEF QueueInv, Marks
<1>4. head \notin started
  <2>1. head # 0 /\ head \notin 1..(head - 1)
    BY <1>2
  <2> QED
    BY <1>1, <2>1 DEF QueueInv, Order
<1>5. pendingFrames + accFrames <= MaxFrames
  <2>1. PICK p \in Nat, a \in Nat, m \in Nat : p = pendingFrames /\ a = accFrames /\ m = MaxFrames
    BY DecodeQueueAssumption DEF QueueInv, ReservedBooks, QueueTyped
  <2>2. current \notin decodes \ released
    <3>1. 0 \notin 1..last
      OBVIOUS
    <3> QED
      BY <1>1, <3>1 DEF QueueInv, QueueTyped
  <2>3. p + a <= m + 0
    BY <2>1, <2>2 DEF QueueInv, WithinLimit
  <2>4. p + a <= m
    BY <2>3
  <2> QED
    BY <2>1, <2>4
<1> QED
  BY <1>1, <1>2, <1>3, <1>4, <1>5

\* The owner retains the head, one frame, or nothing.
LEMMA WhatIsRetained ==
    ASSUME QueueInv, Applicable, NEW keep \in BOOLEAN, Accumulate(keep)
    PROVE  /\ accFrames' \in Nat /\ accBytes' \in Nat
           /\ accFrames' = accFrames \/ (head \in HeldTasks /\ accFrames' = accFrames + 1)
<1>1. accFrames \in Nat /\ accBytes \in Nat /\ head \in 1..last /\ head \notin released
  BY WhatIsApplied DEF QueueInv, QueueTyped
<1>2. CASE keep /\ head \in decodes
  <2>1. accFrames' = accFrames + 1 /\ accBytes' = accBytes + bytes[head]
    BY <1>2 DEF Accumulate
  <2>2. PICK b \in Nat : b = bytes[head]
    BY <1>1, HeldFrames DEF QueueInv
  <2>3. accFrames' \in Nat /\ accBytes' \in Nat
    BY <1>1, <2>1, <2>2
  <2> QED
    BY <1>1, <1>2, <2>1, <2>3 DEF HeldTasks
<1>3. CASE ~(keep /\ head \in decodes)
  BY <1>1, <1>3 DEF Accumulate, acc
<1> QED
  BY <1>2, <1>3

\* The apply of the head returns a promise.
LEMMA StartAsyncKeeps ==
    ASSUME QueueInv, NEW keep \in BOOLEAN, StartAsync(keep)
    PROVE  QueueInv'
<1>1. QueueTyped /\ Marks /\ DecodersTight /\ Order /\ ReservedBooks
  BY DEF QueueInv
<1>2. /\ Applicable /\ started' = started \cup {head} /\ current' = head /\ Accumulate(keep) /\ running' = FALSE
      /\ UNCHANGED <<head, last, nextDecode, decodes, bytes, decoding, ready, failed, cancelled, released, queueClosed,
                     pendingFrames, pendingBytes, drains, errors>>
  BY DEF StartAsync, list, flags, metrics
<1>3. /\ head \in Queue /\ head \in 1..last /\ current = 0 /\ pendingFrames + accFrames <= MaxFrames /\ head \notin released /\ ~queueClosed
  BY <1>2, WhatIsApplied
<1>4. accFrames' \in Nat /\ accBytes' \in Nat /\ (accFrames' = accFrames \/ (head \in HeldTasks /\ accFrames' = accFrames + 1))
  BY <1>2, WhatIsRetained
<1>5. QueueTyped'
  <2>1. started' \subseteq 1..last' /\ current' \in 0..last'
    BY <1>1, <1>2, <1>3 DEF QueueTyped
  <2>2. running' \in BOOLEAN
    BY <1>2
  <2> QED
    BY <1>1, <1>2, <1>4, <2>1, <2>2 DEF QueueTyped
<1>6. Marks' /\ DecodersTight' /\ ReservedBooks'
  BY <1>1, <1>2 DEF Marks, DecodersTight, Queue, ReservedBooks, ReservationsExact
<1>7. Order'
  <2>1. head <= last /\ head <= head
    BY <1>1, <1>3 DEF Queue, QueueTyped
  <2>2. 0 \notin started
    <3>1. 0 \notin 1..last
      OBVIOUS
    <3> QED
      BY <1>1, <3>1 DEF QueueTyped
  <2>3. started' \subseteq 1..(head' - 1) \cup {current'}
    BY <1>1, <1>2, <1>3, <2>2 DEF Order
  <2>4. 1..(head' - 1) \subseteq started' \cup cancelled' /\ current' <= head' /\ current' \in started'
    BY <1>1, <1>2, <2>1 DEF Order
  <2> QED
    BY <1>2, <1>3, <2>1, <2>3, <2>4 DEF Order
<1>8. WithinLimit'
  <2>1. PICK p \in Nat, a \in Nat, m \in Nat : p = pendingFrames /\ p = pendingFrames' /\ a = accFrames /\ m = MaxFrames /\ p + a <= m
    BY <1>1, <1>2, <1>3, DecodeQueueAssumption DEF ReservedBooks, QueueTyped
  <2>2. CASE accFrames' = a
    BY <2>1, <2>2, LimitIsKept
  <2>3. CASE head \in HeldTasks /\ accFrames' = a + 1
    <3>1. current' \in decodes' \ released'
      BY <1>2, <2>3 DEF HeldTasks
    <3>2. p + (a + 1) <= m + 1
      BY <2>1, BothMore
    <3> QED
      BY <2>1, <2>3, <3>1, <3>2, DecodeQueueAssumption DEF WithinLimit
  <2> QED
    BY <1>4, <2>1, <2>2, <2>3
<1> QED
  BY <1>5, <1>6, <1>7, <1>8 DEF QueueInv
\* The head leaves the list while another task arrives: the slots are as they were.
LEMMA GrownRemovalKeepsSlots ==
    ASSUME QueueTyped, DecodersTight, head \in Queue, head' = head + 1, last' = last + 1, NEW pumped,
           IF Cardinality(decoding) < MaxParallel THEN pumped = last' + 1 ELSE pumped = nextDecode,
           nextDecode' = NextDecodeAfterRemoval(pumped, head'), UNCHANGED <<decodes, decoding>>, ready \subseteq ready'
    PROVE  DecodersTight' /\ nextDecode' \in head'..(last' + 1)
<1>1. PICK n \in Nat, h \in Nat, next \in Nat :
        /\ n = last /\ h = head /\ next = nextDecode
        /\ h >= 1 /\ h <= next /\ next <= n + 1 /\ h <= n
  BY DEF QueueTyped, Queue
<1>2. CASE Cardinality(decoding) < MaxParallel
  <2>1. pumped = n + 2 /\ next = n + 1
    BY <1>1, <1>2 DEF DecodersTight
  <2>2. nextDecode' = n + 2
    BY <1>1, <2>1 DEF NextDecodeAfterRemoval
  <2>3. decoding' \subseteq 1..(nextDecode' - 1) /\ nextDecode' = last' + 1 /\ nextDecode' \in head'..(last' + 1)
    BY <1>1, <2>2 DEF DecodersTight
  <2>4. ASSUME NEW t \in Queue' \intersect decodes' PROVE t \in ready' \cup decoding'
    <3>1. t \in decodes /\ t \in 1..n /\ h + 1 <= t
      BY <1>1, <2>4 DEF QueueTyped, Queue
    <3>2. t \in Queue /\ t < nextDecode
      BY <1>1, <2>1, <3>1 DEF Queue
    <3> QED
      BY <3>1, <3>2 DEF DecodersTight
  <2> QED
    BY <2>3, <2>4 DEF DecodersTight
<1>3. CASE ~(Cardinality(decoding) < MaxParallel)
  <2>1. pumped = next
    BY <1>1, <1>3
  <2>2. PICK m \in Nat : m = nextDecode' /\ m >= next /\ m >= h + 1 /\ m <= n + 1 /\ (m = next \/ (m = h + 1 /\ next < h + 1))
    BY <1>1, <2>1 DEF NextDecodeAfterRemoval
  <2>3. decoding' \subseteq 1..(nextDecode' - 1) /\ nextDecode' \in head'..(last' + 1)
    BY <1>1, <2>2 DEF DecodersTight
  <2>4. ASSUME NEW t \in Queue' \intersect decodes', t < nextDecode' PROVE t \in ready' \cup decoding'
    <3>1. t \in decodes /\ t \in 1..n /\ h + 1 <= t /\ t < m
      BY <1>1, <2>2, <2>4 DEF QueueTyped, Queue
    <3>2. t \in Queue /\ t < nextDecode
      BY <1>1, <2>2, <3>1 DEF Queue
    <3> QED
      BY <3>1, <3>2 DEF DecodersTight
  <2> QED
    BY <1>3, <2>3, <2>4 DEF DecodersTight
<1> QED
  BY <1>2, <1>3

\* The apply of the head returns at once.
LEMMA ApplySyncKeeps ==
    ASSUME QueueInv, NEW keep \in BOOLEAN, NEW more \in BOOLEAN, ApplySync(keep, more)
    PROVE  QueueInv'
<1>1. QueueTyped /\ Marks /\ DecodersTight /\ Order /\ ReservedBooks
  BY DEF QueueInv
<1>2. /\ Applicable /\ started' = started \cup {head} /\ Accumulate(keep) /\ head' = head + 1
      /\ ready' = ready \cup ((last + 1)..last') /\ Release({head})
      /\ UNCHANGED <<decodes, bytes, decoding, failed, cancelled, current, running, queueClosed, drains, errors>>
  BY DEF ApplySync
<1>3. /\ head \in Queue /\ head \in 1..last /\ current = 0 /\ pendingFrames + accFrames <= MaxFrames /\ head \notin released /\ ~queueClosed
      /\ head \notin cancelled
  BY <1>2, WhatIsApplied
<1>4. accFrames' \in Nat /\ accBytes' \in Nat /\ (accFrames' = accFrames \/ (head \in HeldTasks /\ accFrames' = accFrames + 1))
  BY <1>2, WhatIsRetained
<1>5. ReservedBooks' /\ released' = released \cup {head} /\ pendingFrames' <= pendingFrames /\ (head \in HeldTasks => pendingFrames' < pendingFrames)
  BY <1>1, <1>2, ReleaseKeepsBooks
<1>6. PICK n \in Nat, h \in Nat : n = last /\ h = head /\ h >= 1 /\ h <= n /\ n <= MaxTasks
  BY <1>1, <1>3, DecodeQueueAssumption DEF QueueTyped
<1>7. last' = last \/ (last' = last + 1 /\ last < MaxTasks)
  BY DEF ApplySync
<1>8. ready' = ready \/ ready' = ready \cup {last'}
  <2>1. CASE last' = last
    <3>1. (last + 1)..last' = {}
      BY <1>6, <2>1
    <3> QED
      BY <1>2, <3>1
  <2>2. CASE last' = last + 1
    <3>1. (last + 1)..last' = {last'}
      BY <1>6, <2>2
    <3> QED
      BY <1>2, <3>1
  <2> QED
    BY <1>7, <2>1, <2>2
<1>9. DecodersTight' /\ nextDecode' \in head'..(last' + 1)
  <2>1. CASE more
    <3>1. last' = last + 1
      BY <2>1 DEF ApplySync
    <3>2. PICK pumped : pumped = IF more /\ Cardinality(decoding) < MaxParallel THEN last' + 1 ELSE nextDecode
      OBVIOUS
    <3>3. nextDecode' = NextDecodeAfterRemoval(pumped, head')
      BY <3>2 DEF ApplySync
    <3>4. IF Cardinality(decoding) < MaxParallel THEN pumped = last' + 1 ELSE pumped = nextDecode
      BY <2>1, <3>2
    <3> QED
      BY <1>1, <1>2, <1>3, <3>1, <3>3, <3>4, GrownRemovalKeepsSlots
  <2>2. CASE ~more
    <3>1. last' = last
      BY <2>2 DEF ApplySync
    <3>2. nextDecode' = NextDecodeAfterRemoval(nextDecode, head')
      BY <2>2 DEF ApplySync
    <3>3. head' \in {head, head + 1} /\ head' <= last + 1
      BY <1>2, <1>6
    <3> QED
      BY <1>1, <1>2, <3>1, <3>2, <3>3, RemovalKeepsSlots
  <2> QED
    BY <2>1, <2>2
<1>10. \A S : S \subseteq 1..last => S \subseteq 1..last' /\ S \cup {last'} \subseteq 1..last' /\ S \cup {head} \subseteq 1..last'
  <2>1. \A t \in 1..n : t \in 1..(n + 1)
    OBVIOUS
  <2>2. n \in 1..n /\ n + 1 \in 1..(n + 1)
    BY <1>6
  <2>3. 1..last \subseteq 1..last' /\ last' \in 1..last'
    BY <1>6, <1>7, <2>1, <2>2
  <2> QED
    BY <1>3, <2>3
<1>11. QueueTyped'
  <2>1. last' \in 0..MaxTasks /\ head' \in 1..(last' + 1) /\ current' \in 0..last'
    <3>1. MaxTasks \in Nat
      BY DecodeQueueAssumption
    <3> QED
      BY <1>2, <1>3, <1>6, <1>7, <3>1
  <2>2. /\ decodes' \subseteq 1..last' /\ ready' \subseteq 1..last' /\ failed' \subseteq 1..last'
        /\ cancelled' \subseteq 1..last' /\ released' \subseteq 1..last' /\ started' \subseteq 1..last'
    BY <1>1, <1>2, <1>5, <1>8, <1>10 DEF QueueTyped
  <2> QED
    BY <1>1, <1>2, <1>4, <1>9, <2>1, <2>2 DEF QueueTyped, Tasks
<1>12. Marks'
  <2>1. \A t \in 1..last : t \in Queue' => t \in Queue /\ t # head
    BY <1>2, <1>6 DEF Queue
  <2>2. cancelled \subseteq 1..last /\ released' \subseteq 1..last
    BY <1>1, <1>3, <1>5 DEF QueueTyped
  <2>3. cancelled' \subseteq released' /\ cancelled' \intersect Queue' \subseteq ready'
    BY <1>1, <1>2, <1>5, <2>1, <2>2 DEF Marks
  <2>4. released' \intersect Queue' \subseteq cancelled'
    BY <1>1, <1>2, <1>5, <2>1, <2>2 DEF Marks
  <2> QED
    BY <2>3, <2>4 DEF Marks
<1>13. Order'
  <2>1. \A t \in 1..(head' - 1) : t \in 1..(head - 1) \/ t = head
    BY <1>2, <1>6
  <2>2. 1..(head - 1) \subseteq 1..(head' - 1) /\ head \in 1..(head' - 1) /\ current' = 0 /\ current' <= head' /\ queueClosed' = queueClosed
    BY <1>2, <1>3, <1>6
  <2>3. 0 \notin started
    <3>1. 0 \notin 1..last
      OBVIOUS
    <3> QED
      BY <1>1, <3>1 DEF QueueTyped
  <2> QED
    BY <1>1, <1>2, <1>3, <2>1, <2>2, <2>3 DEF Order
<1>14. WithinLimit'
  <2>1. PICK p \in Nat, a \in Nat, m \in Nat : p = pendingFrames /\ a = accFrames /\ m = MaxFrames /\ p + a <= m
    BY <1>1, <1>3, DecodeQueueAssumption DEF ReservedBooks, QueueTyped
  <2>2. PICK q \in Nat : q = pendingFrames' /\ q <= p /\ (head \in HeldTasks => q < p)
    BY <1>5, <2>1 DEF ReservedBooks
  <2>3. CASE accFrames' = a
    <3>1. q + a <= m
      BY <2>1, <2>2, StillWithin
    <3> QED
      BY <2>1, <2>2, <2>3, <3>1, LimitIsKept
  <2>4. CASE head \in HeldTasks /\ accFrames' = a + 1
    <3>1. q + (a + 1) <= m
      BY <2>1, <2>2, <2>4, OneForOne
    <3> QED
      BY <1>4, <2>1, <2>2, <2>4, <3>1, LimitIsKept
  <2> QED
    BY <1>4, <2>1, <2>3, <2>4
<1> QED
  BY <1>5, <1>9, <1>11, <1>12, <1>13, <1>14 DEF QueueInv
\* The apply promise settles and its task leaves the list, unless the list was cleared.
LEMMA SettledApplyKeeps ==
    ASSUME QueueInv, applying, current' = 0, head' = (IF head = current THEN head + 1 ELSE head),
           nextDecode' = NextDecodeAfterRemoval(nextDecode, head'), running' = TRUE,
           UNCHANGED <<last, decodes, bytes, decoding, ready, failed, cancelled, queueClosed, acc, drains, errors, started>>,
           Release({current}) \/ (current \in cancelled /\ UNCHANGED <<released, metrics>>)
    PROVE  QueueInv'
<1>1. QueueTyped /\ Marks /\ DecodersTight /\ Order /\ ReservedBooks
  BY DEF QueueInv
<1>2. current # 0 /\ current \in started /\ current \in 1..last /\ (current \in cancelled \/ (current = head /\ head <= last))
  BY <1>1 DEF applying, Order, QueueTyped
<1>3. PICK n \in Nat, h \in Nat, c \in Nat : n = last /\ h = head /\ c = current /\ h >= 1 /\ h <= n + 1 /\ c <= h /\ c >= 1 /\ c <= n
  BY <1>1, <1>2 DEF QueueTyped, Order
<1>4. PICK g \in Nat : g = head' /\ (g = h \/ g = h + 1) /\ (g = h + 1 <=> h = c) /\ g <= n + 1
  BY <1>3
<1>5. ReservedBooks' /\ (released' = released \/ released' = released \cup {current})
  <2>1. CASE Release({current})
    BY <1>1, <2>1, ReleaseKeepsBooks
  <2>2. CASE current \in cancelled /\ UNCHANGED <<released, metrics>>
    BY <1>1, <2>2, BooksStay
  <2> QED
    BY <2>1, <2>2
<1>6. DecodersTight' /\ nextDecode' \in head'..(last' + 1)
  <2>1. head' \in {head, head + 1} /\ head' <= last + 1
    BY <1>3, <1>4
  <2> QED
    BY <1>1, <2>1, RemovalKeepsSlots
<1>7. QueueTyped'
  <2>1. head' \in 1..(last' + 1) /\ current' \in 0..last' /\ running' \in BOOLEAN
    BY <1>3, <1>4
  <2>2. released' \subseteq 1..last'
    BY <1>1, <1>2, <1>5 DEF QueueTyped
  <2> QED
    BY <1>1, <1>6, <2>1, <2>2 DEF QueueTyped, acc
<1>8. \A t \in Queue' : t \in Queue /\ t # current
  BY <1>3, <1>4 DEF Queue
<1>9. Marks'
  BY <1>1, <1>5, <1>8 DEF Marks
<1>10. Order'
  <2>1. \A t \in 1..(head' - 1) : t \in 1..(head - 1) \/ t = current
    BY <1>3, <1>4
  <2>2. 1..(head - 1) \subseteq 1..(head' - 1) /\ current \in 1..(head' - 1) /\ current' <= head' /\ (head = last + 1 => head' = last' + 1)
    BY <1>3, <1>4
  <2>3. 1..(head' - 1) \subseteq started' \cup cancelled'
    BY <1>1, <1>2, <2>1 DEF Order
  <2>4. started' \subseteq 1..(head' - 1) \cup {current'}
    BY <1>1, <2>2 DEF Order
  <2> QED
    BY <1>1, <2>2, <2>3, <2>4 DEF Order
<1>11. WithinLimit'
  <2>1. accFrames' = accFrames /\ accFrames' \in Nat
    BY <1>7 DEF acc, QueueTyped
  <2>2. pendingFrames' + accFrames <= MaxFrames
    <3>1. CASE Release({current})
      BY <3>1, LimitAfterRelease
    <3>2. CASE current \in cancelled /\ UNCHANGED <<released, metrics>>
      <4>1. current \notin decodes \ released
        BY <1>1, <3>2 DEF Marks
      <4>2. PICK p \in Nat, a \in Nat, m \in Nat : p = pendingFrames /\ a = accFrames /\ m = MaxFrames /\ p = pendingFrames'
        BY <1>1, <3>2, DecodeQueueAssumption DEF ReservedBooks, QueueTyped, metrics
      <4>3. p + a <= m + 0
        BY <4>1, <4>2 DEF QueueInv, WithinLimit
      <4>4. p + a <= m
        BY <4>3
      <4> QED
        BY <4>2, <4>4
    <3> QED
      BY <3>1, <3>2
  <2> QED
    BY <1>5, <2>1, <2>2, LimitIsKept DEF ReservedBooks
<1> QED
  BY <1>5, <1>6, <1>7, <1>9, <1>10, <1>11 DEF QueueInv

\* The apply promise resolves or rejects.
LEMMA ApplySettledKeeps ==
    ASSUME QueueInv, ApplyResolved \/ ApplyRejected
    PROVE  QueueInv'
<1>1. CASE ApplyResolved
  BY <1>1, SettledApplyKeeps DEF ApplyResolved
<1>2. CASE ApplyRejected /\ current \in cancelled
  <2>1. /\ applying /\ current' = 0 /\ head' = (IF head = current THEN head + 1 ELSE head) /\ running' = TRUE
        /\ nextDecode' = NextDecodeAfterRemoval(nextDecode, head')
        /\ UNCHANGED <<cancelled, released, queueClosed, metrics, drains, errors, last, decodes, bytes, decoding, ready, failed, acc, started>>
    BY <1>2 DEF ApplyRejected, SwallowRejection
  <2> QED
    BY <1>2, <2>1, SettledApplyKeeps
<1>3. CASE ApplyRejected /\ current \notin cancelled
  <2>1. /\ current' = 0 /\ Fail /\ UNCHANGED running
        /\ UNCHANGED <<last, decodes, bytes, decoding, ready, failed, acc, started>>
    BY <1>3 DEF ApplyRejected, SwallowRejection
  <2>2. errors' \in Nat /\ running' \in BOOLEAN
    BY <2>1 DEF Fail, QueueInv, QueueTyped
  <2> QED
    BY <2>1, <2>2, ClearKeeps DEF Fail
<1> QED
  BY <1>1, <1>2, <1>3

\* Before anything arrived.
LEMMA QueueInvInit == QueueInit => QueueInv
<1> SUFFICES ASSUME QueueInit PROVE QueueInv
  OBVIOUS
<1>1. MaxTasks \in Nat /\ MaxParallel \in Nat /\ MaxParallel > 0 /\ MaxFrames \in Nat /\ MaxDrains \in Nat
  BY DecodeQueueAssumption
<1>2. QueueTyped
  <2>1. last \in 0..MaxTasks /\ head \in 1..(last + 1) /\ nextDecode \in head..(last + 1) /\ current \in 0..last /\ drains \in 0..MaxDrains
    BY <1>1 DEF QueueInit
  <2>2. bytes \in [Tasks -> Nat]
    BY DEF QueueInit
  <2> QED
    BY <2>1, <2>2 DEF QueueInit, QueueTyped
<1>3. Queue = {}
  BY DEF QueueInit, Queue
<1>4. Marks
  BY <1>3 DEF QueueInit, Marks
<1>5. Cardinality({}) = 0
  BY FS_EmptySet
<1>6. DecodersTight
  <2>1. decoding = {} /\ nextDecode = last + 1
    BY DEF QueueInit
  <2> QED
    BY <1>1, <1>3, <1>5, <2>1 DEF DecodersTight
<1>7. Order
  <2>1. head = 1 /\ last = 0 /\ current = 0 /\ started = {} /\ queueClosed = FALSE
    BY DEF QueueInit
  <2>2. 1..(head - 1) = {}
    BY <2>1
  <2> QED
    BY <2>1, <2>2 DEF Order
<1>8. ReservedBooks
  <2>1. decodes \ released = {} /\ pendingFrames = 0 /\ pendingBytes = 0
    BY DEF QueueInit
  <2>2. SumFunctionOnSet(bytes, {}) = 0
    BY SumEmpty
  <2> QED
    BY <1>5, <2>1, <2>2 DEF ReservedBooks, ReservationsExact
<1>9. WithinLimit
  <2>1. pendingFrames = 0 /\ accFrames = 0 /\ current \notin decodes \ released
    BY DEF QueueInit
  <2>2. 0 + 0 <= MaxFrames + 0
    BY <1>1
  <2> QED
    BY <2>1, <2>2 DEF WithinLimit
<1> QED
  BY <1>2, <1>4, <1>6, <1>7, <1>8, <1>9 DEF QueueInv

\* Every step keeps the accounts, the slots and the order.
LEMMA QueueInvStep == QueueInv /\ [QueueNext]_queueVars => QueueInv'
<1> SUFFICES ASSUME QueueInv, [QueueNext]_queueVars PROVE QueueInv'
  OBVIOUS
<1>1. CASE EnqueueOrdered
  BY <1>1, EnqueueOrderedKeeps
<1>2. ASSUME NEW b \in ByteSizes, EnqueueDecode(b) PROVE QueueInv'
  BY <1>2, EnqueueDecodeKeeps
<1>3. CASE Clear \/ \E b \in ByteSizes : EnqueueOverLimit(b)
  BY <1>3, ClearingKeeps
<1>4. ASSUME NEW t \in Tasks, Cancel(t) PROVE QueueInv'
  BY <1>4, CancelKeeps
<1>5. ASSUME NEW t \in Tasks, NEW ok \in BOOLEAN, DecodeSettled(t, ok) PROVE QueueInv'
  BY <1>5, DecodeSettledKeeps
<1>6. CASE Drain \/ ApplyLoopEnds
  BY <1>6, WaitingKeeps
<1>7. CASE SkipCancelled
  BY <1>7, SkipCancelledKeeps
<1>8. CASE HeadFailed
  BY <1>8, HeadFailedKeeps
<1>9. ASSUME NEW keep \in BOOLEAN, StartAsync(keep) PROVE QueueInv'
  BY <1>9, StartAsyncKeeps
<1>10. ASSUME NEW keep \in BOOLEAN, NEW more \in BOOLEAN, ApplySync(keep, more) PROVE QueueInv'
  BY <1>10, ApplySyncKeeps
<1>11. ASSUME NEW throws \in BOOLEAN, ApplyCloses(throws) PROVE QueueInv'
  BY <1>11, ApplyClosesKeeps
<1>12. CASE ApplyResolved \/ ApplyRejected
  BY <1>12, ApplySettledKeeps
<1>13. CASE UNCHANGED queueVars
  <2>1. UNCHANGED <<head, last, nextDecode, decodes, bytes, decoding, ready, failed, cancelled, released, current, running, queueClosed,
                    pendingFrames, pendingBytes, accFrames, accBytes, drains, errors, started>>
    BY <1>13 DEF queueVars, list, flags, metrics, acc
  <2>2. QueueTyped' /\ Marks' /\ DecodersTight'
    BY <2>1 DEF QueueInv, QueueTyped, Marks, DecodersTight, Queue
  <2>3. Order' /\ ReservedBooks' /\ WithinLimit'
    BY <2>1 DEF QueueInv, Order, ReservedBooks, ReservationsExact, WithinLimit
  <2> QED
    BY <2>2, <2>3 DEF QueueInv
<1> QED
  BY <1>1, <1>2, <1>3, <1>4, <1>5, <1>6, <1>7, <1>8, <1>9, <1>10, <1>11, <1>12, <1>13 DEF QueueNext, ApplyLoop

\* What the queue accounts for, by the invariant.
LEMMA WhatIsAccounted == QueueInv => Accounting
<1> SUFFICES ASSUME QueueInv PROVE Accounting
  OBVIOUS
<1>1. QueueTyped /\ DecodersTight /\ ReservedBooks /\ Order
  BY DEF QueueInv
<1>2. QueueTypeOK
  <2>1. PICK n \in Nat : n = last /\ n <= MaxTasks
    BY <1>1, DecodeQueueAssumption DEF QueueTyped
  <2>2. MaxTasks \in Nat
    BY DecodeQueueAssumption
  <2>3. PICK h \in Nat, next \in Nat, c \in Nat : h = head /\ next = nextDecode /\ c = current /\ h >= 1 /\ h <= next /\ next <= n + 1 /\ c <= n
    BY <1>1, <2>1 DEF QueueTyped
  <2>4. head \in 1..(MaxTasks + 1) /\ last \in 0..MaxTasks /\ nextDecode \in 1..(MaxTasks + 1) /\ current \in 0..MaxTasks
    BY <2>1, <2>2, <2>3
  <2>5. 1..last \subseteq Tasks /\ \A t \in 1..(nextDecode - 1) : t \in 1..last
    BY <2>1, <2>2, <2>3 DEF Tasks
  <2>6. /\ decodes \subseteq Tasks /\ decoding \subseteq Tasks /\ ready \subseteq Tasks /\ failed \subseteq Tasks
        /\ cancelled \subseteq Tasks /\ released \subseteq Tasks /\ started \subseteq Tasks
    BY <1>1, <2>5 DEF QueueTyped, DecodersTight
  <2> QED
    BY <1>1, <2>4, <2>6 DEF QueueTyped, ReservedBooks, QueueTypeOK
<1>3. DecodersBusy
  <2>1. ASSUME NEW t \in (Queue \cap decodes) \ (ready \cup decoding), Cardinality(decoding) # MaxParallel PROVE FALSE
    <3>1. PICK n \in Nat : n = last
      BY <1>1 DEF QueueTyped
    <3>2. t \in 1..n
      BY <1>1, <2>1, <3>1 DEF QueueTyped
    <3>3. Cardinality(decoding) < MaxParallel
      <4>1. PICK m \in Nat : m = nextDecode - 1
        BY <1>1 DEF QueueTyped
      <4>2. Cardinality(decoding) \in Nat
        BY <1>1, <4>1, TasksAreFinite DEF DecodersTight
      <4> QED
        BY <1>1, <2>1, <4>2, DecodeQueueAssumption DEF DecodersTight
    <3>4. nextDecode = last + 1
      BY <1>1, <3>3 DEF DecodersTight
    <3>5. t < nextDecode
      BY <3>1, <3>4, <3>2
    <3> QED
      BY <1>1, <3>5 DEF DecodersTight
  <2> QED
    BY <1>1, <2>1 DEF DecodersBusy, DecodersTight
<1> QED
  BY <1>1, <1>2, <1>3 DEF QueueInv, Accounting, ReservedBooks

\* The reservations and the limits of the queue are exact and no decoder idles while a frame
\* waits, under every interleaving of arrivals, decodes, applies, cancellations and clears.
THEOREM AccountsAreKept == QueueSpec => []Accounting
<1>1. QueueSpec => []QueueInv
  BY QueueInvInit, QueueInvStep, PTL DEF QueueSpec
<1> QED
  BY <1>1, WhatIsAccounted, PTL--------------------------------------------------------------------------------
(* The ordered hand-over.                                                   *)

\* How the queue accounts for a task: started, cancelled or neither.
LEMMA OutcomeOf ==
    ASSUME QueueInv
    PROVE  /\ Abstract!Pending = Queue \ (started \cup cancelled)
           /\ Abstract!Pending \subseteq Tasks /\ Queue \subseteq 1..last /\ 1..last \subseteq Tasks
           /\ \A t \in Queue : t \in started => t = current
<1>1. PICK n \in Nat, h \in Nat : n = last /\ h = head /\ h >= 1 /\ n <= MaxTasks /\ MaxTasks \in Nat
  BY DecodeQueueAssumption DEF QueueInv, QueueTyped
<1>2. 1..last \subseteq Tasks
  BY <1>1 DEF Tasks
<1>3. Queue \subseteq 1..last
  BY <1>1 DEF Queue
<1>4. \A t \in 1..last : t \in Abstract!Pending <=> t \notin started /\ t \notin cancelled
  BY <1>2 DEF Abstract!Pending
<1>5. \A t \in 1..last : t \in 1..(head - 1) \/ t \in Queue
  BY <1>1 DEF Queue
<1>6. \A t \in Queue : t \notin 1..(head - 1)
  BY <1>1 DEF Queue
<1>7. Abstract!Pending \subseteq 1..last
  BY DEF Abstract!Pending
<1>8. Abstract!Pending = Queue \ (started \cup cancelled)
  BY <1>3, <1>4, <1>5, <1>7 DEF QueueInv, Order
<1>9. \A t \in Queue : t \in started => t = current
  BY <1>6 DEF QueueInv, Order
<1> QED
  BY <1>2, <1>3, <1>7, <1>8, <1>9

\* The steps that OrderedDelivery does not see.
LEMMA Unseen ==
    ASSUME UNCHANGED <<last, started, cancelled, current, queueClosed>>
    PROVE  UNCHANGED Abstract!vars
BY DEF Abstract!vars

\* A task arrives.
LEMMA SubmitIs ==
    ASSUME ~queueClosed, last < MaxTasks, last' = last + 1, UNCHANGED <<started, cancelled, current, queueClosed>>
    PROVE  Abstract!Next
<1>1. Abstract!Submit
  BY DEF Abstract!Submit
<1> QED
  BY <1>1 DEF Abstract!Next

\* A task that was not started is dropped when it is cancelled.
LEMMA DropIs ==
    ASSUME QueueInv, NEW t \in Queue, cancelled' = cancelled \cup {t}, UNCHANGED <<last, started, current, queueClosed>>
    PROVE  Abstract!Next \/ UNCHANGED Abstract!vars
<1>1. t \in Tasks
  BY OutcomeOf
<1>2. CASE t \in started \/ t \in cancelled
  BY <1>1, <1>2 DEF Abstract!vars
<1>3. CASE t \notin started /\ t \notin cancelled
  <2>1. t \in Abstract!Pending
    BY <1>3, OutcomeOf
  <2>2. PICK old : old = [u \in Tasks |-> IF u \in started THEN "delivered" ELSE IF u \in cancelled THEN "dropped" ELSE "pending"]
    OBVIOUS
  <2>3. PICK new : new = [u \in Tasks |-> IF u \in started THEN "delivered" ELSE IF u \in cancelled' THEN "dropped" ELSE "pending"]
    OBVIOUS
  <2>4. new = [old EXCEPT ![t] = "dropped"]
    <3>1. new[t] = "dropped"
      BY <1>1, <1>3, <2>3
    <3>2. \A u \in Tasks : u # t => new[u] = old[u]
      BY <2>2, <2>3
    <3> QED
      BY <1>1, <2>2, <2>3, <3>1, <3>2
  <2>5. Abstract!Drop(t)
    BY <2>1, <2>2, <2>3, <2>4 DEF Abstract!Drop
  <2> QED
    BY <1>1, <2>5 DEF Abstract!Next, Abstract!Items, Tasks
<1> QED
  BY <1>2, <1>3

\* The oldest pending task is handed over.
LEMMA OldestPending ==
    ASSUME QueueInv, Applicable
    PROVE  head \in Abstract!Pending /\ head \in Tasks /\ \A u \in Abstract!Pending : head <= u
<1>1. head \in Queue /\ head \notin started /\ head \notin cancelled
  BY WhatIsApplied
<1>2. \A u \in Queue : head <= u
  BY DEF Queue, QueueInv, QueueTyped
<1> QED
  BY <1>1, <1>2, OutcomeOf

\* The head is handed over, to a handler that is left pending or that returns at once.
LEMMA DeliverIs ==
    ASSUME QueueInv, Applicable, started' = started \cup {head}, UNCHANGED <<cancelled, queueClosed>>,
           \/ (current' = head /\ UNCHANGED last)
           \/ (current' = current /\ (last' = last \/ (last' = last + 1 /\ last < MaxTasks)))
    PROVE  Abstract!Next
<1>1. head \in Abstract!Pending /\ head \in Tasks /\ \A u \in Abstract!Pending : head <= u
  BY OldestPending
<1>2. current = 0 /\ ~queueClosed
  BY WhatIsApplied
<1>3. PICK old : old = [u \in Tasks |-> IF u \in started THEN "delivered" ELSE IF u \in cancelled THEN "dropped" ELSE "pending"]
  OBVIOUS
<1>4. PICK new : new = [u \in Tasks |-> IF u \in started' THEN "delivered" ELSE IF u \in cancelled' THEN "dropped" ELSE "pending"]
  OBVIOUS
<1>5. new = [old EXCEPT ![head] = "delivered"]
  <2>1. new[head] = "delivered"
    BY <1>1, <1>4
  <2>2. \A u \in Tasks : u # head => new[u] = old[u]
    BY <1>3, <1>4
  <2> QED
    BY <1>1, <1>3, <1>4, <2>1, <2>2
<1>6. (current' = head /\ UNCHANGED last) \/ (current' = 0 /\ last' \in {last, last + 1} \cap (0..MaxTasks))
  <2>1. last \in 0..MaxTasks /\ MaxTasks \in Nat
    BY DecodeQueueAssumption DEF QueueInv, QueueTyped
  <2> QED
    BY <1>2, <2>1
<1>7. PICK t \in Tasks : t = head
  BY <1>1
<1>8. Abstract!Deliver(t)
  BY <1>1, <1>2, <1>3, <1>4, <1>5, <1>7, <1>6 DEF Abstract!Deliver
<1>9. t \in Abstract!Items
  BY DEF Abstract!Items, Tasks
<1> QED
  BY <1>8, <1>9 DEF Abstract!Next

\* The head is handed over to a handler that closes the queue, or that throws.
LEMMA DeliverAndCloseIs ==
    ASSUME QueueInv, Applicable, started' = started \cup {head}, ClearPending, UNCHANGED <<last, current>>
    PROVE  Abstract!Next
<1>1. head \in Abstract!Pending /\ head \in Tasks /\ \A u \in Abstract!Pending : head <= u
  BY OldestPending
<1>2. current = 0 /\ ~queueClosed /\ cancelled' = cancelled \cup Queue /\ queueClosed' = TRUE
  BY WhatIsApplied DEF ClearPending, ClosedOnClear
<1>3. PICK old : old = [u \in Tasks |-> IF u \in started THEN "delivered" ELSE IF u \in cancelled THEN "dropped" ELSE "pending"]
  OBVIOUS
<1>4. PICK new : new = [u \in Tasks |-> IF u \in started' THEN "delivered" ELSE IF u \in cancelled' THEN "dropped" ELSE "pending"]
  OBVIOUS
<1>5. PICK pending : pending = Abstract!Pending /\ pending = Queue \ (started \cup cancelled)
  BY OutcomeOf
<1>6. new = [u \in Tasks |-> IF u = head THEN "delivered" ELSE IF u \in pending THEN "dropped" ELSE old[u]]
  <2>1. \A u \in Tasks : new[u] = IF u = head THEN "delivered" ELSE IF u \in pending THEN "dropped" ELSE old[u]
    <3> TAKE u \in Tasks
    <3>1. CASE u = head
      BY <1>4, <3>1
    <3>2. CASE u # head /\ u \in pending
      BY <1>2, <1>4, <1>5, <3>2
    <3>3. CASE u # head /\ u \notin pending
      <4>1. u \in Queue => u \in started \/ u \in cancelled
        BY <1>5, <3>3
      <4> QED
        BY <1>2, <1>3, <1>4, <3>3, <4>1
    <3> QED
      BY <3>1, <3>2, <3>3
  <2> QED
    BY <1>4, <2>1
<1>7. PICK t \in Tasks : t = head
  BY <1>1
<1>8. Abstract!DeliverAndClose(t)
  BY <1>1, <1>2, <1>3, <1>4, <1>5, <1>7, <1>6 DEF Abstract!DeliverAndClose, Abstract!Items, Tasks
<1>9. t \in Abstract!Items
  BY DEF Abstract!Items, Tasks
<1> QED
  BY <1>8, <1>9 DEF Abstract!Next

\* The queue closes.
LEMMA CloseIs ==
    ASSUME QueueInv, ~queueClosed, ClearPending, UNCHANGED <<last, started>>, current' \in {current, 0}
    PROVE  Abstract!Next
<1>1. cancelled' = cancelled \cup Queue /\ queueClosed' = TRUE
  BY DEF ClearPending, ClosedOnClear
<1>2. PICK old : old = [u \in Tasks |-> IF u \in started THEN "delivered" ELSE IF u \in cancelled THEN "dropped" ELSE "pending"]
  OBVIOUS
<1>3. PICK new : new = [u \in Tasks |-> IF u \in started' THEN "delivered" ELSE IF u \in cancelled' THEN "dropped" ELSE "pending"]
  OBVIOUS
<1>4. PICK pending : pending = Abstract!Pending /\ pending = Queue \ (started \cup cancelled)
  BY OutcomeOf
<1>5. new = [u \in Tasks |-> IF u \in pending THEN "dropped" ELSE old[u]]
  <2>1. \A u \in Tasks : new[u] = IF u \in pending THEN "dropped" ELSE old[u]
    <3> TAKE u \in Tasks
    <3>1. CASE u \in pending
      BY <1>1, <1>3, <1>4, <3>1
    <3>2. CASE u \notin pending
      <4>1. u \in Queue => u \in started \/ u \in cancelled
        BY <1>4, <3>2
      <4> QED
        BY <1>1, <1>2, <1>3, <3>2, <4>1
    <3> QED
      BY <3>1, <3>2
  <2> QED
    BY <1>3, <2>1
<1>6. Abstract!Close
  BY <1>1, <1>2, <1>3, <1>4, <1>5 DEF Abstract!Close, Abstract!Items, Tasks
<1> QED
  BY <1>6 DEF Abstract!Next

\* The handler that was left pending is done.
LEMMA FinishIs ==
    ASSUME current # 0, current' = 0, UNCHANGED <<last, started, cancelled, queueClosed>>
    PROVE  Abstract!Next
<1>1. Abstract!Finish
  BY DEF Abstract!Finish
<1> QED
  BY <1>1 DEF Abstract!Next

\* Every step of the queue is a step of OrderedDelivery, or none.
LEMMA EveryStepDelivers ==
    ASSUME QueueInv, [QueueNext]_queueVars
    PROVE  Abstract!Next \/ UNCHANGED Abstract!vars
<1>1. CASE EnqueueOrdered
  BY <1>1, SubmitIs DEF EnqueueOrdered
<1>2. ASSUME NEW b \in ByteSizes, EnqueueDecode(b) PROVE Abstract!Next
  BY <1>2, SubmitIs DEF EnqueueDecode, flags
<1>3. ASSUME NEW b \in ByteSizes, EnqueueOverLimit(b) PROVE Abstract!Next
  BY <1>3, CloseIs DEF EnqueueOverLimit, Fail
<1>4. CASE Clear
  BY <1>4, CloseIs DEF Clear
<1>5. ASSUME NEW t \in Tasks, Cancel(t) PROVE Abstract!Next \/ UNCHANGED Abstract!vars
  BY <1>5, DropIs DEF Cancel, list
<1>6. ASSUME NEW t \in Tasks, NEW ok \in BOOLEAN, DecodeSettled(t, ok) PROVE UNCHANGED Abstract!vars
  BY <1>6, Unseen DEF DecodeSettled
<1>7. CASE Drain \/ ApplyLoopEnds
  BY <1>7, Unseen DEF Drain, ApplyLoopEnds, list, flags
<1>8. CASE SkipCancelled
  BY <1>8, Unseen DEF SkipCancelled
<1>9. CASE HeadFailed
  BY <1>9, CloseIs DEF HeadFailed, HeadReady, Fail
<1>10. ASSUME NEW keep \in BOOLEAN, StartAsync(keep) PROVE Abstract!Next
  BY <1>10, DeliverIs DEF StartAsync, list, flags
<1>11. ASSUME NEW keep \in BOOLEAN, NEW more \in BOOLEAN, ApplySync(keep, more) PROVE Abstract!Next
  BY <1>11, DeliverIs DEF ApplySync
<1>12. ASSUME NEW throws \in BOOLEAN, ApplyCloses(throws) PROVE Abstract!Next
  BY <1>12, DeliverAndCloseIs DEF ApplyCloses, Fail
<1>13. CASE ApplyResolved
  BY <1>13, FinishIs DEF ApplyResolved, applying
<1>14. CASE ApplyRejected /\ current \in cancelled
  BY <1>14, FinishIs DEF ApplyRejected, SwallowRejection, applying
<1>15. CASE ApplyRejected /\ current \notin cancelled
  <2>1. Fail /\ current # 0 /\ current' = 0 /\ UNCHANGED <<last, started>>
    BY <1>15 DEF ApplyRejected, SwallowRejection, applying
  <2>2. ~queueClosed
    <3>1. current = head /\ head <= last
      BY <1>15, <2>1 DEF QueueInv, Order
    <3>2. head # last + 1
      BY <3>1 DEF QueueInv, QueueTyped
    <3> QED
      BY <3>2 DEF QueueInv, Order
  <2> QED
    BY <2>1, <2>2, CloseIs DEF Fail
<1>16. CASE UNCHANGED queueVars
  BY <1>16, Unseen DEF queueVars, list, flags
<1> QED
  BY <1>1, <1>2, <1>3, <1>4, <1>5, <1>6, <1>7, <1>8, <1>9, <1>10, <1>11, <1>12, <1>13, <1>14, <1>15, <1>16 DEF QueueNext, ApplyLoop

\* The queue implements the ordered hand-over its callers rely on: one task at a time, in the
\* order of arrival, none skipped that was not dropped, none after it closed.
THEOREM OrderIsKept == QueueSpec => DeliversInOrder
<1>1. QueueInit => Abstract!Init
  BY DEF QueueInit, Abstract!Init, Abstract!Items, Tasks
<1>2. QueueInv /\ [QueueNext]_queueVars => [Abstract!Next]_(Abstract!vars)
  BY EveryStepDelivers
<1>3. QueueSpec => []QueueInv
  BY QueueInvInit, QueueInvStep, PTL DEF QueueSpec
<1> QED
  BY <1>1, <1>2, <1>3, PTL DEF QueueSpec, DeliversInOrder, Abstract!Spec

--------------------------------------------------------------------------------
(* The dispatcher.                                                         *)

QItem == [e : Events, owner : Slots \cup {None}, item : ClientIds \cup {None}, skip : BOOLEAN]
Stray == [about : SUBSET ClientIds, charged : BOOLEAN, alone : BOOLEAN]

Typed ==
    /\ op \in [Slots -> Operation] /\ idle \in Seq(Slots)
    /\ requests \in [AllIds -> Slots \cup {None}] /\ retired \subseteq AllIds
    /\ handle \in [Commands -> [slot : Slots, gen : Nat] \cup {None}]
    /\ queue \in Seq(QItem)
    /\ account \in [reserved : Int, retained : Int, budget : Int]
    /\ closed \in Reasons \cup {None}
    /\ life \in [Commands -> {"new", "open", "done", "refused"}]
    /\ traffic \in [sent : Nat, loose : Nat]
    /\ history \in [forgotten : SUBSET AllIds, strays : [Commands -> SUBSET Stray]]

\* The pool: what is idle serves nobody, and what serves nobody is blank.
Pools ==
    /\ \A n, m \in DOMAIN idle : n # m => idle[n] # idle[m]
    /\ \A n \in DOMAIN idle : ~op[idle[n]].live
    /\ IsFiniteSet(Live)
    /\ \A s \in Slots : op[s].live => op[s].gen > 0 /\ None \notin op[s].convs
    /\ \A s \in Slots : ~op[s].live => op[s] = [Blank EXCEPT !.gen = op[s].gen]

\* A handle is of one command, which is open as long as it is served.
Handles ==
    /\ \A c \in Commands : handle[c] # None => handle[c].gen <= op[handle[c].slot].gen
    /\ \A c, d \in Commands : c # d /\ handle[c] = handle[d] => handle[c] = None
    /\ \A s \in Live : \E c \in Commands : Serves(s, c)
    /\ \A s \in Slots, c \in Commands : Serves(s, c) => life[c] = "open"
    /\ \A c \in Commands : life[c] = "open" => handle[c] # None /\ Serves(handle[c].slot, c)

\* What an id is registered to lives and knows it, and an open command has all its ids.
Registered ==
    /\ \A i \in AllIds : requests[i] # None =>
          op[requests[i]].live /\ i \in op[requests[i]].ids
    /\ \A s \in Slots, c \in Commands : Serves(s, c) => \A i \in Requests[c] : requests[i] = s

\* An event of a command that the hub got: only of such commands are there any.
Told(e) == \E c \in Commands : e \in About(c) /\ life[c] \in {"open", "done"}

\* What is being decoded, and whom it was reserved from.
Queued ==
    /\ closed # None => queue = <<>>
    /\ \A n \in DOMAIN queue :
          /\ queue[n].e.kind \in DataKinds /\ Told(queue[n].e)
          /\ queue[n].skip => queue[n].owner = None
          /\ queue[n].owner # None => \E i \in queue[n].e.head : requests[i] = queue[n].owner

\* The weights of the events being decoded: all, those of an operation, those of none.
PendingW(q) == [n \in DOMAIN q |-> IF q[n].skip THEN 0 ELSE Size(q[n].e)]
HeldBy(x, s) == x.owner = s /\ Retained(x.e)
HeldW(q, s) == [n \in DOMAIN q |-> IF HeldBy(q[n], s) THEN Size(q[n].e) ELSE 0]
Held(x) == x.owner # None /\ Retained(x.e)
UnheldW(q) == [n \in DOMAIN q |-> IF q[n].skip \/ Held(q[n]) THEN 0 ELSE Size(q[n].e)]
SumW(f, q) == SumFunctionOnSet(f, DOMAIN q)

\* The functions that the accounts of the connection add up.
BytesW(p) == [s \in Slots |-> p[s].bytes]
BudgetW(p) == [s \in Slots |-> Limit * p[s].count]

Books ==
    /\ closed = None =>
          /\ account.reserved = SumW(PendingW(queue), queue)
          /\ \A s \in Slots : op[s].pending = SumW(HeldW(queue, s), queue)
    /\ account.retained = SumFunctionOnSet(BytesW(op), Live)
    /\ account.budget = Reserve + SumFunctionOnSet(BudgetW(op), Live)

\* By how much a command is over its limit: only by bytes it was not charged for on arrival.
Over(o) == o.bytes + o.pending - Limit * o.count
Excess(o) == IF Over(o) > 0 THEN Over(o) ELSE 0
ExcessW(p) == [s \in Slots |-> Excess(p[s])]
LooseKnown ==
    /\ closed = None =>
          SumFunctionOnSet(ExcessW(op), Live) + SumW(UnheldW(queue), queue) <= traffic.loose
    /\ closed = "budget" => traffic.loose > Reserve

\* The ids of one command and the hub's for them.
Own(c) == Requests[c] \cup {HubId[i] : i \in Requests[c]}

\* An operation knows ids of another command only when these were forgotten; what is done
\* is retired or forgotten as a whole.
Homes ==
    /\ \A s \in Slots, c, d \in Commands : Serves(s, c) /\ c # d /\ op[s].ids \cap Own(d) # {}
          => Requests[d] \subseteq history.forgotten
    /\ \A c \in Commands : life[c] = "done" =>
          Requests[c] \subseteq retired \/ Requests[c] \subseteq history.forgotten

DispatcherInv ==
    Typed /\ Pools /\ Handles /\ Registered /\ Queued /\ Books /\ LooseKnown /\ Homes /\ RoutedHome--------------------------------------------------------------------------------
(* Events.                                                                   *)

\* The assumptions on the constants, one by one.
LEMMA Constants ==
    /\ Requests \in [Commands -> SUBSET ClientIds] /\ \A c \in Commands : IsFiniteSet(Requests[c])
    /\ \A c, d \in Commands : c # d => Requests[c] \cap Requests[d] = {}
    /\ HubId \in [ClientIds -> HubIds] /\ (\A i, j \in ClientIds : HubId[i] = HubId[j] => i = j)
    /\ ClientIds \cap HubIds = {} /\ Slots \subseteq Nat \ {0} /\ Slots # {}
    /\ AgentOf \in [Commands -> Agents \cup {None}]
    /\ None \notin Agents /\ None \notin ClientIds /\ None \notin Slots
    /\ None \notin Reasons /\ None \notin [slot : Slots, gen : Nat]
    /\ SizeOf \in [DataKinds -> Nat] /\ Limit \in Nat \ {0} /\ Reserve \in Nat
    /\ PoolSize \in Nat /\ MaxEvents \in Nat
<1>1. \A i, j \in ClientIds : HubId[i] = HubId[j] => i = j
  BY DispatcherAssumption DEF IsInjective
<1>2. Reserve \in Nat /\ PoolSize \in Nat /\ MaxEvents \in Nat
  BY DispatcherAssumption
<1> QED
  BY <1>1, <1>2, DispatcherAssumption DEF DataKinds

\* The ids of commands are apart, those of the hub for them too.
LEMMA OwnApart == \A c, d \in Commands : c # d => Own(c) \cap Own(d) = {}
<1> SUFFICES ASSUME NEW c \in Commands, NEW d \in Commands, c # d, NEW j \in Own(c), j \in Own(d)
             PROVE  FALSE
  OBVIOUS
<1>1. Requests[c] \subseteq ClientIds /\ Requests[d] \subseteq ClientIds
      /\ Requests[c] \cap Requests[d] = {}
  BY Constants
<1>2. ASSUME NEW i \in ClientIds PROVE HubId[i] \in HubIds /\ HubId[i] \notin ClientIds
  BY Constants
<1>3. CASE j \in Requests[c]
  BY <1>1, <1>2, <1>3 DEF Own
<1>4. CASE j \notin Requests[c]
  <2>1. PICK i \in Requests[c] : j = HubId[i]
    BY <1>4 DEF Own
  <2>2. j \notin ClientIds
    BY <1>1, <1>2, <2>1
  <2>3. PICK k \in Requests[d] : j = HubId[k]
    BY <1>1, <2>2 DEF Own
  <2>4. i = k
    BY <1>1, <2>1, <2>3, Constants
  <2> QED
    BY <1>1, <2>4
<1> QED
  BY <1>3, <1>4

\* What the events about a command look like.
LEMMA EventForms ==
    ASSUME NEW c \in Commands, NEW e \in About(c)
    PROVE  /\ e \in Events /\ e.about \subseteq Requests[c] /\ Ids(e) \subseteq Own(c)
           /\ e.head \subseteq AllIds /\ e.body \subseteq AllIds
           /\ e.conv \in Agents \cup {None}
           /\ \/ e.kind = "accepted" /\ e.about \subseteq e.head /\ e.about \in SUBSET ClientIds
              \/ e.kind \in DataKinds /\ e.conv = None /\ e.about # {}
              \/ e.kind = "started" /\ e.about = {} /\ Ids(e) = {}
<1>0. /\ Requests[c] \in SUBSET ClientIds /\ Requests[c] \subseteq Own(c)
      /\ AgentOf[c] \in Agents \cup {None} /\ e \in Events
      /\ \A i \in Requests[c] : HubId[i] \in AllIds /\ i \in AllIds /\ HubId[i] \in Own(c)
  BY Constants DEF AllIds, Own, Events
<1>1. CASE \E A \in {Requests[c]} \cup {{i} : i \in Requests[c]} :
              e = [kind |-> "accepted", about |-> A, head |-> A \cup {HubId[i] : i \in A},
                   body |-> {}, conv |-> AgentOf[c], ok |-> TRUE]
  <2>1. PICK A \in {Requests[c]} \cup {{i} : i \in Requests[c]} :
              e = [kind |-> "accepted", about |-> A, head |-> A \cup {HubId[i] : i \in A},
                   body |-> {}, conv |-> AgentOf[c], ok |-> TRUE]
    BY <1>1
  <2>2. A \subseteq Requests[c]
    OBVIOUS
  <2>3. e.kind = "accepted" /\ e.about = A /\ e.head = A \cup {HubId[i] : i \in A}
        /\ e.body = {} /\ e.conv = AgentOf[c]
    BY <2>1
  <2> QED
    BY <1>0, <2>2, <2>3 DEF Ids
<1>2. CASE \E i \in Requests[c], p \in Wire :
              e = [kind |-> p[1], about |-> {i}, head |-> HeadOf(p[2], i), conv |-> None,
                   body |-> IF p[1] = "response" THEN {i} ELSE {HubId[i]}, ok |-> p[3]]
  <2>1. PICK i \in Requests[c], p \in Wire :
              e = [kind |-> p[1], about |-> {i}, head |-> HeadOf(p[2], i), conv |-> None,
                   body |-> IF p[1] = "response" THEN {i} ELSE {HubId[i]}, ok |-> p[3]]
    BY <1>2
  <2>2. p[1] \in DataKinds /\ p[2] \in {"bare", "framed", "plain"}
    BY DispatcherAssumption DEF DataKinds
  <2>3. HeadOf(p[2], i) \subseteq {i, HubId[i]}
    BY <2>2 DEF HeadOf
  <2>4. /\ e.kind = p[1] /\ e.about = {i} /\ e.head = HeadOf(p[2], i) /\ e.conv = None
        /\ e.body \subseteq {i, HubId[i]}
    BY <2>1
  <2> QED
    BY <1>0, <2>2, <2>3, <2>4 DEF Ids
<1>3. CASE e = [kind |-> "started", about |-> {}, head |-> {}, body |-> {}, conv |-> AgentOf[c], ok |-> TRUE]
  BY <1>0, <1>3 DEF Ids
<1>4. <1>1!1 \/ <1>2!1 \/ <1>3!1
  BY DEF About
<1> QED
  BY <1>1, <1>2, <1>3, <1>4

\* Every event weighs something natural, and it is data what is retained.
LEMMA EventWeights ==
    ASSUME NEW e \in Events
    PROVE  /\ Size(e) \in Nat /\ (Retained(e) => e.kind \in DataKinds) /\ Retained(e) \in BOOLEAN
           /\ Ids(e) \in SUBSET AllIds /\ e.head \in SUBSET AllIds /\ e.about \in SUBSET ClientIds
           /\ e.conv \in Agents \cup {None}
<1>1. PICK c \in Commands : e \in About(c)
  BY DEF Events
<1>2. /\ e.about \subseteq Requests[c] /\ e.head \subseteq AllIds /\ e.body \subseteq AllIds
      /\ e.conv \in Agents \cup {None}
  BY <1>1, EventForms
<1>3. Requests[c] \subseteq ClientIds
  BY Constants
<1>4. Size(e) \in Nat
  BY Constants DEF Size
<1>5. Retained(e) => e.kind \in DataKinds
  BY DEF Retained, DataKinds
<1>6. Retained(e) \in BOOLEAN
  BY DEF Retained
<1> QED
  BY <1>2, <1>3, <1>4, <1>5, <1>6 DEF Ids
--------------------------------------------------------------------------------
(* An event that is delivered.                                               *)

\* The item of an operation an event is about is one of its own, or none.
LEMMA ItemForType ==
    ASSUME NEW o \in Operation, NEW ids \in SUBSET AllIds
    PROVE  ItemFor(o, ids) \in ClientIds \cup {None}
<1> DEFINE known == {o.alias[i] : i \in ids} \ {None}
<1>1. known \subseteq ClientIds
  BY DEF Operation
<1>2. ItemFor(o, ids) = IF known = {} THEN None ELSE CHOOSE i \in known : TRUE
  BY DEF ItemFor
<1> HIDE DEF known
<1>3. known # {} => (CHOOSE i \in known : TRUE) \in known
  OBVIOUS
<1> QED
  BY <1>1, <1>2, <1>3

\* What an operation learns from an event.
LEMMA AdoptingIs ==
    ASSUME NEW e \in Events, NEW o \in Operation
    PROVE  /\ Adopting(e, o) \in Operation
           /\ Adopting(e, o) = [o EXCEPT !.ids = o.ids \cup Ids(e), !.convs = Adopting(e, o).convs,
                                         !.alias = Adopting(e, o).alias]
           /\ None \notin o.convs => None \notin Adopting(e, o).convs
<1> DEFINE items == ItemsOf(o)
           itemOf(g) == IF ItemFor(o, g) # None THEN ItemFor(o, g)
                        ELSE IF Cardinality(items) = 1 THEN CHOOSE i \in items : TRUE
                        ELSE None
           groups(j) == {h \in Groups(e) : j \in h}
           aliasOf(j) == IF groups(j) = {} \/ itemOf(UNION groups(j)) = None THEN o.alias[j]
                         ELSE itemOf(UNION groups(j))
           alias == [j \in AllIds |-> aliasOf(j)]
           convs == o.convs \cup ({e.conv} \ {None})
<1>1. items \subseteq ClientIds /\ (Cardinality(items) = 1 => (CHOOSE i \in items : TRUE) \in items)
  <2>1. items \subseteq ClientIds
    BY DEF ItemsOf
  <2>2. Cardinality(items) = 1 => items # {}
    BY FS_EmptySet
  <2> QED
    BY <2>1, <2>2
<1>2. ASSUME NEW g \in SUBSET AllIds PROVE itemOf(g) \in ClientIds \cup {None}
  <2> HIDE DEF items
  <2>1. ItemFor(o, g) \in ClientIds \cup {None}
    BY ItemForType
  <2> QED
    BY <1>1, <2>1
<1>3. \A g \in Groups(e) : g \subseteq AllIds
  <2>1. Ids(e) \in SUBSET AllIds /\ e.about \in SUBSET ClientIds
    BY EventWeights
  <2>2. \A i \in ClientIds : HubId[i] \in AllIds /\ i \in AllIds
    BY Constants DEF AllIds
  <2> QED
    BY <2>1, <2>2 DEF Groups
<1>4. ASSUME NEW j \in AllIds PROVE aliasOf(j) \in ClientIds \cup {None}
  <2>1. UNION groups(j) \in SUBSET AllIds
    BY <1>3
  <2>2. itemOf(UNION groups(j)) \in ClientIds \cup {None}
    BY <1>2, <2>1
  <2>3. o.alias[j] \in ClientIds \cup {None}
    BY DEF Operation
  <2> HIDE DEF itemOf, groups, items
  <2> QED
    BY <2>2, <2>3
<1>5. Adopting(e, o) = [o EXCEPT !.ids = @ \cup Ids(e), !.convs = @ \cup ({e.conv} \ {None}), !.alias = alias]
  BY DEF Adopting
<1>6. alias \in [AllIds -> ClientIds \cup {None}]
  <2> HIDE DEF aliasOf
  <2> QED
    BY <1>4
<1> HIDE DEF alias
<1>7. Ids(e) \in SUBSET AllIds /\ e.conv \in Agents \cup {None}
  BY EventWeights
<1> DEFINE a == Adopting(e, o)
<1>8. a = [o EXCEPT !.ids = o.ids \cup Ids(e), !.convs = convs, !.alias = alias]
  BY <1>5
<1> HIDE DEF a
<1>9. o.ids \cup Ids(e) \in SUBSET AllIds /\ convs \in SUBSET Agents /\ None \notin convs \ o.convs
  BY <1>7 DEF Operation
<1> HIDE DEF convs
<1>10. a \in Operation /\ a.convs = convs /\ a.alias = alias
  BY <1>6, <1>8, <1>9 DEF Operation
<1>11. a = [o EXCEPT !.ids = o.ids \cup Ids(e), !.convs = a.convs, !.alias = a.alias]
  BY <1>8, <1>10
<1> QED
  BY <1>9, <1>10, <1>11 DEF a

\* Operations that serve the same command, know the same ids and retain as much.
Alike(o, p) ==
    /\ p \in Operation
    /\ p.live = o.live /\ p.gen = o.gen /\ p.ids = o.ids /\ (None \notin o.convs => None \notin p.convs)
    /\ p.count = o.count /\ p.bytes = o.bytes

\* What a delivered event does to the operations.
Takes(s, e, ops) ==
    /\ op' \in [Slots -> Operation]
    /\ \A t \in Slots \ {s} : op'[t] = ops[t]
    /\ op'[s].live = ops[s].live /\ op'[s].gen = ops[s].gen /\ op'[s].count = ops[s].count
    /\ op'[s].pending = ops[s].pending
    /\ op'[s].ids = ops[s].ids \cup (IF Matched(e, ops[s]) THEN Ids(e) ELSE {})
    /\ None \notin ops[s].convs => None \notin op'[s].convs
    /\ op'[s].bytes = ops[s].bytes + (IF Matched(e, ops[s]) /\ Retained(e) THEN Size(e) ELSE 0)

\* Charging an operation changes what it retains.
LEMMA ChargedIs ==
    ASSUME NEW e \in Events, NEW o \in Operation, NEW i
    PROVE  /\ Charged(e, o, i) \in Operation
           /\ Charged(e, o, i) = [o EXCEPT !.bytes = o.bytes + Size(e), !.item = Charged(e, o, i).item]
<1> DEFINE item == [j \in ClientIds |-> IF j = i THEN o.item[j] + Size(e) ELSE o.item[j]]
<1>1. Size(e) \in Int
  BY EventWeights
<1>2. item \in [ClientIds -> Int] /\ o.bytes + Size(e) \in Int
  BY <1>1 DEF Operation
<1>3. Charged(e, o, i) = [o EXCEPT !.bytes = @ + Size(e), !.item = item]
  BY DEF Charged
<1> HIDE DEF item
<1> QED
  BY <1>2, <1>3 DEF Operation

\* A delivered event, seen from the operations.
LEMMA DeliverTakes ==
    ASSUME NEW s \in Slots, NEW e \in Events, NEW ops \in [Slots -> Operation], NEW books, NEW rest,
           Deliver(s, e, ops, books, rest)
    PROVE  Takes(s, e, ops)
<1> DEFINE matched == Matched(e, ops[s])
           o == IF matched THEN Adopting(e, ops[s]) ELSE ops[s]
           i == ItemFor(o, Ids(e))
           charged == matched /\ Retained(e)
           full == IF charged THEN Charged(e, o, i) ELSE o
<1>1. op' = [ops EXCEPT ![s] = full]
  BY DEF Deliver
<1>2. ops[s] \in Operation
  OBVIOUS
<1>3. /\ o \in Operation
      /\ o.live = ops[s].live /\ o.gen = ops[s].gen /\ o.count = ops[s].count
      /\ o.pending = ops[s].pending /\ o.bytes = ops[s].bytes
      /\ o.ids = ops[s].ids \cup (IF matched THEN Ids(e) ELSE {})
      /\ None \notin ops[s].convs => None \notin o.convs
  <2>1. CASE matched
    <3> DEFINE a == Adopting(e, ops[s])
    <3>1. /\ a \in Operation /\ (None \notin ops[s].convs => None \notin a.convs)
          /\ a = [ops[s] EXCEPT !.ids = ops[s].ids \cup Ids(e), !.convs = a.convs, !.alias = a.alias]
      BY <1>2, AdoptingIs
    <3>2. o = a
      BY <2>1
    <3> HIDE DEF a, o
    <3> QED
      BY <1>2, <2>1, <3>1, <3>2 DEF Operation
  <2>2. CASE ~matched
    BY <1>2, <2>2
  <2> QED
    BY <2>1, <2>2
<1>4. /\ full \in Operation
      /\ full.live = o.live /\ full.gen = o.gen /\ full.count = o.count
      /\ full.pending = o.pending /\ full.ids = o.ids /\ full.convs = o.convs
      /\ full.bytes = o.bytes + (IF charged THEN Size(e) ELSE 0)
  <2> HIDE DEF o, i, matched
  <2>1. CASE charged
    <3> DEFINE f == Charged(e, o, i)
    <3>1. f \in Operation /\ f = [o EXCEPT !.bytes = o.bytes + Size(e), !.item = f.item]
      BY <1>3, ChargedIs
    <3>2. full = f
      BY <2>1
    <3> HIDE DEF f, full, charged
    <3> QED
      BY <1>3, <2>1, <3>1, <3>2 DEF Operation
  <2>2. CASE ~charged
    <3>1. full = o /\ o.bytes \in Int
      BY <1>3, <2>2 DEF Operation
    <3> QED
      BY <1>3, <2>2, <3>1
  <2> QED
    BY <2>1, <2>2
<1> HIDE DEF full, o
<1>5. op' \in [Slots -> Operation] /\ op'[s] = full /\ \A t \in Slots \ {s} : op'[t] = ops[t]
  BY <1>1, <1>4
<1> QED
  BY <1>3, <1>4, <1>5 DEF Takes
--------------------------------------------------------------------------------
(* What the events being decoded weigh.                                      *)

\* The weight of one event: at all, for an operation, for none.
PendingOf(x) == IF x.skip THEN 0 ELSE Size(x.e)
HeldOf(x, s) == IF HeldBy(x, s) THEN Size(x.e) ELSE 0
UnheldOf(x) == IF x.skip \/ Held(x) THEN 0 ELSE Size(x.e)

\* What an event being decoded consists of.
LEMMA QItemIs ==
    ASSUME NEW x \in QItem
    PROVE  /\ x.e \in Events /\ x.skip \in BOOLEAN /\ x.owner \in Slots \cup {None}
           /\ x.item \in ClientIds \cup {None} /\ Size(x.e) \in Nat
           /\ PendingOf(x) \in Nat /\ UnheldOf(x) \in Nat
           /\ \A s : HeldOf(x, s) \in Nat
<1>1. x.e \in Events /\ x.skip \in BOOLEAN /\ x.owner \in Slots \cup {None}
      /\ x.item \in ClientIds \cup {None}
  BY DEF QItem
<1>2. Size(x.e) \in Nat
  BY <1>1, EventWeights
<1> QED
  BY <1>1, <1>2 DEF PendingOf, UnheldOf, HeldOf

\* The weights along the queue are naturals.
LEMMA WeightsAre ==
    ASSUME NEW q \in Seq(QItem)
    PROVE  /\ Len(q) \in Nat /\ DOMAIN q = 1..Len(q) /\ IsFiniteSet(DOMAIN q)
           /\ \A n \in DOMAIN q : q[n] \in QItem
           /\ \A n \in DOMAIN q : PendingW(q)[n] = PendingOf(q[n]) /\ PendingW(q)[n] \in Nat
           /\ \A n \in DOMAIN q : UnheldW(q)[n] = UnheldOf(q[n]) /\ UnheldW(q)[n] \in Nat
           /\ \A s : \A n \in DOMAIN q : HeldW(q, s)[n] = HeldOf(q[n], s) /\ HeldW(q, s)[n] \in Nat
           /\ IntOn(PendingW(q), DOMAIN q) /\ IntOn(UnheldW(q), DOMAIN q)
           /\ \A s : IntOn(HeldW(q, s), DOMAIN q)
<1>1. Len(q) \in Nat /\ DOMAIN q = 1..Len(q) /\ \A n \in DOMAIN q : q[n] \in QItem
  OBVIOUS
<1>2. IsFiniteSet(DOMAIN q)
  <2>1. IsFiniteSet(1..Len(q))
    BY <1>1, FS_Interval
  <2> QED
    BY <1>1, <2>1
<1>3. ASSUME NEW n \in DOMAIN q, NEW s
      PROVE  /\ PendingW(q)[n] = PendingOf(q[n]) /\ UnheldW(q)[n] = UnheldOf(q[n])
             /\ HeldW(q, s)[n] = HeldOf(q[n], s)
             /\ PendingOf(q[n]) \in Nat /\ UnheldOf(q[n]) \in Nat /\ HeldOf(q[n], s) \in Nat
  <2>1. PendingOf(q[n]) \in Nat /\ UnheldOf(q[n]) \in Nat /\ HeldOf(q[n], s) \in Nat
    BY <1>1, QItemIs
  <2> QED
    BY <2>1 DEF PendingW, PendingOf, UnheldW, UnheldOf, HeldW, HeldOf
<1>4. /\ \A n \in DOMAIN q : PendingW(q)[n] = PendingOf(q[n]) /\ PendingW(q)[n] \in Nat
      /\ \A n \in DOMAIN q : UnheldW(q)[n] = UnheldOf(q[n]) /\ UnheldW(q)[n] \in Nat
      /\ \A s : \A n \in DOMAIN q : HeldW(q, s)[n] = HeldOf(q[n], s) /\ HeldW(q, s)[n] \in Nat
  BY <1>3
<1>5. /\ IntOn(PendingW(q), DOMAIN q) /\ IntOn(UnheldW(q), DOMAIN q)
      /\ \A s : IntOn(HeldW(q, s), DOMAIN q)
  BY <1>4 DEF IntOn
<1> QED
  BY <1>1, <1>2, <1>4, <1>5

\* What is being decoded weighs something natural.
LEMMA WeightsAreNat ==
    ASSUME NEW q \in Seq(QItem)
    PROVE  /\ SumW(PendingW(q), q) \in Nat /\ SumW(UnheldW(q), q) \in Nat
           /\ \A s : SumW(HeldW(q, s), q) \in Nat
<1>1. /\ IsFiniteSet(DOMAIN q) /\ \A n \in DOMAIN q : PendingW(q)[n] \in Nat
      /\ \A n \in DOMAIN q : UnheldW(q)[n] \in Nat
      /\ \A s : \A n \in DOMAIN q : HeldW(q, s)[n] \in Nat
  BY WeightsAre
<1> QED
  BY <1>1, SumIsNat DEF SumW

\* Nothing being decoded weighs nothing.
LEMMA NoWeight ==
    /\ SumW(PendingW(<<>>), <<>>) = 0 /\ SumW(UnheldW(<<>>), <<>>) = 0
    /\ \A s : SumW(HeldW(<<>>, s), <<>>) = 0
<1>1. DOMAIN <<>> = {}
  OBVIOUS
<1> QED
  BY <1>1, SumEmpty DEF SumW

\* An event more.
LEMMA WeightsAppend ==
    ASSUME NEW q \in Seq(QItem), NEW x \in QItem
    PROVE  /\ Append(q, x) \in Seq(QItem)
           /\ SumW(PendingW(Append(q, x)), Append(q, x)) = SumW(PendingW(q), q) + PendingOf(x)
           /\ SumW(UnheldW(Append(q, x)), Append(q, x)) = SumW(UnheldW(q), q) + UnheldOf(x)
           /\ \A s : SumW(HeldW(Append(q, x), s), Append(q, x)) = SumW(HeldW(q, s), q) + HeldOf(x, s)
<1> DEFINE n == Len(q)
           r == Append(q, x)
<1>1. /\ r \in Seq(QItem) /\ Len(r) = n + 1 /\ n \in Nat /\ DOMAIN r = 1..(n + 1) /\ DOMAIN q = 1..n
      /\ r[n + 1] = x /\ \A k \in 1..n : r[k] = q[k] /\ k \in DOMAIN q /\ k \in DOMAIN r
      /\ n + 1 \in DOMAIN r
  OBVIOUS
<1> HIDE DEF n, r
<1>2. /\ IntOn(PendingW(r), 1..(n + 1)) /\ IntOn(UnheldW(r), 1..(n + 1))
      /\ \A s : IntOn(HeldW(r, s), 1..(n + 1))
  BY <1>1, WeightsAre
<1>3. /\ PendingW(r)[n + 1] = PendingOf(x) /\ UnheldW(r)[n + 1] = UnheldOf(x)
      /\ \A s : HeldW(r, s)[n + 1] = HeldOf(x, s)
  BY <1>1, WeightsAre
<1>4. /\ \A k \in 1..n : PendingW(q)[k] = PendingW(r)[k]
      /\ \A k \in 1..n : UnheldW(q)[k] = UnheldW(r)[k]
      /\ \A s : \A k \in 1..n : HeldW(q, s)[k] = HeldW(r, s)[k]
  BY <1>1 DEF PendingW, UnheldW, HeldW
<1>5. SumFunctionOnSet(PendingW(r), 1..(n + 1)) = SumFunctionOnSet(PendingW(q), 1..n) + PendingOf(x)
  BY <1>1, <1>2, <1>3, <1>4, SumLast
<1>6. SumFunctionOnSet(UnheldW(r), 1..(n + 1)) = SumFunctionOnSet(UnheldW(q), 1..n) + UnheldOf(x)
  BY <1>1, <1>2, <1>3, <1>4, SumLast
<1>7. ASSUME NEW s
      PROVE  SumFunctionOnSet(HeldW(r, s), 1..(n + 1)) = SumFunctionOnSet(HeldW(q, s), 1..n) + HeldOf(x, s)
  <2>1. SumFunctionOnSet(HeldW(r, s), 1..(n + 1)) = SumFunctionOnSet(HeldW(q, s), 1..n) + HeldW(r, s)[n + 1]
    BY <1>1, <1>2, <1>4, SumLast
  <2> QED
    BY <1>3, <2>1
<1> QED
  BY <1>1, <1>5, <1>6, <1>7 DEF SumW, n, r

\* An event less.
LEMMA WeightsTail ==
    ASSUME NEW q \in Seq(QItem), q # <<>>
    PROVE  /\ Tail(q) \in Seq(QItem) /\ Head(q) \in QItem
           /\ SumW(PendingW(q), q) = PendingOf(Head(q)) + SumW(PendingW(Tail(q)), Tail(q))
           /\ SumW(UnheldW(q), q) = UnheldOf(Head(q)) + SumW(UnheldW(Tail(q)), Tail(q))
           /\ \A s : SumW(HeldW(q, s), q) = HeldOf(Head(q), s) + SumW(HeldW(Tail(q), s), Tail(q))
<1> DEFINE r == Tail(q)
           n == Len(r)
<1>1. /\ r \in Seq(QItem) /\ Len(q) = n + 1 /\ n \in Nat /\ DOMAIN q = 1..(n + 1) /\ DOMAIN r = 1..n
      /\ q[1] = Head(q) /\ \A k \in 1..n : r[k] = q[k + 1] /\ k \in DOMAIN r /\ k + 1 \in DOMAIN q
      /\ 1 \in DOMAIN q /\ Head(q) \in QItem
  OBVIOUS
<1> HIDE DEF n, r
<1>2. /\ IntOn(PendingW(q), 1..(n + 1)) /\ IntOn(UnheldW(q), 1..(n + 1))
      /\ \A s : IntOn(HeldW(q, s), 1..(n + 1))
  BY <1>1, WeightsAre
<1>3. /\ PendingW(q)[1] = PendingOf(Head(q)) /\ UnheldW(q)[1] = UnheldOf(Head(q))
      /\ \A s : HeldW(q, s)[1] = HeldOf(Head(q), s)
  BY <1>1, WeightsAre
<1>4. /\ \A k \in 1..n : PendingW(r)[k] = PendingW(q)[k + 1]
      /\ \A k \in 1..n : UnheldW(r)[k] = UnheldW(q)[k + 1]
      /\ \A s : \A k \in 1..n : HeldW(r, s)[k] = HeldW(q, s)[k + 1]
  BY <1>1 DEF PendingW, UnheldW, HeldW
<1>5. SumFunctionOnSet(PendingW(q), 1..(n + 1)) = PendingOf(Head(q)) + SumFunctionOnSet(PendingW(r), 1..n)
  <2>1. SumFunctionOnSet(PendingW(q), 1..(n + 1)) = PendingW(q)[1] + SumFunctionOnSet(PendingW(r), 1..n)
    BY <1>1, <1>2, <1>4, SumFirst
  <2> QED
    BY <1>3, <2>1
<1>6. SumFunctionOnSet(UnheldW(q), 1..(n + 1)) = UnheldOf(Head(q)) + SumFunctionOnSet(UnheldW(r), 1..n)
  <2>1. SumFunctionOnSet(UnheldW(q), 1..(n + 1)) = UnheldW(q)[1] + SumFunctionOnSet(UnheldW(r), 1..n)
    BY <1>1, <1>2, <1>4, SumFirst
  <2> QED
    BY <1>3, <2>1
<1>7. ASSUME NEW s
      PROVE  SumFunctionOnSet(HeldW(q, s), 1..(n + 1)) = HeldOf(Head(q), s) + SumFunctionOnSet(HeldW(r, s), 1..n)
  <2>1. SumFunctionOnSet(HeldW(q, s), 1..(n + 1)) = HeldW(q, s)[1] + SumFunctionOnSet(HeldW(r, s), 1..n)
    BY <1>1, <1>2, <1>4, SumFirst
  <2> QED
    BY <1>3, <2>1
<1> QED
  BY <1>1, <1>5, <1>6, <1>7 DEF SumW, r
\* What the events hold together is what is reserved for any of the operations L, or for none.
LEMMA PendingIsHeldOrUnheld ==
    ASSUME NEW q \in Seq(QItem), NEW L, IsFiniteSet(L), None \notin L,
           \A n \in DOMAIN q : IF q[n].skip THEN q[n].owner = None ELSE q[n].owner \in L \cup {None}
    PROVE  SumW(PendingW(q), q)
             = SumFunctionOnSet([s \in L |-> SumW(HeldW(q, s), q)], L) + SumW(UnheldW(q), q)
<1> DEFINE D == DOMAIN q
           total == [s \in L |-> SumW(HeldW(q, s), q)]
           HeldIn(M) == [n \in D |-> IF q[n].owner \in M /\ Retained(q[n].e) THEN Size(q[n].e) ELSE 0]
           Q == {M \in SUBSET L : SumFunctionOnSet(HeldIn(M), D) = SumFunctionOnSet(total, M)}
<1>1. /\ IsFiniteSet(D) /\ \A n \in D : q[n] \in QItem
      /\ \A n \in D : PendingW(q)[n] = PendingOf(q[n]) /\ PendingW(q)[n] \in Nat
      /\ \A n \in D : UnheldW(q)[n] = UnheldOf(q[n]) /\ UnheldW(q)[n] \in Nat
      /\ \A s : \A n \in D : HeldW(q, s)[n] = HeldOf(q[n], s) /\ HeldW(q, s)[n] \in Nat
      /\ \A s : IntOn(HeldW(q, s), D)
  BY WeightsAre
<1>2. \A n \in D : Size(q[n].e) \in Nat /\ Retained(q[n].e) \in BOOLEAN
  BY <1>1, QItemIs DEF Retained
<1>3. \A M : \A n \in D : HeldIn(M)[n] \in Nat
  BY <1>2
<1>4. \A s \in L : total[s] \in Nat
  BY WeightsAreNat
<1>5. {} \in Q
  <2>1. \A n \in D : HeldIn({})[n] = 0
    OBVIOUS
  <2> HIDE DEF HeldIn, D, total
  <2>2. SumFunctionOnSet(HeldIn({}), D) = 0
    BY <1>1, <2>1, SumZero
  <2> QED
    BY <2>2, SumEmpty
<1>6. ASSUME NEW M \in SUBSET L, M # {}, \A s \in M : M \ {s} \in Q PROVE M \in Q
  <2>1. PICK s \in M : TRUE
    BY <1>6
  <2> DEFINE R == M \ {s}
  <2>2. \A n \in D : HeldIn(M)[n] = HeldW(q, s)[n] + HeldIn(R)[n]
    <3> SUFFICES ASSUME NEW n \in D PROVE HeldIn(M)[n] = HeldW(q, s)[n] + HeldIn(R)[n]
      OBVIOUS
    <3>1. HeldW(q, s)[n] = IF q[n].owner = s /\ Retained(q[n].e) THEN Size(q[n].e) ELSE 0
      BY DEF HeldW, HeldBy
    <3>2. Size(q[n].e) \in Nat
      BY <1>2
    <3> QED
      BY <2>1, <3>1, <3>2
  <2>3. IntOn(HeldIn(R), D) /\ IntOn(HeldW(q, s), D)
    BY <1>1, <1>3 DEF IntOn
  <2>4. IsFiniteSet(M) /\ IntOn(total, M) /\ total[s] = SumFunctionOnSet(HeldW(q, s), D)
    BY <1>4, <2>1, FS_Subset DEF IntOn, SumW
  <2>5. SumFunctionOnSet(HeldIn(R), D) = SumFunctionOnSet(total, R)
    BY <1>6
  <2>6. SumFunctionOnSet(HeldIn(R), D) \in Int /\ total[s] \in Int
    <3>1. total[s] \in Int
      BY <1>4
    <3> HIDE DEF HeldIn, D, R, total
    <3> QED
      BY <1>1, <2>3, <3>1, SumIsInt
  <2>10. IsFiniteSet(D)
    BY <1>1
  <2> DEFINE f == HeldW(q, s)
             g == HeldIn(R)
             h == HeldIn(M)
  <2>11. IntOn(f, D) /\ IntOn(g, D) /\ \A n \in D : h[n] = f[n] + g[n]
    BY <2>2, <2>3
  <2> HIDE DEF f, g, h, D
  <2>12. SumFunctionOnSet(h, D) = SumFunctionOnSet(f, D) + SumFunctionOnSet(g, D)
    BY <2>10, <2>11, SumPlus
  <2> HIDE DEF HeldIn, total
  <2>7. SumFunctionOnSet(HeldIn(M), D) = SumFunctionOnSet(HeldW(q, s), D) + SumFunctionOnSet(HeldIn(R), D)
    BY <2>12 DEF f, g, h
  <2>8. SumFunctionOnSet(total, M) = total[s] + SumFunctionOnSet(total, R)
    BY <2>4, SumRemove
  <2>9. SumFunctionOnSet(HeldIn(M), D) = SumFunctionOnSet(total, M)
    BY <2>4, <2>5, <2>7, <2>8
  <2> QED
    BY <2>9
<1>7. L \in Q
  <2> HIDE DEF Q
  <2> QED
    BY <1>5, <1>6, SetsInduction
<1>8. \A n \in D : PendingW(q)[n] = HeldIn(L)[n] + UnheldW(q)[n]
  <2> SUFFICES ASSUME NEW n \in D PROVE PendingW(q)[n] = HeldIn(L)[n] + UnheldW(q)[n]
    OBVIOUS
  <2>1. Size(q[n].e) \in Nat
    BY <1>2
  <2>2. PendingW(q)[n] = IF q[n].skip THEN 0 ELSE Size(q[n].e)
    BY DEF PendingW
  <2>3. UnheldW(q)[n] = IF q[n].skip \/ (q[n].owner # None /\ Retained(q[n].e)) THEN 0 ELSE Size(q[n].e)
    BY DEF UnheldW, Held
  <2>4. HeldIn(L)[n] = IF q[n].owner \in L /\ Retained(q[n].e) THEN Size(q[n].e) ELSE 0
    OBVIOUS
  <2> HIDE DEF HeldIn
  <2>5. CASE q[n].skip
    BY <2>2, <2>3, <2>4, <2>5
  <2>6. CASE ~q[n].skip /\ q[n].owner = None
    BY <2>1, <2>2, <2>3, <2>4, <2>6
  <2>7. CASE ~q[n].skip /\ q[n].owner \in L
    BY <2>1, <2>2, <2>3, <2>4, <2>7
  <2> QED
    BY <2>5, <2>6, <2>7
<1>9. IntOn(HeldIn(L), D) /\ IntOn(UnheldW(q), D)
  BY <1>1, <1>3 DEF IntOn
<1>10. SumFunctionOnSet(HeldIn(L), D) = SumFunctionOnSet(total, L)
  BY <1>7
<1> HIDE DEF HeldIn, D, Q, total
<1>11. SumFunctionOnSet(PendingW(q), D) = SumFunctionOnSet(HeldIn(L), D) + SumFunctionOnSet(UnheldW(q), D)
  BY <1>1, <1>8, <1>9, SumPlus
<1> QED
  BY <1>10, <1>11 DEF SumW, D, total

\* Cancelling what is reserved for the operations S.
LEMMA WeightsCancelled ==
    ASSUME NEW q \in Seq(QItem), NEW S
    PROVE  /\ Cancelled(q, S) \in Seq(QItem) /\ DOMAIN Cancelled(q, S) = DOMAIN q
           /\ \A n \in DOMAIN q : /\ Cancelled(q, S)[n].e = q[n].e
                                  /\ q[n].owner \in S =>
                                       Cancelled(q, S)[n].owner = None /\ Cancelled(q, S)[n].skip
                                  /\ q[n].owner \notin S => Cancelled(q, S)[n] = q[n]
           /\ SumW(UnheldW(Cancelled(q, S)), Cancelled(q, S)) <= SumW(UnheldW(q), q)
           /\ \A s \in Slots : SumW(HeldW(Cancelled(q, S), s), Cancelled(q, S))
                               = IF s \in S THEN 0 ELSE SumW(HeldW(q, s), q)
<1> DEFINE r == Cancelled(q, S)
           D == DOMAIN q
           At(n) == IF q[n].owner \in S THEN [q[n] EXCEPT !.owner = None, !.skip = TRUE] ELSE q[n]
<1>1. /\ IsFiniteSet(D) /\ \A n \in D : q[n] \in QItem
      /\ \A n \in D : UnheldW(q)[n] = UnheldOf(q[n]) /\ UnheldW(q)[n] \in Nat
      /\ \A s : \A n \in D : HeldW(q, s)[n] = HeldOf(q[n], s) /\ HeldW(q, s)[n] \in Nat
      /\ Len(q) \in Nat /\ D = 1..Len(q)
  BY WeightsAre
<1>2. ASSUME NEW n \in D
      PROVE  /\ At(n) \in QItem /\ At(n).e = q[n].e
             /\ q[n].owner \in S => At(n).owner = None /\ At(n).skip
             /\ q[n].owner \notin S => At(n) = q[n]
  <2>1. q[n] \in QItem
    BY <1>1
  <2> QED
    BY <2>1 DEF QItem
<1>3. r = [n \in D |-> At(n)]
  BY DEF Cancelled
<1> HIDE DEF At
<1>4. r \in Seq(QItem) /\ DOMAIN r = D /\ \A n \in D : r[n] = At(n)
  BY <1>1, <1>2, <1>3
<1> HIDE DEF r
<1>5. /\ \A n \in D : UnheldW(r)[n] = UnheldOf(r[n]) /\ UnheldW(r)[n] \in Nat
      /\ \A s : \A n \in D : HeldW(r, s)[n] = HeldOf(r[n], s) /\ HeldW(r, s)[n] \in Nat
  BY <1>4, WeightsAre
<1>6. \A n \in D : UnheldW(r)[n] <= UnheldW(q)[n]
  <2> SUFFICES ASSUME NEW n \in D PROVE UnheldOf(r[n]) <= UnheldOf(q[n])
    BY <1>1, <1>5
  <2>1. UnheldOf(q[n]) \in Nat
    BY <1>1
  <2>2. CASE q[n].owner \in S
    BY <1>2, <1>4, <2>1, <2>2 DEF UnheldOf
  <2>3. CASE q[n].owner \notin S
    BY <1>2, <1>4, <2>1, <2>3
  <2> QED
    BY <2>2, <2>3
<1>7. SumFunctionOnSet(UnheldW(r), D) <= SumFunctionOnSet(UnheldW(q), D)
  <2>1. IntOn(UnheldW(r), D) /\ IntOn(UnheldW(q), D)
    BY <1>1, <1>5 DEF IntOn
  <2> QED
    BY <1>1, <1>6, <2>1, SumAtMost
<1>8. ASSUME NEW s \in Slots
      PROVE  SumFunctionOnSet(HeldW(r, s), D) = IF s \in S THEN 0 ELSE SumFunctionOnSet(HeldW(q, s), D)
  <2>0. None # s
    BY Constants
  <2>1. CASE s \in S
    <3>1. \A n \in D : HeldW(r, s)[n] = 0
      BY <1>2, <1>4, <1>5, <2>0, <2>1 DEF HeldOf, HeldBy
    <3> QED
      BY <1>1, <2>1, <3>1, SumZero
  <2>2. CASE s \notin S
    <3>1. \A n \in D : HeldW(r, s)[n] = HeldW(q, s)[n]
      BY <1>1, <1>2, <1>4, <1>5, <2>0, <2>2 DEF HeldOf, HeldBy
    <3>2. IntOn(HeldW(r, s), D)
      BY <1>5 DEF IntOn
    <3>3. SumFunctionOnSet(HeldW(r, s), D) = SumFunctionOnSet(HeldW(q, s), D)
      BY <1>1, <3>1, <3>2, SumEqual
    <3> QED
      BY <2>2, <3>3
  <2> QED
    BY <2>1, <2>2
<1> QED
  BY <1>2, <1>4, <1>7, <1>8 DEF r, SumW

\* The reservations that a step gives back when it cancels those for S.
LEMMA ReservedGivenBack ==
    ASSUME queue \in Seq(QItem), NEW S
    PROVE  /\ ReservedBy(S) \in Nat
           /\ SumW(PendingW(queue), queue)
                = ReservedBy(S) + SumW(PendingW(Cancelled(queue, S)), Cancelled(queue, S))
<1> DEFINE q == queue
           r == Cancelled(q, S)
           D == DOMAIN q
           N == {n \in Pending : q[n].owner \in S}
           size == [n \in D |-> Size(q[n].e)]
           given == [n \in D |-> IF n \in N THEN size[n] ELSE 0]
<1>1. /\ IsFiniteSet(D) /\ \A n \in D : q[n] \in QItem
      /\ \A n \in D : PendingW(q)[n] = PendingOf(q[n]) /\ PendingW(q)[n] \in Nat
  BY WeightsAre
<1>2. /\ r \in Seq(QItem) /\ DOMAIN r = D
      /\ \A n \in D : /\ r[n].e = q[n].e
                      /\ q[n].owner \in S => r[n].skip
                      /\ q[n].owner \notin S => r[n] = q[n]
  BY WeightsCancelled
<1>3. \A n \in D : PendingW(r)[n] = PendingOf(r[n]) /\ PendingW(r)[n] \in Nat
  BY <1>2, WeightsAre
<1>4. \A n \in D : Size(q[n].e) \in Nat
  BY <1>1, QItemIs
<1>5. N \in SUBSET D /\ (\A n \in N : ~q[n].skip /\ q[n].owner \in S)
      /\ \A n \in D \ N : q[n].skip \/ q[n].owner \notin S
  BY DEF Pending
<1>6. ReservedBy(S) = SumFunctionOnSet(size, N)
  BY DEF ReservedBy, BytesOf
<1> HIDE DEF r, N
<1>7. \A n \in D : size[n] \in Nat /\ given[n] \in Nat
  BY <1>4
<1>8. \A n \in D : PendingW(q)[n] = given[n] + PendingW(r)[n]
  <2> SUFFICES ASSUME NEW n \in D PROVE PendingOf(q[n]) = given[n] + PendingOf(r[n])
    BY <1>1, <1>3
  <2>1. Size(q[n].e) \in Nat /\ PendingOf(q[n]) \in Nat
    BY <1>1, <1>4
  <2>2. CASE n \in N
    <3>1. given[n] = Size(q[n].e)
      BY <2>2
    <3> QED
      BY <1>2, <1>5, <2>1, <2>2, <3>1 DEF PendingOf
  <2>3. CASE n \notin N /\ q[n].owner \in S
    <3>1. given[n] = 0
      BY <2>3
    <3> QED
      BY <1>2, <1>5, <2>1, <2>3, <3>1 DEF PendingOf
  <2>4. CASE n \notin N /\ q[n].owner \notin S
    <3>1. given[n] = 0
      BY <2>4
    <3> QED
      BY <1>2, <1>5, <2>1, <2>4, <3>1
  <2> QED
    BY <2>2, <2>3, <2>4
<1>9. (\A n \in N : given[n] = size[n]) /\ (\A n \in D \ N : given[n] = 0)
  BY <1>5
<1> HIDE DEF size, given, D
<1>10. IntOn(size, N) /\ IntOn(given, D) /\ IntOn(PendingW(r), D)
  BY <1>3, <1>5, <1>7 DEF IntOn
<1>11. SumFunctionOnSet(size, N) = SumFunctionOnSet(given, D)
  BY <1>1, <1>5, <1>9, <1>10, SumOfSome
<1>12. SumFunctionOnSet(given, D) \in Nat
  BY <1>1, <1>7, SumIsNat
<1>13. SumFunctionOnSet(PendingW(q), D) = SumFunctionOnSet(given, D) + SumFunctionOnSet(PendingW(r), D)
  BY <1>1, <1>8, <1>10, SumPlus
<1>14. DOMAIN queue = D /\ DOMAIN Cancelled(queue, S) = D
  BY <1>2 DEF r, D
<1> QED
  BY <1>6, <1>11, <1>12, <1>13, <1>14 DEF r, SumW

\* The accounts of the module, along the queue.
LEMMA BytesAlongQueue ==
    ASSUME queue \in Seq(QItem), \A n \in DOMAIN queue : queue[n].skip => queue[n].owner = None
    PROVE  /\ BytesOf(Pending) = SumW(PendingW(queue), queue)
           /\ \A s \in Slots : BytesOf(Holding(s)) = SumW(HeldW(queue, s), queue)
<1> DEFINE D == DOMAIN queue
           size == [n \in D |-> Size(queue[n].e)]
<1>1. /\ IsFiniteSet(D) /\ \A n \in D : queue[n] \in QItem
  BY WeightsAre
<1>2. \A n \in D : size[n] \in Nat
  BY <1>1, QItemIs
<1>3. Pending \in SUBSET D /\ (\A n \in Pending : PendingW(queue)[n] = size[n])
      /\ \A n \in D \ Pending : PendingW(queue)[n] = 0
  BY DEF Pending, PendingW
<1>4. ASSUME NEW s \in Slots
      PROVE  /\ Holding(s) \in SUBSET D
             /\ (\A n \in Holding(s) : HeldW(queue, s)[n] = size[n])
             /\ \A n \in D \ Holding(s) : HeldW(queue, s)[n] = 0
  BY DEF Holding, HeldW, HeldBy
<1>5. \A T : BytesOf(T) = SumFunctionOnSet(size, T)
  BY DEF BytesOf
<1> HIDE DEF size, D
<1>6. SumFunctionOnSet(size, Pending) = SumFunctionOnSet(PendingW(queue), D)
  <2>1. IntOn(size, Pending)
    BY <1>2, <1>3 DEF IntOn
  <2> QED
    BY <1>1, <1>3, <2>1, SumOfSome
<1>7. ASSUME NEW s \in Slots
      PROVE  SumFunctionOnSet(size, Holding(s)) = SumFunctionOnSet(HeldW(queue, s), D)
  <2>1. IntOn(size, Holding(s))
    BY <1>2, <1>4 DEF IntOn
  <2> QED
    BY <1>1, <1>4, <2>1, SumOfSome
<1> QED
  BY <1>5, <1>6, <1>7 DEF SumW, D
--------------------------------------------------------------------------------
(* The invariant holds initially.                                            *)

\* An operation object that serves nobody.
LEMMA BlankIs ==
    /\ Blank \in Operation
    /\ \A g \in Nat : [Blank EXCEPT !.gen = g] \in Operation
    /\ ~Blank.live /\ Blank.gen = 0 /\ Blank.ids = {} /\ Blank.convs = {} /\ Blank.count = 1
    /\ Blank.bytes = 0 /\ Blank.pending = 0 /\ Blank = [Blank EXCEPT !.gen = 0]
    /\ \A g \in Nat : LET o == [Blank EXCEPT !.gen = g] IN
          ~o.live /\ o.gen = g /\ o.ids = {} /\ o.convs = {} /\ o.count = 1 /\ o.bytes = 0 /\ o.pending = 0
<1> DEFINE a == [i \in AllIds |-> None]
           z == [i \in ClientIds |-> 0]
           no == FALSE
           At(g) == [live |-> no, gen |-> g, ids |-> {}, convs |-> {}, agent |-> None, alias |-> a,
                     count |-> 1, bytes |-> 0, pending |-> 0, item |-> z, itemPending |-> z]
<1>1. a \in [AllIds -> ClientIds \cup {None}] /\ z \in [ClientIds -> Int]
  OBVIOUS
<1>2. Blank = At(0)
  BY DEF Blank
<1>5. no \in BOOLEAN /\ ~no
  OBVIOUS
<1> HIDE DEF a, z, no
<1>3. ASSUME NEW g PROVE [Blank EXCEPT !.gen = g] = At(g)
  BY <1>2
<1>4. \A g \in Nat : At(g) \in Operation
  BY <1>1, <1>5 DEF Operation
<1> QED
  BY <1>2, <1>3, <1>4, <1>5

\* The first dispatcher has an account without commands.
LEMMA DispatcherInit == Init => DispatcherInv
<1> SUFFICES ASSUME Init PROVE DispatcherInv
  OBVIOUS
<1>1. /\ op = [s \in Slots |-> Blank] /\ idle = <<>>
      /\ requests = [i \in AllIds |-> None] /\ retired = {}
      /\ handle = [c \in Commands |-> None] /\ queue = <<>>
      /\ account = [reserved |-> 0, retained |-> 0, budget |-> Reserve]
      /\ closed = None
      /\ life = [c \in Commands |-> "new"]
      /\ traffic = [sent |-> 0, loose |-> 0]
      /\ history = [forgotten |-> {}, strays |-> [c \in Commands |-> {}]]
  BY DEF Init
<1>2. Reserve \in Nat /\ None \notin Reasons /\ None \notin [slot : Slots, gen : Nat]
  BY Constants
<1>3. \A s \in Slots : op[s] = Blank /\ ~op[s].live
  BY <1>1, BlankIs
<1>4. Live = {}
  BY <1>3 DEF Live
<1>5. Typed
  <2>1. op \in [Slots -> Operation]
    BY <1>1, BlankIs
  <2>2. account \in [reserved : Int, retained : Int, budget : Int]
    BY <1>1, <1>2
  <2>3. traffic \in [sent : Nat, loose : Nat] /\ history \in [forgotten : SUBSET AllIds, strays : [Commands -> SUBSET Stray]]
    BY <1>1
  <2>4. idle \in Seq(Slots) /\ queue \in Seq(QItem)
    BY <1>1
  <2> QED
    BY <1>1, <2>1, <2>2, <2>3, <2>4 DEF Typed
<1>6. Pools
  <2>1. IsFiniteSet(Live)
    BY <1>4, FS_EmptySet
  <2> QED
    BY <1>1, <1>3, <2>1, BlankIs DEF Pools
<1>7. Handles
  BY <1>1, <1>3, <1>4 DEF Handles, Serves
<1>8. Registered
  BY <1>1, <1>3 DEF Registered, Serves
<1>9. Queued
  BY <1>1 DEF Queued
<1>10. Books
  <2>1. \A s \in Slots : op[s].pending = 0
    BY <1>3, BlankIs
  <2> QED
    BY <1>1, <1>2, <1>4, <2>1, NoWeight, SumEmpty DEF Books
<1>11. LooseKnown
  <2>1. closed # "budget"
    BY <1>1, <1>2 DEF Reasons
  <2> QED
    BY <1>1, <1>4, <2>1, NoWeight, SumEmpty DEF LooseKnown
<1>12. Homes
  BY <1>1, <1>3 DEF Homes, Serves
<1>13. RoutedHome
  BY <1>1 DEF RoutedHome
<1> QED
  BY <1>5, <1>6, <1>7, <1>8, <1>9, <1>10, <1>11, <1>12, <1>13 DEF DispatcherInv

--------------------------------------------------------------------------------
(* Registration.                                                             *)

\* An object that begins to serve a command.
LEMMA ServingIs ==
    ASSUME NEW c \in Commands, NEW g \in Nat
    PROVE  LET o == Serving([Blank EXCEPT !.gen = g], c) IN
           /\ o \in Operation /\ o.live /\ o.gen = g + 1 /\ o.ids = Requests[c] /\ o.convs = {}
           /\ o.bytes = 0 /\ o.pending = 0 /\ o.count \in Nat /\ Excess(o) = 0
<1> DEFINE b == [Blank EXCEPT !.gen = g]
           o == Serving(b, c)
           k == Max({1, Cardinality(Requests[c])})
           alias == [i \in AllIds |-> IF i \in Requests[c] THEN i ELSE None]
<1>1. b \in Operation /\ b.gen = g /\ b.convs = {} /\ b.bytes = 0 /\ b.pending = 0
  BY BlankIs
<1>2. Requests[c] \in SUBSET ClientIds /\ AgentOf[c] \in Agents \cup {None} /\ Cardinality(Requests[c]) \in Nat
  BY Constants, FS_CardinalityType
<1>3. k \in Nat
  <2>1. PICK m \in {1, Cardinality(Requests[c])} : \A n \in {1, Cardinality(Requests[c])} : m >= n
    BY <1>2
  <2>2. k \in {1, Cardinality(Requests[c])}
    BY <2>1 DEF Max
  <2> QED
    BY <1>2, <2>2
<1>4. alias \in [AllIds -> ClientIds \cup {None}] /\ Requests[c] \in SUBSET AllIds
  BY <1>2 DEF AllIds
<1>5. o = [b EXCEPT !.live = TRUE, !.gen = g + 1, !.agent = AgentOf[c], !.count = k,
                    !.ids = Requests[c], !.alias = alias]
  BY <1>1 DEF Serving
<1> HIDE DEF b, k, alias
<1>6. /\ o \in Operation /\ o.live /\ o.gen = g + 1 /\ o.ids = Requests[c] /\ o.convs = {}
      /\ o.bytes = 0 /\ o.pending = 0 /\ o.count = k
  <2>1. /\ o.live /\ o.gen = g + 1 /\ o.ids = Requests[c] /\ o.convs = {}
        /\ o.bytes = 0 /\ o.pending = 0 /\ o.count = k
    BY <1>1, <1>5 DEF Operation
  <2>2. /\ g + 1 \in Nat /\ Requests[c] \in SUBSET AllIds /\ TRUE \in BOOLEAN
        /\ alias \in [AllIds -> ClientIds \cup {None}] /\ k \in Nat /\ AgentOf[c] \in Agents \cup {None}
    BY <1>2, <1>3, <1>4
  <2>3. o \in Operation
    BY <1>1, <1>5, <2>2 DEF Operation
  <2> QED
    BY <2>1, <2>3
<1> HIDE DEF o
<1>7. Limit \in Nat
  BY Constants
<1>8. Limit * k \in Nat
  BY <1>3, <1>7
<1>9. Over(o) = 0 + 0 - Limit * k
  BY <1>6 DEF Over
<1>11. Excess(o) = 0
  BY <1>8, <1>9 DEF Excess
<1> QED
  BY <1>3, <1>6, <1>11 DEF o, b
\* The smallest object of some.
LEMMA MinIsSmallest == ASSUME NEW S \in SUBSET Slots, S # {} PROVE Min(S) \in S
<1>1. S \in SUBSET Nat
  BY Constants
<1>2. PICK n \in S : \A k \in S : n <= k
  BY <1>1, LeastElement
<1> QED
  BY <1>2 DEF Min

\* The object a command gets served nobody and leaves the pool.
LEMMA PooledObject ==
    ASSUME DispatcherInv, idle # <<>> \/ UnusedSlots # {}, NEW s, NEW rest,
           s = IF idle # <<>> THEN Last(idle) ELSE Min(UnusedSlots),
           rest = IF idle # <<>> THEN Front(idle) ELSE idle
    PROVE  /\ s \in Slots /\ ~op[s].live /\ rest \in Seq(Slots)
           /\ \A n, m \in DOMAIN rest : n # m => rest[n] # rest[m]
           /\ \A n \in DOMAIN rest : ~op[rest[n]].live /\ rest[n] # s
<1>1. idle \in Seq(Slots) /\ op \in [Slots -> Operation]
  BY DEF DispatcherInv, Typed
<1>2. /\ \A n, m \in DOMAIN idle : n # m => idle[n] # idle[m]
      /\ \A n \in DOMAIN idle : ~op[idle[n]].live
      /\ \A t \in Slots : op[t].live => op[t].gen > 0
  BY DEF DispatcherInv, Pools
<1>3. CASE idle # <<>>
  <2> DEFINE k == Len(idle)
  <2>1. /\ k \in Nat \ {0} /\ DOMAIN idle = 1..k /\ \A n \in 1..k : idle[n] \in Slots
    BY <1>1, <1>3
  <2>2. s = idle[k] /\ rest = SubSeq(idle, 1, k - 1)
    BY <1>3 DEF Last, Front
  <2>3. /\ rest \in Seq(Slots) /\ DOMAIN rest = 1..(k - 1)
        /\ \A n \in 1..(k - 1) : rest[n] = idle[n]
    BY <1>1, <2>1, <2>2
  <2> HIDE DEF k
  <2>4. k \in DOMAIN idle /\ \A n \in 1..(k - 1) : n \in DOMAIN idle /\ n # k
    BY <2>1
  <2> QED
    BY <1>2, <2>1, <2>2, <2>3, <2>4
<1>4. CASE idle = <<>>
  <2>1. s = Min(UnusedSlots) /\ rest = <<>> /\ UnusedSlots # {} /\ UnusedSlots \subseteq Slots
    BY <1>4 DEF UnusedSlots
  <2>2. s \in UnusedSlots
    BY <2>1, MinIsSmallest
  <2>3. s \in Slots /\ op[s].gen = 0
    BY <2>2 DEF UnusedSlots
  <2>4. ~op[s].live
    BY <1>2, <2>3
  <2>6. <<>> \in Seq(Slots) /\ DOMAIN <<>> = {}
    OBVIOUS
  <2>5. rest \in Seq(Slots) /\ DOMAIN rest = {}
    BY <2>1, <2>6
  <2> QED
    BY <2>3, <2>4, <2>5
<1> QED
  BY <1>3, <1>4

\* Adding up over the commands of a connection when one more is served.
LEMMA OneMoreServed ==
    ASSUME NEW L, IsFiniteSet(L), NEW s \in Slots, s \notin L, L \subseteq Slots, NEW f, NEW g,
           IntOn(f, Slots), IntOn(g, Slots), \A t \in L : g[t] = f[t]
    PROVE  SumFunctionOnSet(g, L \cup {s}) = SumFunctionOnSet(f, L) + g[s]
<1>1. IntOn(f, L) /\ IntOn(g, L \cup {s})
  BY DEF IntOn
<1>2. SumFunctionOnSet(g, L \cup {s}) = SumFunctionOnSet(g, L) + g[s]
  BY <1>1, SumAdd
<1>3. SumFunctionOnSet(f, L) = SumFunctionOnSet(g, L)
  BY <1>1, SumEqual
<1> QED
  BY <1>2, <1>3

\* The functions that the accounts add up have integers for values.
LEMMA AccountsAdd ==
    ASSUME NEW p \in [Slots -> Operation]
    PROVE  /\ IntOn(BytesW(p), Slots) /\ IntOn(BudgetW(p), Slots) /\ IntOn(ExcessW(p), Slots)
           /\ \A s \in Slots : BytesW(p)[s] = p[s].bytes /\ BudgetW(p)[s] = Limit * p[s].count
           /\ \A s \in Slots : ExcessW(p)[s] = Excess(p[s]) /\ Excess(p[s]) \in Nat
           /\ \A s \in Slots : p[s].bytes \in Int /\ p[s].pending \in Int /\ p[s].count \in Nat
           /\ \A s \in Slots : Limit * p[s].count \in Nat
<1>1. \A s \in Slots : p[s].bytes \in Int /\ p[s].pending \in Int /\ p[s].count \in Nat
  BY DEF Operation
<1>2. \A s \in Slots : Limit * p[s].count \in Nat
  BY <1>1, Constants
<1>3. ASSUME NEW s \in Slots PROVE Excess(p[s]) \in Nat
  <2>1. Over(p[s]) \in Int
    BY <1>1, <1>2 DEF Over
  <2> QED
    BY <2>1 DEF Excess
<1> QED
  BY <1>1, <1>2, <1>3 DEF BytesW, BudgetW, ExcessW, IntOn

\* Adding up naturals over what is live.
LEMMA SumsOverLive ==
    ASSUME NEW p \in [Slots -> Operation], NEW L \in SUBSET Slots, IsFiniteSet(L)
    PROVE  /\ SumFunctionOnSet(BytesW(p), L) \in Int /\ SumFunctionOnSet(BudgetW(p), L) \in Int
           /\ SumFunctionOnSet(ExcessW(p), L) \in Nat
<1>1. /\ IntOn(BytesW(p), L) /\ IntOn(BudgetW(p), L) /\ \A s \in L : ExcessW(p)[s] \in Nat
  BY AccountsAdd DEF IntOn
<1> QED
  BY <1>1, SumIsInt, SumIsNat
\* A command registers on the dispatcher of its connection.
LEMMA RegisterHereKeeps ==
    ASSUME DispatcherInv, NEW c \in Commands, NEW g, RegisterHere(c, g)
    PROVE  DispatcherInv'
<1> USE DEF DispatcherInv
<1> DEFINE s == IF idle # <<>> THEN Last(idle) ELSE Min(UnusedSlots)
<1>1. /\ life[c] = "new" /\ closed = None
      /\ idle # <<>> \/ UnusedSlots # {}
      /\ \A i \in Requests[c] : requests[i] = None
  BY DEF RegisterHere, Matches
<1>2. /\ op' = [op EXCEPT ![s] = Serving(op[s], c)]
      /\ idle' = IF idle # <<>> THEN Front(idle) ELSE idle
      /\ requests' = [i \in AllIds |-> IF i \in Requests[c] THEN s ELSE requests[i]]
      /\ handle' = [handle EXCEPT ![c] = [slot |-> s, gen |-> op[s].gen + 1]]
      /\ account' = [account EXCEPT !.budget = @ + Limit * op'[s].count]
      /\ retired' = retired \ Requests[c] /\ life' = [life EXCEPT ![c] = "open"]
      /\ UNCHANGED <<queue, closed, context, traffic, history>>
  BY DEF RegisterHere
<1>3. /\ s \in Slots /\ ~op[s].live /\ idle' \in Seq(Slots)
      /\ \A n, m \in DOMAIN idle' : n # m => idle'[n] # idle'[m]
      /\ \A n \in DOMAIN idle' : ~op[idle'[n]].live /\ idle'[n] # s
  BY <1>1, <1>2, PooledObject
<1> HIDE DEF s
<1> DEFINE k == op[s].gen
<1>4. /\ op \in [Slots -> Operation] /\ requests \in [AllIds -> Slots \cup {None}] /\ retired \subseteq AllIds
      /\ handle \in [Commands -> [slot : Slots, gen : Nat] \cup {None}] /\ queue \in Seq(QItem)
      /\ account \in [reserved : Int, retained : Int, budget : Int] /\ Requests[c] \subseteq AllIds
      /\ life \in [Commands -> {"new", "open", "done", "refused"}]
  BY Constants DEF Typed, AllIds
<1>5. k \in Nat /\ op[s] = [Blank EXCEPT !.gen = k]
  BY <1>3, <1>4 DEF Pools, Operation
<1> HIDE DEF k
<1>6. /\ op' \in [Slots -> Operation] /\ op'[s] = Serving(op[s], c)
      /\ \A t \in Slots : t # s => op'[t] = op[t]
      /\ op'[s].live /\ op'[s].gen = k + 1 /\ op'[s].ids = Requests[c] /\ op'[s].convs = {}
      /\ op'[s].bytes = 0 /\ op'[s].pending = 0 /\ op'[s].count \in Nat /\ Excess(op'[s]) = 0
  <2>1. Serving(op[s], c) \in Operation
    BY <1>5, ServingIs
  <2>2. op' \in [Slots -> Operation] /\ op'[s] = Serving(op[s], c) /\ \A t \in Slots : t # s => op'[t] = op[t]
    BY <1>2, <1>3, <1>4, <2>1
  <2> QED
    BY <1>5, <2>2, ServingIs
<1>7. Live' = Live \cup {s} /\ s \notin Live /\ IsFiniteSet(Live) /\ Live \subseteq Slots
  BY <1>3, <1>6 DEF Live, Pools
<1>8. handle'[c] = [slot |-> s, gen |-> k + 1] /\ \A d \in Commands : d # c => handle'[d] = handle[d]
  BY <1>2, <1>4 DEF k
<1>9. ASSUME NEW t \in Slots, NEW d \in Commands
      PROVE  Serves(t, d)' <=> IF d = c THEN t = s ELSE t # s /\ Serves(t, d)
  <2>1. Serves(t, d)' <=> op'[t].live /\ handle'[d] = [slot |-> t, gen |-> op'[t].gen]
    BY DEF Serves
  <2>2. CASE d = c
    BY <1>6, <1>8, <2>1, <2>2
  <2>3. CASE d # c /\ t # s
    BY <1>6, <1>8, <2>1, <2>3 DEF Serves
  <2>4. CASE d # c /\ t = s
    <3>1. handle[d] # [slot |-> s, gen |-> k + 1]
      <4> SUFFICES ASSUME handle[d] = [slot |-> s, gen |-> k + 1] PROVE FALSE
        OBVIOUS
      <4>1. [slot |-> s, gen |-> k + 1] \in [slot : Slots, gen : Nat]
        BY <1>3, <1>5
      <4>2. handle[d] # None
        BY <4>1, Constants
      <4>3. handle[d].gen <= op[handle[d].slot].gen /\ handle[d].slot = s /\ handle[d].gen = k + 1
        BY <4>2 DEF Handles
      <4> QED
        BY <1>5, <4>3 DEF k
    <3> QED
      BY <1>6, <1>8, <2>1, <2>4, <3>1
  <2> QED
    BY <2>2, <2>3, <2>4
<1>10. Typed'
  <2>1. requests' \in [AllIds -> Slots \cup {None}] /\ retired' \subseteq AllIds
    BY <1>2, <1>3, <1>4
  <2>2. handle' \in [Commands -> [slot : Slots, gen : Nat] \cup {None}]
    <3>1. [slot |-> s, gen |-> k + 1] \in [slot : Slots, gen : Nat]
      BY <1>3, <1>5
    <3> QED
      BY <1>2, <1>4, <3>1 DEF k
  <2>3. account' \in [reserved : Int, retained : Int, budget : Int]
    <3>1. Limit * op'[s].count \in Int
      BY <1>6, Constants
    <3> DEFINE more == Limit * op'[s].count
    <3>2. account' = [account EXCEPT !.budget = @ + more] /\ more \in Int
      BY <1>2, <3>1
    <3> HIDE DEF more
    <3> QED
      BY <1>4, <3>2
  <2>4. life' \in [Commands -> {"new", "open", "done", "refused"}]
    BY <1>2, <1>4
  <2> QED
    BY <1>2, <1>3, <1>6, <2>1, <2>2, <2>3, <2>4 DEF Typed
<1>11. Pools'
  <2>1. IsFiniteSet(Live')
    BY <1>7, FS_AddElement
  <2>2. \A n \in DOMAIN idle' : ~op'[idle'[n]].live
    <3> SUFFICES ASSUME NEW n \in DOMAIN idle' PROVE ~op'[idle'[n]].live
      OBVIOUS
    <3>1. idle'[n] \in Slots /\ idle'[n] # s
      BY <1>3
    <3> QED
      BY <1>3, <1>6, <3>1
  <2>3. \A t \in Slots : op'[t].live => op'[t].gen > 0 /\ None \notin op'[t].convs
    BY <1>5, <1>6 DEF Pools
  <2>4. \A t \in Slots : ~op'[t].live => op'[t] = [Blank EXCEPT !.gen = op'[t].gen]
    BY <1>6 DEF Pools
  <2> QED
    BY <1>3, <2>1, <2>2, <2>3, <2>4 DEF Pools
<1>12. Handles'
  <2>1. \A d \in Commands : handle'[d] # None => handle'[d].gen <= op'[handle'[d].slot].gen
    <3> SUFFICES ASSUME NEW d \in Commands, handle'[d] # None
                 PROVE  handle'[d].gen <= op'[handle'[d].slot].gen
      OBVIOUS
    <3>1. CASE d = c
      BY <1>5, <1>6, <1>8, <3>1
    <3>2. CASE d # c
      <4>1. /\ handle'[d] = handle[d] /\ handle[d].slot \in Slots /\ handle[d].gen \in Nat
            /\ handle[d].gen <= op[handle[d].slot].gen
        BY <1>4, <1>8, <3>2 DEF Handles
      <4>2. CASE handle[d].slot = s
        BY <1>5, <1>6, <4>1, <4>2 DEF k
      <4>3. CASE handle[d].slot # s
        BY <1>6, <4>1, <4>3
      <4> QED
        BY <4>2, <4>3
    <3> QED
      BY <3>1, <3>2
  <2>2. ASSUME NEW d \in Commands, NEW e \in Commands, d # e, handle'[d] = handle'[e]
        PROVE  handle'[d] = None
    <3>1. \A f \in Commands : f # c => handle[f] # handle'[c]
      <4> SUFFICES ASSUME NEW f \in Commands, f # c, handle[f] = handle'[c] PROVE FALSE
        OBVIOUS
      <4>1. [slot |-> s, gen |-> k + 1] \in [slot : Slots, gen : Nat]
        BY <1>3, <1>5
      <4>2. handle[f] # None
        BY <1>8, <4>1, Constants
      <4>3. handle[f].gen <= op[handle[f].slot].gen /\ handle[f].slot = s /\ handle[f].gen = k + 1
        BY <1>8, <4>2 DEF Handles
      <4> QED
        BY <1>5, <4>3 DEF k
    <3> QED
      BY <1>8, <2>2, <3>1 DEF Handles
  <2>3. \A t \in Live' : \E d \in Commands : Serves(t, d)'
    <3> SUFFICES ASSUME NEW t \in Live' PROVE \E d \in Commands : Serves(t, d)'
      OBVIOUS
    <3>1. CASE t = s
      BY <1>3, <1>9, <3>1
    <3>2. CASE t # s
      <4>1. t \in Live /\ t \in Slots
        BY <1>7, <3>2
      <4>2. PICK d \in Commands : Serves(t, d)
        BY <4>1 DEF Handles
      <4>3. life[d] = "open"
        BY <4>1, <4>2 DEF Handles
      <4>4. d # c
        BY <1>1, <4>3
      <4> QED
        BY <1>9, <3>2, <4>1, <4>2, <4>4
    <3> QED
      BY <3>1, <3>2
  <2>4. \A t \in Slots, d \in Commands : Serves(t, d)' => life'[d] = "open"
    BY <1>2, <1>4, <1>9 DEF Handles
  <2>5. ASSUME NEW d \in Commands, life'[d] = "open"
        PROVE  handle'[d] # None /\ Serves(handle[d].slot, d)'
    <3>1. CASE d = c
      <4>1. [slot |-> s, gen |-> k + 1] \in [slot : Slots, gen : Nat]
        BY <1>3, <1>5
      <4>2. handle'[d] # None
        BY <1>8, <3>1, <4>1, Constants
      <4> QED
        BY <1>6, <1>8, <3>1, <4>2 DEF Serves
    <3>2. CASE d # c
      <4>1. life[d] = "open" /\ handle'[d] = handle[d]
        BY <1>2, <1>4, <1>8, <2>5, <3>2
      <4>2. handle[d] # None /\ Serves(handle[d].slot, d)
        BY <4>1 DEF Handles
      <4>3. handle[d].slot \in Slots /\ op[handle[d].slot].live
        BY <1>4, <4>2 DEF Serves
      <4>4. handle[d].slot # s
        BY <1>3, <4>3
      <4>5. op'[handle[d].slot] = op[handle[d].slot]
        BY <1>6, <4>3, <4>4
      <4> QED
        BY <4>1, <4>2, <4>5 DEF Serves
    <3> QED
      BY <3>1, <3>2
  <2> QED
    BY <2>1, <2>2, <2>3, <2>4, <2>5 DEF Handles
<1>13. Registered'
  <2>1. ASSUME NEW i \in AllIds, requests'[i] # None
        PROVE  op'[requests'[i]].live /\ i \in op'[requests'[i]].ids
    <3>1. CASE i \in Requests[c]
      BY <1>2, <1>6, <3>1
    <3>2. CASE i \notin Requests[c]
      <4>1. requests'[i] = requests[i] /\ requests[i] \in Slots
        BY <1>2, <1>4, <2>1, <3>2
      <4>2. op[requests[i]].live /\ i \in op[requests[i]].ids
        BY <2>1, <4>1 DEF Registered
      <4> QED
        BY <1>3, <1>6, <4>1, <4>2
    <3> QED
      BY <3>1, <3>2
  <2>2. ASSUME NEW t \in Slots, NEW d \in Commands, Serves(t, d)', NEW i \in Requests[d]
        PROVE  requests'[i] = t
    <3>1. i \in AllIds
      BY Constants DEF AllIds
    <3>2. CASE d = c
      BY <1>2, <1>9, <2>2, <3>1, <3>2
    <3>3. CASE d # c
      <4>1. i \notin Requests[c] /\ Serves(t, d)
        BY <1>9, <2>2, <3>3, Constants
      <4> QED
        BY <1>2, <3>1, <4>1 DEF Registered
    <3> QED
      BY <3>2, <3>3
  <2> QED
    BY <2>1, <2>2 DEF Registered
<1>14. Queued'
  <2>1. ASSUME NEW n \in DOMAIN queue
        PROVE  /\ Told(queue[n].e)'
               /\ queue[n].owner # None => \E i \in queue[n].e.head : requests'[i] = queue[n].owner
    <3>1. /\ Told(queue[n].e)
          /\ queue[n].owner # None => \E i \in queue[n].e.head : requests[i] = queue[n].owner
      BY DEF Queued
    <3>2. Told(queue[n].e)'
      BY <1>2, <1>4, <3>1 DEF Told
    <3>3. ASSUME queue[n].owner # None
          PROVE  \E i \in queue[n].e.head : requests'[i] = queue[n].owner
      <4>1. PICK i \in queue[n].e.head : requests[i] = queue[n].owner
        BY <3>1, <3>3
      <4>2. queue[n] \in QItem
        BY <1>4
      <4>3. i \in AllIds
        BY <4>2, QItemIs, EventWeights
      <4>4. i \notin Requests[c]
        BY <1>1, <3>3, <4>1
      <4> QED
        BY <1>2, <4>1, <4>3, <4>4
    <3> QED
      BY <3>2, <3>3
  <2> QED
    BY <1>2, <2>1 DEF Queued
<1>15. Books'
  <2>1. \A t \in Slots : op'[t].pending = op[t].pending
    <3>1. op[s].pending = 0
      BY <1>5, BlankIs
    <3> QED
      BY <1>3, <1>6, <3>1
  <2>2. account'.reserved = account.reserved /\ account'.retained = account.retained
        /\ account'.budget = account.budget + Limit * op'[s].count
    BY <1>2, <1>4
  <2>3. /\ IntOn(BytesW(op), Slots) /\ IntOn(BudgetW(op), Slots)
        /\ IntOn(BytesW(op'), Slots) /\ IntOn(BudgetW(op'), Slots)
    BY <1>4, <1>6, AccountsAdd
  <2>4. \A t \in Live : BytesW(op')[t] = BytesW(op)[t] /\ BudgetW(op')[t] = BudgetW(op)[t]
    BY <1>6, <1>7 DEF BytesW, BudgetW
  <2>5. BytesW(op')[s] = 0 /\ BudgetW(op')[s] = Limit * op'[s].count
    BY <1>3, <1>6 DEF BytesW, BudgetW
  <2>10. SumFunctionOnSet(BytesW(op'), Live \cup {s}) = SumFunctionOnSet(BytesW(op), Live) + BytesW(op')[s]
    <3> DEFINE L == Live
               now == BytesW(op)
               then == BytesW(op')
    <3>1. /\ IsFiniteSet(L) /\ s \in Slots /\ s \notin L /\ L \subseteq Slots
          /\ IntOn(now, Slots) /\ IntOn(then, Slots) /\ \A t \in L : then[t] = now[t]
      BY <1>3, <1>7, <2>3, <2>4
    <3> HIDE DEF L, now, then
    <3>2. SumFunctionOnSet(then, L \cup {s}) = SumFunctionOnSet(now, L) + then[s]
      BY <3>1, OneMoreServed
    <3> QED
      BY <3>2 DEF L, now, then
  <2>11. SumFunctionOnSet(BudgetW(op'), Live \cup {s}) = SumFunctionOnSet(BudgetW(op), Live) + BudgetW(op')[s]
    <3> DEFINE L == Live
               now == BudgetW(op)
               then == BudgetW(op')
    <3>1. /\ IsFiniteSet(L) /\ s \in Slots /\ s \notin L /\ L \subseteq Slots
          /\ IntOn(now, Slots) /\ IntOn(then, Slots) /\ \A t \in L : then[t] = now[t]
      BY <1>3, <1>7, <2>3, <2>4
    <3> HIDE DEF L, now, then
    <3>2. SumFunctionOnSet(then, L \cup {s}) = SumFunctionOnSet(now, L) + then[s]
      BY <3>1, OneMoreServed
    <3> QED
      BY <3>2 DEF L, now, then
  <2>6. /\ SumFunctionOnSet(BytesW(op'), Live') = SumFunctionOnSet(BytesW(op), Live) + BytesW(op')[s]
        /\ SumFunctionOnSet(BudgetW(op'), Live') = SumFunctionOnSet(BudgetW(op), Live) + BudgetW(op')[s]
    BY <1>7, <2>10, <2>11
  <2>7. /\ SumFunctionOnSet(BytesW(op), Live) \in Int /\ SumFunctionOnSet(BudgetW(op), Live) \in Int
        /\ Limit * op'[s].count \in Int /\ Reserve \in Int
    BY <1>4, <1>6, <1>7, SumsOverLive, Constants
  <2>8. account'.retained = SumFunctionOnSet(BytesW(op'), Live')
    BY <2>2, <2>5, <2>6, <2>7 DEF Books
  <2>9. account'.budget = Reserve + SumFunctionOnSet(BudgetW(op'), Live')
    <3>1. account.budget = Reserve + SumFunctionOnSet(BudgetW(op), Live)
      BY DEF Books
    <3> DEFINE more == Limit * op'[s].count
               sum == SumFunctionOnSet(BudgetW(op), Live)
    <3>2. account'.budget = account.budget + more /\ account.budget = Reserve + sum
          /\ SumFunctionOnSet(BudgetW(op'), Live') = sum + more
          /\ more \in Int /\ sum \in Int /\ Reserve \in Int
      BY <2>2, <2>5, <2>6, <2>7, <3>1
    <3> HIDE DEF more, sum
    <3> QED
      BY <3>2
  <2> QED
    BY <1>1, <1>2, <2>1, <2>2, <2>8, <2>9 DEF Books
<1>16. LooseKnown'
  <2>1. IntOn(ExcessW(op), Slots) /\ IntOn(ExcessW(op'), Slots)
    BY <1>4, <1>6, AccountsAdd
  <2>2. (\A t \in Live : ExcessW(op')[t] = ExcessW(op)[t]) /\ ExcessW(op')[s] = 0
    BY <1>3, <1>6, <1>7 DEF ExcessW
  <2>6. SumFunctionOnSet(ExcessW(op'), Live \cup {s}) = SumFunctionOnSet(ExcessW(op), Live) + ExcessW(op')[s]
    <3> DEFINE L == Live
               now == ExcessW(op)
               then == ExcessW(op')
    <3>1. /\ IsFiniteSet(L) /\ s \in Slots /\ s \notin L /\ L \subseteq Slots
          /\ IntOn(now, Slots) /\ IntOn(then, Slots) /\ \A t \in L : then[t] = now[t]
      BY <1>3, <1>7, <2>1, <2>2
    <3> HIDE DEF L, now, then
    <3>2. SumFunctionOnSet(then, L \cup {s}) = SumFunctionOnSet(now, L) + then[s]
      BY <3>1, OneMoreServed
    <3> QED
      BY <3>2 DEF L, now, then
  <2>3. SumFunctionOnSet(ExcessW(op'), Live') = SumFunctionOnSet(ExcessW(op), Live) + ExcessW(op')[s]
    BY <1>7, <2>6
  <2>4. SumFunctionOnSet(ExcessW(op), Live) \in Nat
    BY <1>4, <1>7, SumsOverLive
  <2>5. SumFunctionOnSet(ExcessW(op'), Live') = SumFunctionOnSet(ExcessW(op), Live)
    BY <2>2, <2>3, <2>4
  <2> QED
    BY <1>2, <2>5 DEF LooseKnown
<1>17. Homes'
  <2>1. ASSUME NEW t \in Slots, NEW d \in Commands, NEW e \in Commands,
               Serves(t, d)', d # e, op'[t].ids \cap Own(e) # {}
        PROVE  Requests[e] \subseteq history.forgotten
    <3>1. CASE d = c
      <4>1. op'[t].ids = Requests[c] /\ Requests[c] \subseteq Own(c)
        BY <1>6, <1>9, <2>1, <3>1 DEF Own
      <4> QED
        BY <2>1, <3>1, <4>1, OwnApart
    <3>2. CASE d # c
      <4>1. Serves(t, d) /\ op'[t] = op[t]
        BY <1>6, <1>9, <2>1, <3>2
      <4> QED
        BY <2>1, <4>1 DEF Homes
    <3> QED
      BY <3>1, <3>2
  <2>2. ASSUME NEW d \in Commands, life'[d] = "done"
        PROVE  Requests[d] \subseteq retired' \/ Requests[d] \subseteq history.forgotten
    <3>1. d # c /\ life[d] = "done"
      BY <1>2, <1>4, <2>2
    <3>2. Requests[d] \cap Requests[c] = {}
      BY <3>1, Constants
    <3> QED
      BY <1>2, <3>1, <3>2 DEF Homes
  <2> QED
    BY <1>2, <2>1, <2>2 DEF Homes
<1>18. RoutedHome'
  BY <1>2 DEF RoutedHome
<1> QED
  BY <1>10, <1>11, <1>12, <1>13, <1>14, <1>15, <1>16, <1>17, <1>18
--------------------------------------------------------------------------------
(* Steps that leave the operations what they are.                            *)

\* Every operation is alike, and what serves nobody stays as it is.
ShapeKept ==
    /\ op' \in [Slots -> Operation]
    /\ \A s \in Slots : Alike(op[s], op'[s]) /\ (~op[s].live => op'[s] = op[s])

\* Operations that serve the same commands.
FormKept ==
    /\ op' \in [Slots -> Operation]
    /\ \A s \in Slots : /\ op'[s].live = op[s].live /\ op'[s].gen = op[s].gen
                        /\ None \notin op[s].convs => None \notin op'[s].convs
                        /\ ~op[s].live => op'[s] = op[s]

\* Such a step changes nothing about who is served, and by which object.
LEMMA FormKeeps ==
    ASSUME DispatcherInv, FormKept, UNCHANGED <<idle, handle, life>>
    PROVE  /\ Live' = Live /\ (\A s \in Slots, c \in Commands : Serves(s, c)' <=> Serves(s, c))
           /\ Pools' /\ Handles'
<1> USE DEF DispatcherInv
<1>1. /\ op \in [Slots -> Operation] /\ op' \in [Slots -> Operation] /\ idle \in Seq(Slots)
      /\ handle \in [Commands -> [slot : Slots, gen : Nat] \cup {None}]
  BY DEF Typed, FormKept
<1>2. \A s \in Slots : /\ op'[s].live = op[s].live /\ op'[s].gen = op[s].gen
                       /\ (None \notin op[s].convs => None \notin op'[s].convs)
                       /\ (~op[s].live => op'[s] = op[s])
  BY DEF FormKept
<1>3. Live' = Live /\ Live \subseteq Slots
  BY <1>2 DEF Live
<1>4. \A s \in Slots, c \in Commands : Serves(s, c)' <=> Serves(s, c)
  BY <1>2 DEF Serves
<1>5. Pools'
  <2>1. \A n \in DOMAIN idle : idle[n] \in Slots /\ ~op'[idle[n]].live
    BY <1>1, <1>2 DEF Pools
  <2>2. \A n, m \in DOMAIN idle : n # m => idle[n] # idle[m]
    BY DEF Pools
  <2>3. \A s \in Slots : op'[s].live => op'[s].gen > 0 /\ None \notin op'[s].convs
    BY <1>2 DEF Pools
  <2>4. \A s \in Slots : ~op'[s].live => op'[s] = [Blank EXCEPT !.gen = op'[s].gen]
    BY <1>2 DEF Pools
  <2>5. IsFiniteSet(Live')
    BY <1>3 DEF Pools
  <2> QED
    BY <2>1, <2>2, <2>3, <2>4, <2>5 DEF Pools
<1>6. Handles'
  <2>1. ASSUME NEW c \in Commands, handle[c] # None
        PROVE  /\ handle[c].gen <= op'[handle[c].slot].gen
               /\ Serves(handle[c].slot, c)' <=> Serves(handle[c].slot, c)
    <3>1. handle[c].slot \in Slots
      BY <1>1, <2>1
    <3>2. op'[handle[c].slot].live = op[handle[c].slot].live /\ op'[handle[c].slot].gen = op[handle[c].slot].gen
      BY <1>2, <3>1
    <3>3. handle[c].gen <= op[handle[c].slot].gen
      BY <2>1 DEF Handles
    <3> QED
      BY <3>2, <3>3 DEF Serves
  <2>2. \A c, d \in Commands : c # d /\ handle[c] = handle[d] => handle[c] = None
    BY DEF Handles
  <2>3. \A s \in Live' : \E c \in Commands : Serves(s, c)'
    BY <1>3, <1>4 DEF Handles
  <2>4. \A s \in Slots, c \in Commands : Serves(s, c)' => life[c] = "open"
    BY <1>4 DEF Handles
  <2>5. \A c \in Commands : life[c] = "open" => handle[c] # None /\ Serves(handle[c].slot, c)'
    BY <2>1 DEF Handles
  <2> QED
    BY <2>1, <2>2, <2>3, <2>4, <2>5 DEF Handles
<1> QED
  BY <1>3, <1>4, <1>5, <1>6

\* Nor do operations of the same shape change what is retained, allowed and known.
LEMMA ShapeKeeps ==
    ASSUME DispatcherInv, ShapeKept, UNCHANGED <<idle, requests, retired, handle, life, history>>
    PROVE  /\ Live' = Live /\ (\A s \in Slots, c \in Commands : Serves(s, c)' <=> Serves(s, c))
           /\ Pools' /\ Handles' /\ Registered' /\ Homes' /\ RoutedHome'
           /\ account.retained = SumFunctionOnSet(BytesW(op'), Live')
           /\ account.budget = Reserve + SumFunctionOnSet(BudgetW(op'), Live')
<1> USE DEF DispatcherInv
<1>1. /\ op \in [Slots -> Operation] /\ op' \in [Slots -> Operation] /\ idle \in Seq(Slots)
      /\ requests \in [AllIds -> Slots \cup {None}]
      /\ handle \in [Commands -> [slot : Slots, gen : Nat] \cup {None}]
  BY DEF Typed, ShapeKept
<1>2. \A s \in Slots : /\ op'[s].live = op[s].live /\ op'[s].gen = op[s].gen /\ op'[s].ids = op[s].ids
                       /\ (None \notin op[s].convs => None \notin op'[s].convs) /\ op'[s].bytes = op[s].bytes
                       /\ op'[s].count = op[s].count /\ (~op[s].live => op'[s] = op[s])
  BY DEF ShapeKept, Alike
<1>0. FormKept
  BY <1>1, <1>2 DEF FormKept
<1>3. /\ Live' = Live /\ Live \subseteq Slots
      /\ (\A s \in Slots, c \in Commands : Serves(s, c)' <=> Serves(s, c))
      /\ Pools' /\ Handles'
  BY <1>0, FormKeeps DEF Live
<1>4. \A s \in Slots, c \in Commands : Serves(s, c)' <=> Serves(s, c)
  BY <1>3
<1>7. Registered'
  <2>1. \A i \in AllIds : requests[i] # None => op'[requests[i]].live /\ i \in op'[requests[i]].ids
    BY <1>1, <1>2 DEF Registered
  <2>2. \A s \in Slots, c \in Commands : Serves(s, c)' => \A i \in Requests[c] : requests[i] = s
    BY <1>4 DEF Registered
  <2> QED
    BY <2>1, <2>2 DEF Registered
<1>8. Homes'
  <2>1. \A s \in Slots, c, d \in Commands : Serves(s, c)' /\ c # d /\ op'[s].ids \cap Own(d) # {}
          => Requests[d] \subseteq history.forgotten
    BY <1>2, <1>4 DEF Homes
  <2>2. \A c \in Commands : life[c] = "done" =>
          Requests[c] \subseteq retired \/ Requests[c] \subseteq history.forgotten
    BY DEF Homes
  <2> QED
    BY <2>1, <2>2 DEF Homes
<1>9. RoutedHome'
  BY DEF RoutedHome
<1>10. /\ SumFunctionOnSet(BytesW(op), Live) = SumFunctionOnSet(BytesW(op'), Live)
       /\ SumFunctionOnSet(BudgetW(op), Live) = SumFunctionOnSet(BudgetW(op'), Live)
  <2>1. IsFiniteSet(Live)
    BY DEF Pools
  <2>2. IntOn(BytesW(op), Live) /\ IntOn(BudgetW(op), Live)
    BY <1>1, <1>3, AccountsAdd DEF IntOn
  <2>3. \A s \in Live : BytesW(op)[s] = BytesW(op')[s] /\ BudgetW(op)[s] = BudgetW(op')[s]
    BY <1>2, <1>3 DEF BytesW, BudgetW
  <2> QED
    BY <2>1, <2>2, <2>3, SumEqual
<1>11. /\ account.retained = SumFunctionOnSet(BytesW(op), Live)
       /\ account.budget = Reserve + SumFunctionOnSet(BudgetW(op), Live)
  BY DEF Books
<1>12. /\ account.retained = SumFunctionOnSet(BytesW(op'), Live')
       /\ account.budget = Reserve + SumFunctionOnSet(BudgetW(op'), Live')
  BY <1>3, <1>10, <1>11
<1> QED
  BY <1>3, <1>7, <1>8, <1>9, <1>12

\* A dispatcher that closes lets go of its queue; over its budget it is only by what no
\* command was charged for.
LEMMA ClosingKeeps ==
    ASSUME DispatcherInv, ShapeKept, UNCHANGED <<idle, requests, retired, handle, life, history>>,
           closed' \in Reasons, queue' = <<>>, traffic' \in [sent : Nat, loose : Nat],
           account' = [account EXCEPT !.reserved = 0],
           closed' = "budget" => traffic'.loose > Reserve
    PROVE  DispatcherInv'
<1> USE DEF DispatcherInv
<1>1. account' \in [reserved : Int, retained : Int, budget : Int]
      /\ account'.retained = account.retained /\ account'.budget = account.budget
  <2>1. account \in [reserved : Int, retained : Int, budget : Int]
    BY DEF Typed
  <2> QED
    BY <2>1
<1>2. closed' # None
  BY Constants
<1>3. Typed'
  <2>1. queue' \in Seq(QItem) /\ closed' \in Reasons \cup {None}
    OBVIOUS
  <2> QED
    BY <1>1, <2>1 DEF Typed, ShapeKept
<1>4. Pools' /\ Handles' /\ Registered' /\ Homes' /\ RoutedHome'
  BY ShapeKeeps
<1>5. Queued'
  BY DEF Queued
<1>6. Books'
  <2>1. /\ account.retained = SumFunctionOnSet(BytesW(op'), Live')
        /\ account.budget = Reserve + SumFunctionOnSet(BudgetW(op'), Live')
    BY ShapeKeeps
  <2> QED
    BY <1>1, <1>2, <2>1 DEF Books
<1>7. LooseKnown'
  BY <1>2 DEF LooseKnown
<1> QED
  BY <1>3, <1>4, <1>5, <1>6, <1>7

\* Operations that stay keep their shape.
LEMMA SameShape == ASSUME Typed, UNCHANGED op PROVE ShapeKept
BY DEF Typed, ShapeKept, Alike

\* The transport of the connection ends, or a chunk handler rejects.
LEMMA ConnectionEndsKeeps == ASSUME DispatcherInv, ConnectionEnds \/ HandlerRejects PROVE DispatcherInv'
<1>1. /\ closed' \in {"ended", "rejected"} /\ queue' = <<>> /\ account' = [account EXCEPT !.reserved = 0]
      /\ UNCHANGED <<op, idle, requests, retired, handle, life, traffic, history>>
  BY DEF ConnectionEnds, HandlerRejects, CloseWith
<1>2. ShapeKept /\ traffic' \in [sent : Nat, loose : Nat] /\ closed' \in Reasons /\ closed' # "budget"
  BY <1>1, SameShape DEF DispatcherInv, Typed, Reasons
<1> QED
  BY <1>1, <1>2, ClosingKeeps

\* A command of another signing context is refused.
LEMMA RegisterRefusedKeeps ==
    ASSUME DispatcherInv, NEW c \in Commands, NEW g, RegisterRefused(c, g)
    PROVE  DispatcherInv'
<1> USE DEF DispatcherInv
<1>1. /\ life[c] = "new" /\ life' = [life EXCEPT ![c] = "refused"]
      /\ UNCHANGED <<op, idle, requests, retired, handle, queue, account, closed, context, traffic, history>>
  BY DEF RegisterRefused
<1>2. /\ life' \in [Commands -> {"new", "open", "done", "refused"}]
      /\ \A d \in Commands : d # c => life'[d] = life[d]
      /\ life'[c] = "refused"
  BY <1>1 DEF Typed
<1>3. Typed'
  BY <1>1, <1>2 DEF Typed
<1>4. Pools'
  BY <1>1 DEF Pools, Live
<1>5. \A d \in Commands : (life'[d] = "open" <=> life[d] = "open") /\ (life'[d] = "done" <=> life[d] = "done")
  BY <1>1, <1>2
<1>6. Live' = Live /\ \A s \in Slots, d \in Commands : Serves(s, d)' <=> Serves(s, d)
  BY <1>1 DEF Live, Serves
<1>7. Handles'
  <2>1. \A d \in Commands : life[d] = "open" => handle[d] # None /\ Serves(handle[d].slot, d)'
    BY <1>1 DEF Handles, Serves
  <2>2. /\ \A d \in Commands : handle'[d] # None => handle'[d].gen <= op'[handle'[d].slot].gen
        /\ \A d, e \in Commands : d # e /\ handle'[d] = handle'[e] => handle'[d] = None
    BY <1>1 DEF Handles
  <2>3. \A s \in Live' : \E d \in Commands : Serves(s, d)'
    <3>1. \A s \in Live : s \in Slots /\ \E d \in Commands : Serves(s, d)
      BY DEF Handles, Live
    <3> QED
      BY <1>6, <3>1
  <2>4. \A s \in Slots, d \in Commands : Serves(s, d)' => life'[d] = "open"
    BY <1>5, <1>6 DEF Handles
  <2>5. \A d \in Commands : life'[d] = "open" => handle'[d] # None /\ Serves(handle[d].slot, d)'
    BY <1>1, <1>5, <2>1
  <2> QED
    BY <2>2, <2>3, <2>4, <2>5 DEF Handles
<1>8. Registered'
  BY <1>1, <1>6 DEF Registered
<1>9. Queued'
  BY <1>1, <1>5 DEF Queued, Told
<1>10. Books'
  BY <1>1, <1>6 DEF Books
<1>11. LooseKnown'
  BY <1>1, <1>6 DEF LooseKnown
<1>12. Homes'
  BY <1>1, <1>5, <1>6 DEF Homes
<1>13. RoutedHome'
  BY <1>1 DEF RoutedHome
<1> QED
  BY <1>3, <1>4, <1>7, <1>8, <1>9, <1>10, <1>11, <1>12, <1>13
\* A connection without a fitting dispatcher gets one.
LEMMA RegisterAnewKeeps ==
    ASSUME DispatcherInv, NEW c \in Commands, NEW g, RegisterAnew(c, g)
    PROVE  DispatcherInv'
<1> USE DEF DispatcherInv
<1> DEFINE s == Min(Slots)
           o == Serving(Blank, c)
<1>1. life[c] = "new"
  BY DEF RegisterAnew
<1>2. /\ op' = [[t \in Slots |-> Blank] EXCEPT ![s] = o]
      /\ requests' = [i \in AllIds |-> IF i \in Requests[c] THEN s ELSE None]
      /\ handle' = [[d \in Commands |-> None] EXCEPT ![c] = [slot |-> s, gen |-> 1]]
      /\ account' = [reserved |-> 0, retained |-> 0, budget |-> Reserve + Limit * op'[s].count]
      /\ idle' = <<>> /\ retired' = {} /\ queue' = <<>> /\ closed' = None
      /\ life' = [d \in Commands |-> IF d = c THEN "open"
                                     ELSE IF life[d] = "open" THEN "done" ELSE life[d]]
      /\ traffic' = [traffic EXCEPT !.loose = 0]
      /\ history' = [history EXCEPT !.forgotten = @ \cup retired \cup UNION {op[t].ids : t \in Slots}]
  BY DEF RegisterAnew
<1>3. s \in Slots
  BY Constants, MinIsSmallest
<1> HIDE DEF s
<1>4. /\ op \in [Slots -> Operation] /\ retired \subseteq AllIds /\ Requests[c] \subseteq AllIds
      /\ handle \in [Commands -> [slot : Slots, gen : Nat] \cup {None}]
      /\ life \in [Commands -> {"new", "open", "done", "refused"}]
      /\ traffic \in [sent : Nat, loose : Nat]
      /\ history \in [forgotten : SUBSET AllIds, strays : [Commands -> SUBSET Stray]]
  BY Constants DEF Typed, AllIds
<1>5. /\ o \in Operation /\ o.live /\ o.gen = 1 /\ o.ids = Requests[c] /\ o.convs = {}
      /\ o.bytes = 0 /\ o.pending = 0 /\ o.count \in Nat /\ Excess(o) = 0
  <2>1. [Blank EXCEPT !.gen = 0] = Blank
    BY BlankIs
  <2>2. LET p == Serving([Blank EXCEPT !.gen = 0], c) IN
        /\ p \in Operation /\ p.live /\ p.gen = 0 + 1 /\ p.ids = Requests[c] /\ p.convs = {}
        /\ p.bytes = 0 /\ p.pending = 0 /\ p.count \in Nat /\ Excess(p) = 0
    BY ServingIs
  <2> QED
    BY <2>1, <2>2
<1> HIDE DEF o
<1>6. /\ op' \in [Slots -> Operation] /\ op'[s] = o /\ \A t \in Slots : t # s => op'[t] = Blank
  BY <1>2, <1>3, <1>5, BlankIs
<1>7. Live' = {s}
  BY <1>3, <1>5, <1>6, BlankIs DEF Live
<1>8. /\ handle'[c] = [slot |-> s, gen |-> 1] /\ \A d \in Commands : d # c => handle'[d] = None
      /\ [slot |-> s, gen |-> 1] \in [slot : Slots, gen : Nat] /\ [slot |-> s, gen |-> 1] # None
  <2>1. [slot |-> s, gen |-> 1] \in [slot : Slots, gen : Nat]
    BY <1>3
  <2>2. [slot |-> s, gen |-> 1] # None
    BY <2>1, Constants
  <2> QED
    BY <1>2, <2>1, <2>2
<1>9. ASSUME NEW t \in Slots, NEW d \in Commands
      PROVE  Serves(t, d)' <=> d = c /\ t = s
  <2>1. Serves(t, d)' <=> op'[t].live /\ handle'[d] = [slot |-> t, gen |-> op'[t].gen]
    BY DEF Serves
  <2>2. CASE d = c
    BY <1>5, <1>6, <1>8, <2>1, <2>2
  <2>3. CASE d # c
    <3>1. CASE t = s
      BY <1>5, <1>6, <1>8, <2>1, <2>3, <3>1
    <3>2. CASE t # s
      BY <1>6, <2>1, <2>3, <3>2, BlankIs
    <3> QED
      BY <3>1, <3>2
  <2> QED
    BY <2>2, <2>3
<1>10. /\ \A d \in Commands : life'[d] = "open" <=> d = c
       /\ \A d \in Commands : life'[d] = "done" => d # c /\ life[d] \in {"open", "done"}
       /\ \A d \in Commands : life[d] \in {"open", "done"} => life'[d] \in {"open", "done"}
       /\ life' \in [Commands -> {"new", "open", "done", "refused"}]
  BY <1>1, <1>2, <1>4
<1>11. /\ history'.forgotten = history.forgotten \cup retired \cup UNION {op[t].ids : t \in Slots}
       /\ history'.strays = history.strays /\ traffic' \in [sent : Nat, loose : Nat]
       /\ history' \in [forgotten : SUBSET AllIds, strays : [Commands -> SUBSET Stray]]
       /\ traffic'.loose = 0
  <2>1. \A t \in Slots : op[t].ids \subseteq AllIds
    BY <1>4 DEF Operation
  <2>2. UNION {op[t].ids : t \in Slots} \in SUBSET AllIds
    BY <2>1
  <2> QED
    BY <1>2, <1>4, <2>2
<1>12. account'.reserved = 0 /\ account'.retained = 0 /\ account'.budget = Reserve + Limit * o.count
       /\ Limit * o.count \in Nat /\ account' \in [reserved : Int, retained : Int, budget : Int]
  <2> DEFINE more == Limit * o.count
  <2>1. more \in Nat /\ Reserve \in Nat
    BY <1>5, Constants
  <2>2. account' = [reserved |-> 0, retained |-> 0, budget |-> Reserve + more]
    BY <1>2, <1>6
  <2> HIDE DEF more
  <2>3. account'.reserved = 0 /\ account'.retained = 0 /\ account'.budget = Reserve + more
        /\ account' \in [reserved : Int, retained : Int, budget : Int]
    BY <2>1, <2>2
  <2> QED
    BY <2>1, <2>3 DEF more
<1>13. Typed'
  <2>1. handle' \in [Commands -> [slot : Slots, gen : Nat] \cup {None}]
    <3> DEFINE h == [slot |-> s, gen |-> 1]
    <3>1. h \in [slot : Slots, gen : Nat] /\ handle' = [[d \in Commands |-> None] EXCEPT ![c] = h]
      BY <1>2, <1>8
    <3> HIDE DEF h
    <3> QED
      BY <3>1
  <2>2. requests' \in [AllIds -> Slots \cup {None}]
    BY <1>2, <1>3
  <2>3. idle' \in Seq(Slots) /\ queue' \in Seq(QItem) /\ retired' \subseteq AllIds /\ closed' \in Reasons \cup {None}
    BY <1>2
  <2> QED
    BY <1>6, <1>10, <1>11, <1>12, <2>1, <2>2, <2>3 DEF Typed
<1>14. Pools'
  <2>1. IsFiniteSet(Live')
    BY <1>7, FS_Singleton
  <2>2. \A t \in Slots : op'[t].live => op'[t].gen > 0 /\ None \notin op'[t].convs
    BY <1>5, <1>6, BlankIs
  <2>3. \A t \in Slots : ~op'[t].live => op'[t] = [Blank EXCEPT !.gen = op'[t].gen]
    BY <1>5, <1>6, BlankIs
  <2> QED
    BY <1>2, <2>1, <2>2, <2>3 DEF Pools
<1>15. Handles'
  <2>1. \A d \in Commands : handle'[d] # None => handle'[d].gen <= op'[handle'[d].slot].gen
    BY <1>3, <1>5, <1>6, <1>8
  <2>2. \A d, e \in Commands : d # e /\ handle'[d] = handle'[e] => handle'[d] = None
    BY <1>8
  <2>3. \A t \in Live' : \E d \in Commands : Serves(t, d)'
    BY <1>3, <1>7, <1>9
  <2>4. \A t \in Slots, d \in Commands : Serves(t, d)' => life'[d] = "open"
    BY <1>9, <1>10
  <2>5. ASSUME NEW d \in Commands, life'[d] = "open"
        PROVE  handle'[d] # None /\ Serves(handle[d].slot, d)'
    BY <1>5, <1>6, <1>8, <1>10, <2>5 DEF Serves
  <2> QED
    BY <2>1, <2>2, <2>3, <2>4, <2>5 DEF Handles
<1>16. Registered'
  <2>1. \A i \in AllIds : requests'[i] # None => op'[requests'[i]].live /\ i \in op'[requests'[i]].ids
    BY <1>2, <1>5, <1>6
  <2>2. \A t \in Slots, d \in Commands : Serves(t, d)' => \A i \in Requests[d] : requests'[i] = t
    BY <1>2, <1>4, <1>9
  <2> QED
    BY <2>1, <2>2 DEF Registered
<1>17. Queued'
  BY <1>2 DEF Queued
<1>18. Books'
  <2>1. \A t \in Slots : op'[t].pending = 0
    BY <1>5, <1>6, BlankIs
  <2>2. /\ IntOn(BytesW(op'), {s}) /\ IntOn(BudgetW(op'), {s})
        /\ BytesW(op')[s] = 0 /\ BudgetW(op')[s] = Limit * o.count
    BY <1>3, <1>5, <1>6, AccountsAdd DEF IntOn
  <2>3. IsFiniteSet({s}) /\ s \in {s} /\ {s} \ {s} = {}
    BY FS_Singleton
  <2>4. /\ SumFunctionOnSet(BytesW(op'), {s}) = BytesW(op')[s] + SumFunctionOnSet(BytesW(op'), {s} \ {s})
        /\ SumFunctionOnSet(BudgetW(op'), {s}) = BudgetW(op')[s] + SumFunctionOnSet(BudgetW(op'), {s} \ {s})
    BY <2>2, <2>3, SumRemove
  <2>5. /\ SumFunctionOnSet(BytesW(op'), {}) = 0 /\ SumFunctionOnSet(BudgetW(op'), {}) = 0
    BY SumEmpty
  <2>6. SumFunctionOnSet(BytesW(op'), Live') = 0 /\ SumFunctionOnSet(BudgetW(op'), Live') = Limit * o.count
    <3> DEFINE more == Limit * o.count
    <3>1. more \in Nat /\ BudgetW(op')[s] = more
      BY <1>12, <2>2
    <3> HIDE DEF more
    <3>2. SumFunctionOnSet(BudgetW(op'), {s}) = more
      BY <2>3, <2>4, <2>5, <3>1
    <3>3. SumFunctionOnSet(BytesW(op'), {s}) = 0
      BY <2>2, <2>3, <2>4, <2>5
    <3> QED
      BY <1>7, <3>2, <3>3 DEF more
  <2> QED
    BY <1>2, <1>12, <2>1, <2>6, NoWeight DEF Books
<1>19. LooseKnown'
  <2>1. /\ IsFiniteSet(Live') /\ ExcessW(op')[s] = 0
    BY <1>3, <1>5, <1>6, <1>14 DEF ExcessW, Pools
  <2>2. SumFunctionOnSet(ExcessW(op'), Live') = 0
    BY <1>7, <2>1, SumZero
  <2>3. closed' # "budget"
    BY <1>2, Constants DEF Reasons
  <2> QED
    BY <1>2, <1>11, <2>2, <2>3, NoWeight DEF LooseKnown
<1>20. Homes'
  <2>1. ASSUME NEW t \in Slots, NEW d \in Commands, NEW e \in Commands,
               Serves(t, d)', d # e, op'[t].ids \cap Own(e) # {}
        PROVE  FALSE
    <3>1. d = c /\ op'[t].ids = Requests[c] /\ Requests[c] \subseteq Own(c)
      BY <1>5, <1>6, <1>9, <2>1 DEF Own
    <3> QED
      BY <2>1, <3>1, OwnApart
  <2>2. ASSUME NEW d \in Commands, life'[d] = "done"
        PROVE  Requests[d] \subseteq history'.forgotten
    <3>1. CASE life[d] = "open"
      <4>1. handle[d] # None /\ Serves(handle[d].slot, d)
        BY <3>1 DEF Handles
      <4>2. handle[d].slot \in Slots
        BY <1>4, <4>1
      <4>3. \A i \in Requests[d] : i \in AllIds /\ requests[i] = handle[d].slot
        BY <4>1, <4>2, Constants DEF Registered, AllIds
      <4>4. \A i \in Requests[d] : i \in op[handle[d].slot].ids
        BY <4>2, <4>3, Constants DEF Registered
      <4> QED
        BY <1>11, <4>2, <4>4
    <3>2. CASE life[d] = "done"
      BY <1>11, <3>2 DEF Homes
    <3> QED
      BY <1>10, <2>2, <3>1, <3>2
  <2> QED
    BY <2>1, <2>2 DEF Homes
<1>21. RoutedHome'
  BY <1>11 DEF RoutedHome
<1> QED
  BY <1>13, <1>14, <1>15, <1>16, <1>17, <1>18, <1>19, <1>20, <1>21
\* A step that changes neither the queue nor what is reserved keeps the books.
LEMMA QuietKeeps ==
    ASSUME DispatcherInv, ShapeKept, \A s \in Slots : op'[s].pending = op[s].pending,
           UNCHANGED <<idle, requests, retired, handle, life, history, queue, account, closed, traffic>>
    PROVE  DispatcherInv'
<1> USE DEF DispatcherInv
<1>1. /\ Live' = Live /\ (\A s \in Slots, c \in Commands : Serves(s, c)' <=> Serves(s, c))
      /\ Pools' /\ Handles' /\ Registered' /\ Homes' /\ RoutedHome'
      /\ account.retained = SumFunctionOnSet(BytesW(op'), Live')
      /\ account.budget = Reserve + SumFunctionOnSet(BudgetW(op'), Live')
  BY ShapeKeeps
<1>2. Typed'
  BY DEF Typed, ShapeKept
<1>3. Queued'
  BY DEF Queued, Told
<1>4. Books'
  BY <1>1 DEF Books
<1>5. LooseKnown'
  <2>1. IsFiniteSet(Live) /\ Live \subseteq Slots /\ op \in [Slots -> Operation]
    BY DEF Pools, Live, Typed
  <2>2. IntOn(ExcessW(op), Live)
    BY <2>1, AccountsAdd DEF IntOn
  <2>3. \A s \in Live : ExcessW(op)[s] = ExcessW(op')[s]
    BY <2>1 DEF ExcessW, Excess, Over, ShapeKept, Alike
  <2>4. SumFunctionOnSet(ExcessW(op), Live) = SumFunctionOnSet(ExcessW(op'), Live)
    BY <2>1, <2>2, <2>3, SumEqual
  <2> QED
    BY <1>1, <2>4 DEF LooseKnown
<1> QED
  BY <1>1, <1>2, <1>3, <1>4, <1>5

\* The command a live handle belongs to is served, and all its ids are known.
LEMMA HandleIsServed ==
    ASSUME DispatcherInv, NEW c \in Commands, HandleLive(c), NEW s, s = handle[c].slot
    PROVE  /\ s \in Slots /\ op[s].live /\ Serves(s, c) /\ life[c] = "open"
           /\ \A i \in Requests[c] : i \in AllIds /\ requests[i] = s /\ i \in op[s].ids
<1> USE DEF DispatcherInv
<1>1. handle[c] # None /\ op[s].live /\ op[s].gen = handle[c].gen
  BY DEF HandleLive
<1>2. handle[c] \in [slot : Slots, gen : Nat]
  BY <1>1 DEF Typed
<1>3. s \in Slots /\ handle[c] = [slot |-> s, gen |-> op[s].gen]
  BY <1>1, <1>2
<1>4. Serves(s, c)
  BY <1>1, <1>3 DEF Serves
<1>5. life[c] = "open"
  BY <1>3, <1>4 DEF Handles
<1>6. \A i \in Requests[c] : i \in AllIds /\ requests[i] = s
  BY <1>3, <1>4, Constants DEF Registered, AllIds
<1>7. s # None
  BY <1>3, Constants
<1>8. \A i \in Requests[c] : i \in op[s].ids
  BY <1>6, <1>7 DEF Registered
<1> QED
  BY <1>1, <1>3, <1>4, <1>5, <1>6, <1>8

\* A call of the private view of a command.
LEMMA EmitKeeps == ASSUME DispatcherInv, NEW c \in Commands, Emit(c) PROVE DispatcherInv'
<1> USE DEF DispatcherInv
<1> DEFINE s == handle[c].slot
           more == {AgentOf[c]} \ {None}
<1>1. HandleLive(c) /\ UNCHANGED <<idle, retired, handle, queue, account, closed, life, traffic, history>>
  BY DEF Emit
<1>2. /\ op' = [op EXCEPT ![s].ids = @ \cup Requests[c], ![s].convs = @ \cup more]
      /\ requests' = [i \in AllIds |-> IF i \in Requests[c] THEN s ELSE requests[i]]
  BY DEF Emit
<1>3. /\ s \in Slots /\ op[s].live
      /\ \A i \in Requests[c] : i \in AllIds /\ requests[i] = s /\ i \in op[s].ids
  BY <1>1, HandleIsServed
<1>4. op \in [Slots -> Operation] /\ requests \in [AllIds -> Slots \cup {None}]
  BY DEF Typed
<1> HIDE DEF s
<1>5. requests' = requests
  <2>1. \A i \in AllIds : (IF i \in Requests[c] THEN s ELSE requests[i]) = requests[i]
    BY <1>3
  <2> QED
    BY <1>2, <1>4, <2>1
<1>6. more \in SUBSET Agents /\ None \notin more
  BY Constants
<1> HIDE DEF more
<1> DEFINE o == [op[s] EXCEPT !.ids = @ \cup Requests[c], !.convs = @ \cup more]
<1>7. /\ o.live = op[s].live /\ o.gen = op[s].gen /\ o.ids = op[s].ids \cup Requests[c]
      /\ o.convs = op[s].convs \cup more /\ o.count = op[s].count /\ o.bytes = op[s].bytes
      /\ o.pending = op[s].pending /\ o \in Operation
  <2>1. op[s] \in Operation /\ Requests[c] \in SUBSET AllIds
    BY <1>3, <1>4
  <2> QED
    BY <1>6, <2>1 DEF Operation
<1>8. op' = [op EXCEPT ![s] = o]
  BY <1>2, <1>3, <1>4
<1>9. op[s].ids \cup Requests[c] = op[s].ids
  BY <1>3
<1> HIDE DEF o
<1>10. op' \in [Slots -> Operation] /\ op'[s] = o /\ \A t \in Slots : t # s => op'[t] = op[t]
  BY <1>3, <1>4, <1>7, <1>8
<1>11. ShapeKept /\ \A t \in Slots : op'[t].pending = op[t].pending
  <2>1. \A t \in Slots : t # s => Alike(op[t], op'[t])
    BY <1>4, <1>10 DEF Alike
  <2>2. Alike(op[s], op'[s])
    BY <1>6, <1>7, <1>9, <1>10 DEF Alike
  <2>3. \A t \in Slots : ~op[t].live => op'[t] = op[t]
    BY <1>3, <1>10
  <2>4. \A t \in Slots : op'[t].pending = op[t].pending
    BY <1>7, <1>10
  <2> QED
    BY <1>10, <2>1, <2>2, <2>3, <2>4 DEF ShapeKept
<1> QED
  BY <1>1, <1>5, <1>11, QuietKeeps

\* The retired ids of a command are forgotten together.
LEMMA ForgetKeeps == ASSUME DispatcherInv, Forget PROVE DispatcherInv'
<1> USE DEF DispatcherInv
<1>1. PICK c \in Commands :
         LET ids == retired \cap (Requests[c] \cup {HubId[i] : i \in Requests[c]}) IN
         /\ retired' = retired \ ids
         /\ history' = [history EXCEPT !.forgotten = @ \cup ids]
  BY DEF Forget
<1>2. UNCHANGED <<op, idle, requests, handle, queue, account, closed, life, traffic>>
  BY DEF Forget
<1> DEFINE ids == retired \cap Own(c)
<1>3. retired' = retired \ ids /\ history' = [history EXCEPT !.forgotten = @ \cup ids]
  BY <1>1 DEF Own
<1>4. /\ retired \subseteq AllIds /\ ids \subseteq Own(c) /\ ids \subseteq retired
      /\ history \in [forgotten : SUBSET AllIds, strays : [Commands -> SUBSET Stray]]
  BY DEF Typed
<1>5. \A x : x \in retired /\ x \in Own(c) => x \in ids
  OBVIOUS
<1> HIDE DEF ids
<1>6. /\ history'.forgotten = history.forgotten \cup ids /\ history'.strays = history.strays
      /\ history' \in [forgotten : SUBSET AllIds, strays : [Commands -> SUBSET Stray]]
      /\ retired' \subseteq AllIds
  BY <1>3, <1>4
<1>7. Typed'
  BY <1>2, <1>6 DEF Typed
<1>8. Pools' /\ Books' /\ LooseKnown'
  BY <1>2 DEF Pools, Books, LooseKnown, Live
<1>9. Live' = Live /\ \A s \in Slots, d \in Commands : Serves(s, d)' <=> Serves(s, d)
  BY <1>2 DEF Live, Serves
<1>10. Handles'
  <2>1. \A d \in Commands : life[d] = "open" => handle[d] # None /\ Serves(handle[d].slot, d)'
    BY <1>2 DEF Handles, Serves
  <2>2. \A s \in Live' : \E d \in Commands : Serves(s, d)'
    <3>1. \A s \in Live : s \in Slots /\ \E d \in Commands : Serves(s, d)
      BY DEF Handles, Live
    <3> QED
      BY <1>9, <3>1
  <2>3. /\ \A d \in Commands : handle'[d] # None => handle'[d].gen <= op'[handle'[d].slot].gen
        /\ \A d, e \in Commands : d # e /\ handle'[d] = handle'[e] => handle'[d] = None
    BY <1>2 DEF Handles
  <2>4. \A s \in Slots, d \in Commands : Serves(s, d)' => life'[d] = "open"
    BY <1>2, <1>9 DEF Handles
  <2>5. \A d \in Commands : life'[d] = "open" => handle'[d] # None /\ Serves(handle[d].slot, d)'
    BY <1>2, <2>1
  <2> QED
    BY <2>2, <2>3, <2>4, <2>5 DEF Handles
<1>11. Registered' /\ Queued'
  BY <1>2, <1>9 DEF Registered, Queued, Told
<1>12. Homes'
  <2>1. \A s \in Slots, d, e \in Commands : Serves(s, d)' /\ d # e /\ op'[s].ids \cap Own(e) # {}
          => Requests[e] \subseteq history'.forgotten
    BY <1>2, <1>6, <1>9 DEF Homes
  <2>2. ASSUME NEW d \in Commands, life[d] = "done"
        PROVE  Requests[d] \subseteq retired' \/ Requests[d] \subseteq history'.forgotten
    <3>1. CASE Requests[d] \subseteq history.forgotten
      BY <1>6, <3>1
    <3>2. CASE Requests[d] \subseteq retired /\ d = c
      <4>1. Requests[d] \subseteq ids
        BY <1>5, <3>2 DEF Own
      <4> QED
        BY <1>6, <4>1
    <3>3. CASE Requests[d] \subseteq retired /\ d # c
      <4>1. Requests[d] \cap ids = {}
        BY <1>4, <3>3, OwnApart DEF Own
      <4> QED
        BY <1>3, <3>3, <4>1
    <3> QED
      BY <2>2, <3>1, <3>2, <3>3 DEF Homes
  <2> QED
    BY <1>2, <2>1, <2>2 DEF Homes
<1>13. RoutedHome'
  BY <1>6 DEF RoutedHome
<1> QED
  BY <1>7, <1>8, <1>10, <1>11, <1>12, <1>13
--------------------------------------------------------------------------------
(* A command ends.                                                           *)

\* Without one of the operations there is as much less to add up.
LEMMA OneLessServed ==
    ASSUME NEW L, IsFiniteSet(L), NEW s \in L, NEW f, NEW g, IntOn(f, L), \A t \in L \ {s} : g[t] = f[t]
    PROVE  /\ SumFunctionOnSet(f, L) = f[s] + SumFunctionOnSet(g, L \ {s})
           /\ SumFunctionOnSet(g, L \ {s}) \in Int /\ f[s] \in Int
<1>1. IsFiniteSet(L \ {s}) /\ IntOn(f, L \ {s}) /\ IntOn(g, L \ {s}) /\ f[s] \in Int
  BY FS_Subset DEF IntOn
<1>2. SumFunctionOnSet(f, L) = f[s] + SumFunctionOnSet(f, L \ {s})
  BY SumRemove
<1>3. SumFunctionOnSet(f, L \ {s}) = SumFunctionOnSet(g, L \ {s})
  BY <1>1, SumEqual
<1>4. SumFunctionOnSet(g, L \ {s}) \in Int
  BY <1>1, SumIsInt
<1> QED
  BY <1>1, <1>2, <1>3, <1>4

\* A command disposes of its handle, its object returns to the pool.
LEMMA DisposeKeeps == ASSUME DispatcherInv, NEW c \in Commands, Dispose(c) PROVE DispatcherInv'
<1> USE DEF DispatcherInv
<1> DEFINE s == handle[c].slot
           gone == IF Live = {s} THEN Slots \cup {None} ELSE {s}
           none == [Blank EXCEPT !.gen = op[s].gen]
<1>1. HandleLive(c) /\ UNCHANGED <<handle, closed, traffic, history>>
  BY DEF Dispose
<1>2. /\ op' = [op EXCEPT ![s] = none]
      /\ idle' = Pooled(s)
      /\ requests' = [i \in AllIds |-> IF requests[i] = s THEN None ELSE requests[i]]
      /\ retired' = retired \cup op[s].ids
      /\ queue' = Cancelled(queue, gone)
      /\ account' = [reserved |-> IF closed = None THEN account.reserved - ReservedBy(gone)
                                                   ELSE account.reserved,
                     retained |-> account.retained - op[s].bytes,
                     budget |-> account.budget - Limit * op[s].count]
      /\ life' = [life EXCEPT ![c] = "done"]
  BY DEF Dispose
<1>3. /\ s \in Slots /\ op[s].live /\ Serves(s, c) /\ life[c] = "open"
      /\ \A i \in Requests[c] : i \in AllIds /\ requests[i] = s /\ i \in op[s].ids
  BY <1>1, HandleIsServed
<1>4. handle[c] = [slot |-> s, gen |-> op[s].gen]
  BY <1>3 DEF Serves
<1>5. s \in gone /\ (gone = {s} \/ (gone = Slots \cup {None} /\ Live = {s}))
  <2>1. CASE Live = {s}
    BY <1>3, <2>1
  <2>2. CASE Live # {s}
    BY <2>2
  <2> QED
    BY <2>1, <2>2
<1> HIDE DEF gone, s
<1>6. /\ op \in [Slots -> Operation] /\ requests \in [AllIds -> Slots \cup {None}] /\ retired \subseteq AllIds
      /\ handle \in [Commands -> [slot : Slots, gen : Nat] \cup {None}] /\ queue \in Seq(QItem)
      /\ account \in [reserved : Int, retained : Int, budget : Int] /\ idle \in Seq(Slots)
      /\ life \in [Commands -> {"new", "open", "done", "refused"}] /\ s # None
  BY <1>3, Constants DEF Typed
<1>7. /\ none \in Operation /\ ~none.live /\ none.gen = op[s].gen /\ none.ids = {} /\ none.bytes = 0
      /\ none.pending = 0 /\ none = [Blank EXCEPT !.gen = none.gen]
  <2>1. op[s].gen \in Nat
    BY <1>3, <1>6 DEF Operation
  <2> QED
    BY <2>1, BlankIs
<1> HIDE DEF none
<1>8. op' \in [Slots -> Operation] /\ op'[s] = none /\ \A t \in Slots : t # s => op'[t] = op[t]
  BY <1>2, <1>3, <1>6, <1>7
<1>9. /\ Live' = Live \ {s} /\ s \in Live /\ Live \subseteq Slots /\ IsFiniteSet(Live)
      /\ IsFiniteSet(Live \ {s})
  <2>1. Live' = Live \ {s} /\ s \in Live /\ Live \subseteq Slots
    BY <1>3, <1>7, <1>8 DEF Live
  <2>2. IsFiniteSet(Live)
    BY DEF Pools
  <2> QED
    BY <2>1, <2>2, FS_Subset
<1>10. ASSUME NEW t \in Slots, NEW d \in Commands
       PROVE  /\ Serves(t, d)' <=> t # s /\ Serves(t, d)
              /\ Serves(s, d) => d = c
  <2>4. Serves(t, d)' <=> op'[t].live /\ handle[d] = [slot |-> t, gen |-> op'[t].gen]
    BY <1>1 DEF Serves
  <2>1. t = s => ~op'[t].live
    BY <1>7, <1>8
  <2>2. t # s => op'[t] = op[t]
    BY <1>8
  <2>5. Serves(t, d)' <=> t # s /\ Serves(t, d)
    BY <1>3, <2>1, <2>2, <2>4 DEF Serves
  <2>3. ASSUME Serves(s, d) PROVE d = c
    <3>1. handle[d] = handle[c] /\ handle[c] # None
      BY <1>1, <1>4, <2>3 DEF Serves, HandleLive
    <3> QED
      BY <3>1 DEF Handles
  <2> QED
    BY <2>3, <2>5
<1>11. /\ \A d \in Commands : d # c => life'[d] = life[d]
       /\ life'[c] = "done" /\ life' \in [Commands -> {"new", "open", "done", "refused"}]
  BY <1>2, <1>6
<1>12. /\ queue' \in Seq(QItem) /\ DOMAIN queue' = DOMAIN queue
       /\ \A n \in DOMAIN queue : /\ queue'[n].e = queue[n].e
                                  /\ queue[n].owner \in gone => queue'[n].owner = None /\ queue'[n].skip
                                  /\ queue[n].owner \notin gone => queue'[n] = queue[n]
       /\ SumW(UnheldW(queue'), queue') <= SumW(UnheldW(queue), queue)
       /\ \A t \in Slots : SumW(HeldW(queue', t), queue')
                           = IF t \in gone THEN 0 ELSE SumW(HeldW(queue, t), queue)
  BY <1>2, <1>6, WeightsCancelled
<1>13. /\ ReservedBy(gone) \in Nat
       /\ SumW(PendingW(queue), queue) = ReservedBy(gone) + SumW(PendingW(queue'), queue')
       /\ SumW(PendingW(queue'), queue') \in Nat
  BY <1>2, <1>6, <1>12, ReservedGivenBack, WeightsAreNat
<1>14. /\ account' \in [reserved : Int, retained : Int, budget : Int]
       /\ account'.retained = account.retained - op[s].bytes
       /\ account'.budget = account.budget - Limit * op[s].count
       /\ closed = None => account'.reserved = account.reserved - ReservedBy(gone)
       /\ Limit * op[s].count \in Int /\ op[s].bytes \in Int
  <2> DEFINE less == Limit * op[s].count
             given == ReservedBy(gone)
  <2>1. less \in Int /\ op[s].bytes \in Int /\ given \in Int
    BY <1>3, <1>6, <1>13, AccountsAdd
  <2>2. account' = [reserved |-> IF closed = None THEN account.reserved - given ELSE account.reserved,
                    retained |-> account.retained - op[s].bytes, budget |-> account.budget - less]
    BY <1>2
  <2> HIDE DEF less, given
  <2>3. /\ account.reserved \in Int /\ account.retained \in Int /\ account.budget \in Int
    BY <1>6
  <2>4. /\ account'.retained = account.retained - op[s].bytes
        /\ account'.budget = account.budget - less
        /\ closed = None => account'.reserved = account.reserved - given
    BY <2>2
  <2>5. account' \in [reserved : Int, retained : Int, budget : Int]
    <3>1. (IF closed = None THEN account.reserved - given ELSE account.reserved) \in Int
      BY <2>1, <2>3
    <3>2. account.retained - op[s].bytes \in Int /\ account.budget - less \in Int
      BY <2>1, <2>3
    <3> QED
      BY <2>2, <3>1, <3>2
  <2> QED
    BY <2>1, <2>4, <2>5 DEF less, given
<1>15. /\ idle' \in Seq(Slots)
       /\ \A n, m \in DOMAIN idle' : n # m => idle'[n] # idle'[m]
       /\ \A n \in DOMAIN idle' : ~op'[idle'[n]].live
  <2>1. /\ \A n, m \in DOMAIN idle : n # m => idle[n] # idle[m]
        /\ \A n \in DOMAIN idle : idle[n] \in Slots /\ ~op[idle[n]].live /\ idle[n] # s
    BY <1>3, <1>6 DEF Pools
  <2>2. CASE idle' = idle
    BY <1>6, <1>8, <2>1, <2>2
  <2>3. CASE idle' = Append(idle, s)
    <3> DEFINE k == Len(idle)
    <3>1. /\ k \in Nat /\ idle' \in Seq(Slots) /\ DOMAIN idle' = 1..(k + 1) /\ DOMAIN idle = 1..k
          /\ idle'[k + 1] = s /\ \A n \in 1..k : idle'[n] = idle[n]
      BY <1>3, <1>6, <2>3
    <3> HIDE DEF k
    <3>2. \A n \in DOMAIN idle' : n = k + 1 \/ n \in DOMAIN idle
      BY <3>1
    <3> QED
      BY <1>7, <1>8, <2>1, <3>1, <3>2
  <2> QED
    BY <1>2, <2>2, <2>3 DEF Pooled
<1>16. Typed'
  <2>1. requests' \in [AllIds -> Slots \cup {None}]
    BY <1>2, <1>6
  <2>2. retired' \subseteq AllIds
    BY <1>2, <1>3, <1>6 DEF Operation
  <2> QED
    BY <1>1, <1>8, <1>11, <1>12, <1>14, <1>15, <2>1, <2>2 DEF Typed
<1>17. Pools'
  <2>1. \A t \in Slots : op'[t].live => op'[t].gen > 0 /\ None \notin op'[t].convs
    BY <1>7, <1>8 DEF Pools
  <2>2. \A t \in Slots : ~op'[t].live => op'[t] = [Blank EXCEPT !.gen = op'[t].gen]
    BY <1>7, <1>8 DEF Pools
  <2> QED
    BY <1>9, <1>15, <2>1, <2>2 DEF Pools
<1>18. Handles'
  <2>1. ASSUME NEW d \in Commands, handle'[d] # None
        PROVE  handle'[d].gen <= op'[handle'[d].slot].gen
    <3>1. handle'[d] = handle[d] /\ handle[d].slot \in Slots /\ handle[d].gen <= op[handle[d].slot].gen
      BY <1>1, <1>6, <2>1 DEF Handles
    <3>2. op'[handle[d].slot].gen = op[handle[d].slot].gen
      BY <1>7, <1>8, <3>1
    <3> QED
      BY <3>1, <3>2
  <2>2. \A d, e \in Commands : d # e /\ handle'[d] = handle'[e] => handle'[d] = None
    BY <1>1 DEF Handles
  <2>3. ASSUME NEW t \in Live' PROVE \E d \in Commands : Serves(t, d)'
    <3>1. t \in Slots /\ t # s /\ \E d \in Commands : Serves(t, d)
      BY <1>9, <2>3 DEF Handles
    <3> QED
      BY <1>10, <3>1
  <2>4. ASSUME NEW t \in Slots, NEW d \in Commands, Serves(t, d)' PROVE life'[d] = "open"
    <3>1. t # s /\ Serves(t, d)
      BY <1>10, <2>4
    <3>2. handle[d] # handle[c]
      BY <1>4, <3>1 DEF Serves
    <3>3. life[d] = "open"
      BY <3>1 DEF Handles
    <3> QED
      BY <1>11, <3>2, <3>3
  <2>5. ASSUME NEW d \in Commands, life'[d] = "open"
        PROVE  handle'[d] # None /\ Serves(handle[d].slot, d)'
    <3>1. d # c /\ life[d] = "open"
      BY <1>11, <2>5
    <3>2. handle[d] # None /\ Serves(handle[d].slot, d)
      BY <3>1 DEF Handles
    <3>3. handle[d].slot \in Slots /\ op[handle[d].slot].live
          /\ handle[d] = [slot |-> handle[d].slot, gen |-> op[handle[d].slot].gen]
      BY <1>6, <3>2 DEF Serves
    <3>4. handle[d].slot # s
      <4>1. handle[d] # handle[c]
        BY <3>1, <3>2 DEF Handles
      <4> QED
        BY <1>4, <3>3, <4>1
    <3>5. op'[handle[d].slot] = op[handle[d].slot]
      BY <1>8, <3>3, <3>4
    <3> QED
      BY <1>1, <3>2, <3>3, <3>5 DEF Serves
  <2> QED
    BY <2>1, <2>2, <2>3, <2>4, <2>5 DEF Handles
<1>19. Registered'
  <2>1. ASSUME NEW i \in AllIds, requests'[i] # None
        PROVE  op'[requests'[i]].live /\ i \in op'[requests'[i]].ids
    <3>1. requests'[i] = requests[i] /\ requests[i] # s /\ requests[i] \in Slots
      BY <1>2, <1>6, <2>1
    <3>2. op[requests[i]].live /\ i \in op[requests[i]].ids
      BY <2>1, <3>1 DEF Registered
    <3> QED
      BY <1>8, <3>1, <3>2
  <2>2. ASSUME NEW t \in Slots, NEW d \in Commands, Serves(t, d)', NEW i \in Requests[d]
        PROVE  requests'[i] = t
    <3>1. i \in AllIds /\ t # s /\ requests[i] = t
      BY <1>10, <2>2, Constants DEF Registered, AllIds
    <3> QED
      BY <1>2, <3>1
  <2> QED
    BY <2>1, <2>2 DEF Registered
<1>20. Queued'
  <2>1. closed' # None => queue' = <<>>
    <3> SUFFICES ASSUME closed # None PROVE queue' = <<>>
      BY <1>1
    <3>1. DOMAIN queue' = {}
      BY <1>12 DEF Queued
    <3> QED
      BY <1>12, <3>1
  <2>2. ASSUME NEW n \in DOMAIN queue'
        PROVE  /\ queue'[n].e.kind \in DataKinds
               /\ \E d \in Commands : queue'[n].e \in About(d) /\ life'[d] \in {"open", "done"}
               /\ queue'[n].skip => queue'[n].owner = None
               /\ queue'[n].owner # None => \E i \in queue'[n].e.head : requests'[i] = queue'[n].owner
    <3>1. /\ n \in DOMAIN queue /\ queue[n].e.kind \in DataKinds /\ Told(queue[n].e)
          /\ queue[n].skip => queue[n].owner = None
          /\ queue[n].owner # None => \E i \in queue[n].e.head : requests[i] = queue[n].owner
      BY <1>12, <2>2 DEF Queued
    <3>2. \A d \in Commands : life[d] \in {"open", "done"} => life'[d] \in {"open", "done"}
      BY <1>11
    <3>3. queue'[n].e = queue[n].e
      BY <1>12, <3>1
    <3>4. /\ queue'[n].e.kind \in DataKinds
          /\ \E d \in Commands : queue'[n].e \in About(d) /\ life'[d] \in {"open", "done"}
      BY <3>1, <3>2, <3>3 DEF Told
    <3>5. CASE queue[n].owner \in gone
      BY <1>12, <3>1, <3>4, <3>5
    <3>6. CASE queue[n].owner \notin gone
      <4>1. queue'[n] = queue[n] /\ queue[n].owner # s
        BY <1>5, <1>12, <3>1, <3>6
      <4>2. ASSUME queue[n].owner # None
            PROVE  \E i \in queue[n].e.head : requests'[i] = queue[n].owner
        <5>1. PICK i \in queue[n].e.head : requests[i] = queue[n].owner
          BY <3>1, <4>2
        <5>2. i \in AllIds
          BY <1>6, <3>1, QItemIs, EventWeights
        <5> QED
          BY <1>2, <4>1, <5>1, <5>2
      <4> QED
        BY <3>1, <3>4, <4>1, <4>2
    <3> QED
      BY <3>5, <3>6
  <2> QED
    BY <2>1, <2>2 DEF Queued, Told
<1>21. Books'
  <2>1. closed = None => account'.reserved = SumW(PendingW(queue'), queue')
    <3>1. closed = None => account.reserved = SumW(PendingW(queue), queue)
      BY DEF Books
    <3> DEFINE was == SumW(PendingW(queue), queue)
               is == SumW(PendingW(queue'), queue')
               given == ReservedBy(gone)
    <3>2. was = given + is /\ given \in Nat /\ is \in Nat /\ (closed = None => account.reserved = was)
          /\ (closed = None => account'.reserved = account.reserved - given)
      BY <1>13, <1>14, <3>1
    <3> HIDE DEF was, is, given
    <3>3. closed = None => account'.reserved = is
      BY <3>2
    <3> QED
      BY <3>3 DEF is
  <2>2. ASSUME closed = None, NEW t \in Slots PROVE op'[t].pending = SumW(HeldW(queue', t), queue')
    <3>1. op[t].pending = SumW(HeldW(queue, t), queue)
      BY <2>2 DEF Books
    <3>2. CASE t = s
      BY <1>5, <1>7, <1>8, <1>12, <3>2
    <3>3. CASE t # s /\ t \notin gone
      BY <1>8, <1>12, <3>1, <3>3
    <3>4. CASE t # s /\ t \in gone
      <4>1. ~op[t].live
        BY <1>5, <3>4 DEF Live
      <4>2. op[t] = [Blank EXCEPT !.gen = op[t].gen] /\ op[t].gen \in Nat
        BY <1>6, <4>1 DEF Pools, Operation
      <4>3. op[t].pending = 0
        BY <4>2, BlankIs
      <4> QED
        BY <1>8, <1>12, <3>4, <4>3
    <3> QED
      BY <3>2, <3>3, <3>4
  <2>3. /\ IntOn(BytesW(op), Live) /\ IntOn(BudgetW(op), Live)
        /\ BytesW(op)[s] = op[s].bytes /\ BudgetW(op)[s] = Limit * op[s].count
        /\ \A t \in Live \ {s} : BytesW(op')[t] = BytesW(op)[t] /\ BudgetW(op')[t] = BudgetW(op)[t]
    <3>1. IntOn(BytesW(op), Live) /\ IntOn(BudgetW(op), Live)
      BY <1>6, <1>9, AccountsAdd DEF IntOn
    <3> QED
      BY <1>3, <1>8, <1>9, <3>1 DEF BytesW, BudgetW
  <2>4. /\ SumFunctionOnSet(BytesW(op), Live) = BytesW(op)[s] + SumFunctionOnSet(BytesW(op'), Live \ {s})
        /\ SumFunctionOnSet(BytesW(op'), Live \ {s}) \in Int
    <3> DEFINE f == BytesW(op)
               g == BytesW(op')
    <3>1. IntOn(f, Live) /\ \A t \in Live \ {s} : g[t] = f[t]
      BY <2>3
    <3> HIDE DEF f, g
    <3>2. /\ SumFunctionOnSet(f, Live) = f[s] + SumFunctionOnSet(g, Live \ {s})
          /\ SumFunctionOnSet(g, Live \ {s}) \in Int
      BY <1>9, <3>1, OneLessServed
    <3> QED
      BY <3>2 DEF f, g
  <2>5. /\ SumFunctionOnSet(BudgetW(op), Live) = BudgetW(op)[s] + SumFunctionOnSet(BudgetW(op'), Live \ {s})
        /\ SumFunctionOnSet(BudgetW(op'), Live \ {s}) \in Int
    <3> DEFINE f == BudgetW(op)
               g == BudgetW(op')
    <3>1. IntOn(f, Live) /\ \A t \in Live \ {s} : g[t] = f[t]
      BY <2>3
    <3> HIDE DEF f, g
    <3>2. /\ SumFunctionOnSet(f, Live) = f[s] + SumFunctionOnSet(g, Live \ {s})
          /\ SumFunctionOnSet(g, Live \ {s}) \in Int
      BY <1>9, <3>1, OneLessServed
    <3> QED
      BY <3>2 DEF f, g
  <2>6. account'.retained = SumFunctionOnSet(BytesW(op'), Live')
    <3>1. account.retained = SumFunctionOnSet(BytesW(op), Live)
      BY DEF Books
    <3> QED
      BY <1>9, <1>14, <2>3, <2>4, <3>1
  <2>7. account'.budget = Reserve + SumFunctionOnSet(BudgetW(op'), Live')
    <3> DEFINE less == Limit * op[s].count
               rest == SumFunctionOnSet(BudgetW(op'), Live \ {s})
    <3>1. /\ account.budget = Reserve + (less + rest) /\ account'.budget = account.budget - less
          /\ less \in Int /\ rest \in Int /\ Reserve \in Int
      BY <1>14, <2>3, <2>5, Constants DEF Books
    <3> HIDE DEF less, rest
    <3>2. account'.budget = Reserve + rest
      BY <3>1
    <3> QED
      BY <1>9, <3>2 DEF rest
  <2> QED
    BY <1>1, <2>1, <2>2, <2>6, <2>7 DEF Books
<1>22. LooseKnown'
  <2> DEFINE f == ExcessW(op)
             g == ExcessW(op')
  <2>1. IntOn(f, Live) /\ f[s] \in Nat /\ \A t \in Live \ {s} : g[t] = f[t]
    <3>1. IntOn(f, Live) /\ f[s] \in Nat
      BY <1>3, <1>6, <1>9, AccountsAdd DEF IntOn
    <3> QED
      BY <1>8, <1>9, <3>1 DEF ExcessW
  <2> HIDE DEF f, g
  <2>2. /\ SumFunctionOnSet(f, Live) = f[s] + SumFunctionOnSet(g, Live \ {s})
        /\ SumFunctionOnSet(g, Live \ {s}) \in Int
    BY <1>9, <2>1, OneLessServed
  <2>3. SumW(UnheldW(queue'), queue') \in Nat /\ SumW(UnheldW(queue), queue) \in Nat
    BY <1>6, <1>12, WeightsAreNat
  <2>4. traffic.loose \in Nat
    BY DEF Typed
  <2> DEFINE was == SumFunctionOnSet(f, Live)
             is == SumFunctionOnSet(g, Live \ {s})
             unheld == SumW(UnheldW(queue), queue)
             left == SumW(UnheldW(queue'), queue')
  <2>5. closed = None => was + unheld <= traffic.loose
    BY DEF LooseKnown, f
  <2>6. was = f[s] + is /\ is \in Int /\ unheld \in Nat /\ left \in Nat /\ left <= unheld
    BY <1>12, <2>2, <2>3
  <2> HIDE DEF was, is, unheld, left
  <2>7. closed = None => is + left <= traffic.loose
    BY <2>1, <2>4, <2>5, <2>6
  <2> QED
    BY <1>1, <1>9, <2>7 DEF LooseKnown, is, left, g
<1>23. Homes'
  <2>1. \A t \in Slots, d, e \in Commands : Serves(t, d)' /\ d # e /\ op'[t].ids \cap Own(e) # {}
          => Requests[e] \subseteq history.forgotten
    BY <1>8, <1>10 DEF Homes
  <2>2. ASSUME NEW d \in Commands, life'[d] = "done"
        PROVE  Requests[d] \subseteq retired' \/ Requests[d] \subseteq history.forgotten
    <3>1. CASE d = c
      BY <1>2, <1>3, <3>1
    <3>2. CASE d # c
      BY <1>2, <1>11, <2>2, <3>2 DEF Homes
    <3> QED
      BY <3>1, <3>2
  <2> QED
    BY <1>1, <2>1, <2>2 DEF Homes
<1>24. RoutedHome'
  BY <1>1 DEF RoutedHome
<1> QED
  BY <1>16, <1>17, <1>18, <1>19, <1>20, <1>21, <1>22, <1>23, <1>24--------------------------------------------------------------------------------
(* Events that arrive and are handed over.                                   *)

\* What is said of every event being decoded.
QueuedWell(x) ==
    /\ x.e.kind \in DataKinds /\ Told(x.e)
    /\ x.skip => x.owner = None
    /\ x.owner # None => \E i \in x.e.head : requests[i] = x.owner

\* What no command was charged for on arrival, of what these operations and this queue hold.
Beyond(ops, rest) == SumFunctionOnSet(ExcessW(ops), Live) + SumW(UnheldW(rest), rest)

\* Operations, accounts and a queue that agree with each other.
Settled(ops, books, rest) ==
    /\ closed = None
    /\ ops \in [Slots -> Operation]
    /\ \A s \in Slots : Alike(op[s], ops[s]) /\ (~op[s].live => ops[s] = op[s])
    /\ rest \in Seq(QItem) /\ \A n \in DOMAIN rest : QueuedWell(rest[n])
    /\ books \in [reserved : Int, retained : Int, budget : Int]
    /\ books.retained = account.retained /\ books.budget = account.budget
    /\ books.reserved = SumW(PendingW(rest), rest)
    /\ \A s \in Slots : ops[s].pending = SumW(HeldW(rest, s), rest)
    /\ traffic' \in [sent : Nat, loose : Nat]
    /\ Beyond(ops, rest) <= traffic'.loose

\* To go on with such operations, accounts and queue is right.
LEMMA SettledKeeps ==
    ASSUME DispatcherInv, NEW ops, NEW books, NEW rest, Settled(ops, books, rest),
           op' = ops, account' = books, queue' = rest,
           UNCHANGED <<idle, requests, retired, handle, closed, life, history>>
    PROVE  DispatcherInv'
<1> USE DEF DispatcherInv
<1>1. ShapeKept
  BY DEF Settled, ShapeKept
<1>2. /\ Live' = Live /\ Pools' /\ Handles' /\ Registered' /\ Homes' /\ RoutedHome'
      /\ account.retained = SumFunctionOnSet(BytesW(op'), Live')
      /\ account.budget = Reserve + SumFunctionOnSet(BudgetW(op'), Live')
  BY <1>1, ShapeKeeps
<1>3. Typed'
  BY DEF Typed, Settled
<1>4. Queued'
  <2>1. closed' = None
    BY DEF Settled
  <2>2. ASSUME NEW n \in DOMAIN queue'
        PROVE  /\ queue'[n].e.kind \in DataKinds
               /\ \E d \in Commands : queue'[n].e \in About(d) /\ life'[d] \in {"open", "done"}
               /\ queue'[n].skip => queue'[n].owner = None
               /\ queue'[n].owner # None => \E i \in queue'[n].e.head : requests'[i] = queue'[n].owner
    <3>1. QueuedWell(rest[n]) /\ queue'[n] = rest[n]
      BY <2>2 DEF Settled
    <3> QED
      BY <3>1 DEF QueuedWell, Told
  <2> QED
    BY <2>1, <2>2 DEF Queued, Told
<1>5. Books'
  <2>1. /\ account'.retained = account.retained /\ account'.budget = account.budget
        /\ account'.reserved = SumW(PendingW(queue'), queue')
        /\ \A s \in Slots : op'[s].pending = SumW(HeldW(queue', s), queue')
    BY DEF Settled
  <2> QED
    BY <1>2, <2>1 DEF Books
<1>6. LooseKnown'
  <2>1. /\ SumFunctionOnSet(ExcessW(op'), Live) + SumW(UnheldW(queue'), queue') <= traffic'.loose
        /\ closed' = None
    BY DEF Settled, Beyond
  <2>2. closed' # "budget"
    BY <2>1, Constants DEF Reasons
  <2> QED
    BY <1>2, <2>1, <2>2 DEF LooseKnown
<1> QED
  BY <1>2, <1>3, <1>4, <1>5, <1>6

\* How much further above its limit an operation gets by an event.
Raised(e, o) == (IF Over(o) + Size(e) > 0 THEN Over(o) + Size(e) ELSE 0) - Excess(o)

\* An event to be handed over, with its own reservation released.
Prepared(e, ops, books, rest) ==
    /\ Settled(ops, books, rest)
    /\ e \in Events /\ Told(e)
    /\ \A s \in Live : Candidates(e) = {s} /\ Retained(e) =>
          Beyond(ops, rest) + Raised(e, ops[s]) <= traffic'.loose

\* A set with one element at most is that element.
LEMMA OneOf ==
    ASSUME NEW S, IsFiniteSet(S), ~(Cardinality(S) > 1), NEW x \in S
    PROVE  S = {x}
<1>1. Cardinality(S) \in Nat /\ Cardinality(S) # 0
  BY FS_CardinalityType, FS_EmptySet
<1>2. Cardinality(S) = 1
  BY <1>1
<1> QED
  BY <1>2, FS_Singleton

\* Candidates are live; an id leads to the operation it is registered to.
LEMMA CandidatesAre ==
    ASSUME DispatcherInv, NEW e \in Events
    PROVE  /\ Candidates(e) \subseteq Live /\ IsFiniteSet(Candidates(e))
           /\ \A i \in Ids(e) : requests[i] # None => requests[i] \in Candidates(e)
           /\ (\E i \in Ids(e) : requests[i] # None) =>
                 \A s \in Candidates(e) : \E j \in Ids(e) : requests[j] = s
           /\ (\A i \in Ids(e) : requests[i] = None) /\ Candidates(e) # {} =>
                 /\ Ids(e) \cap retired = {}
                 /\ \A s \in Candidates(e) :
                       \/ e.conv \in op[s].convs
                       \/ e.kind = "started"
                       \/ Cardinality(Live) = 1 /\ (e.kind \in DataKinds \/ Ids(e) = {})
<1> USE DEF DispatcherInv
<1> DEFINE byId == {requests[i] : i \in Ids(e)} \ {None}
           byConv == {s \in Live : e.conv \in op[s].convs}
           byAgent == {s \in Live : e.kind = "started" /\ op[s].agent = e.conv}
           alone == IF Cardinality(Live) = 1 /\ (e.kind \in DataKinds \/ Ids(e) = {}) THEN Live ELSE {}
<1>1. Candidates(e) = IF byId # {} THEN byId
                      ELSE IF Ids(e) \cap retired # {} THEN {}
                      ELSE IF byConv # {} THEN byConv
                      ELSE IF byAgent # {} THEN byAgent
                      ELSE alone
  BY DEF Candidates
<1>2. byId \subseteq Live
  <2>1. Ids(e) \subseteq AllIds
    BY EventWeights
  <2>2. \A i \in AllIds : requests[i] # None => requests[i] \in Slots /\ op[requests[i]].live
    BY DEF Registered, Typed
  <2> QED
    BY <2>1, <2>2 DEF Live
<1>3. byConv \subseteq Live /\ byAgent \subseteq Live /\ alone \subseteq Live
  OBVIOUS
<1>4. \A s \in byConv : e.conv \in op[s].convs
  OBVIOUS
<1>5. \A s \in byAgent : e.kind = "started"
  OBVIOUS
<1>6. \A s \in alone : Cardinality(Live) = 1 /\ (e.kind \in DataKinds \/ Ids(e) = {})
  OBVIOUS
<1>7. /\ \A i \in Ids(e) : requests[i] # None => requests[i] \in byId
      /\ \A s \in byId : \E j \in Ids(e) : requests[j] = s
      /\ (\A i \in Ids(e) : requests[i] = None) => byId = {}
  OBVIOUS
<1>8. IsFiniteSet(Live)
  BY DEF Pools
<1> HIDE DEF byId, byConv, byAgent, alone
<1>9. Candidates(e) \subseteq Live
  BY <1>1, <1>2, <1>3
<1>10. IsFiniteSet(Candidates(e))
  BY <1>8, <1>9, FS_Subset
<1>11. byId # {} => Candidates(e) = byId
  BY <1>1
<1>12. byId = {} /\ Candidates(e) # {} =>
         /\ Ids(e) \cap retired = {}
         /\ Candidates(e) \in {byConv, byAgent, alone}
  BY <1>1
<1> QED
  BY <1>4, <1>5, <1>6, <1>7, <1>9, <1>10, <1>11, <1>12
\* An event carries ids exactly when it is about items.
LEMMA EventIds == ASSUME NEW c \in Commands, NEW e \in About(c) PROVE e.about = {} <=> Ids(e) = {}
<1>1. CASE \E A \in {Requests[c]} \cup {{i} : i \in Requests[c]} :
              e = [kind |-> "accepted", about |-> A, head |-> A \cup {HubId[i] : i \in A},
                   body |-> {}, conv |-> AgentOf[c], ok |-> TRUE]
  <2>1. PICK A \in {Requests[c]} \cup {{i} : i \in Requests[c]} :
              e = [kind |-> "accepted", about |-> A, head |-> A \cup {HubId[i] : i \in A},
                   body |-> {}, conv |-> AgentOf[c], ok |-> TRUE]
    BY <1>1
  <2>2. e.about = A /\ e.head = A \cup {HubId[i] : i \in A} /\ e.body = {}
    BY <2>1
  <2> QED
    BY <2>2 DEF Ids
<1>2. CASE \E i \in Requests[c], p \in Wire :
              e = [kind |-> p[1], about |-> {i}, head |-> HeadOf(p[2], i), conv |-> None,
                   body |-> IF p[1] = "response" THEN {i} ELSE {HubId[i]}, ok |-> p[3]]
  <2>1. PICK i \in Requests[c], p \in Wire :
              e = [kind |-> p[1], about |-> {i}, head |-> HeadOf(p[2], i), conv |-> None,
                   body |-> IF p[1] = "response" THEN {i} ELSE {HubId[i]}, ok |-> p[3]]
    BY <1>2
  <2>2. e.about = {i} /\ e.body \in {{i}, {HubId[i]}}
    BY <2>1
  <2> QED
    BY <2>2 DEF Ids
<1>3. CASE e = [kind |-> "started", about |-> {}, head |-> {}, body |-> {}, conv |-> AgentOf[c], ok |-> TRUE]
  BY <1>3 DEF Ids
<1>4. <1>1!1 \/ <1>2!1 \/ <1>3!1
  BY DEF About
<1> QED
  BY <1>1, <1>2, <1>3, <1>4

\* An event of another command gets to an operation only when it is alone and does not know
\* the event, or after the ids of that command were forgotten.
LEMMA ForeignEvent ==
    ASSUME DispatcherInv, NEW d \in Commands, NEW e \in About(d), life[d] \in {"open", "done"},
           Ids(e) # {}, NEW s \in Slots, Candidates(e) = {s}, NEW c \in Commands, Serves(s, c), c # d
    PROVE  \/ Requests[d] \subseteq history.forgotten
           \/ Cardinality(Live) = 1 /\ e.kind \in DataKinds /\ Ids(e) \cap op[s].ids = {}
<1> USE DEF DispatcherInv
<1>1. /\ e \in Events /\ e.about \subseteq Requests[d] /\ Ids(e) \subseteq Own(d)
      /\ \/ e.kind = "accepted" /\ e.about \subseteq e.head
         \/ e.kind \in DataKinds /\ e.conv = None
         \/ e.kind = "started" /\ Ids(e) = {}
  BY EventForms
<1>2. CASE Ids(e) \cap op[s].ids # {}
  <2>1. op[s].ids \cap Own(d) # {}
    BY <1>1, <1>2
  <2> QED
    BY <2>1 DEF Homes
<1>3. CASE Ids(e) \cap op[s].ids = {}
  <2>1. \A i \in Ids(e) : requests[i] = None
    <3> SUFFICES ASSUME \E i \in Ids(e) : requests[i] # None PROVE FALSE
      OBVIOUS
    <3>1. PICK j \in Ids(e) : requests[j] = s
      BY <1>1, CandidatesAre
    <3>2. j \in AllIds /\ s # None
      BY <1>1, EventWeights, Constants
    <3>3. j \in op[s].ids
      BY <3>1, <3>2 DEF Registered
    <3> QED
      BY <1>3, <3>3
  <2>2. /\ Ids(e) \cap retired = {}
        /\ \/ e.conv \in op[s].convs
           \/ e.kind = "started"
           \/ Cardinality(Live) = 1 /\ (e.kind \in DataKinds \/ Ids(e) = {})
    BY <1>1, <2>1, CandidatesAre
  <2>3. None \notin op[s].convs
    BY DEF Serves, Pools
  <2>4. CASE e.kind \in DataKinds /\ e.conv = None
    BY <1>3, <2>2, <2>3, <2>4 DEF DataKinds
  <2>5. CASE e.kind = "accepted" /\ e.about \subseteq e.head
    <3>1. PICK i \in e.about : i \in Requests[d] /\ i \in Ids(e)
      <4>1. e.about # {}
        BY EventIds
      <4> QED
        BY <1>1, <2>5, <4>1 DEF Ids
    <3>2. life[d] # "open"
      <4> SUFFICES ASSUME life[d] = "open" PROVE FALSE
        OBVIOUS
      <4>1. handle[d] # None /\ Serves(handle[d].slot, d)
        BY DEF Handles
      <4>2. handle[d].slot \in Slots
        BY <4>1 DEF Typed
      <4>3. requests[i] = handle[d].slot
        BY <3>1, <4>1, <4>2 DEF Registered
      <4> QED
        BY <2>1, <3>1, <4>2, <4>3, Constants
    <3>3. Requests[d] \subseteq retired \/ Requests[d] \subseteq history.forgotten
      BY <3>2 DEF Homes
    <3> QED
      BY <2>2, <3>1, <3>3
  <2> QED
    BY <1>1, <2>4, <2>5
<1> QED
  BY <1>2, <1>3
\* The event is handed to the one operation it belongs to.
LEMMA DeliverKeeps ==
    ASSUME DispatcherInv, NEW e, NEW ops, NEW books, NEW rest, Prepared(e, ops, books, rest),
           NEW s \in Slots, Candidates(e) = {s}, Deliver(s, e, ops, books, rest),
           UNCHANGED <<idle, retired, handle, life>>
    PROVE  DispatcherInv'
<1> USE DEF DispatcherInv
<1> DEFINE matched == Matched(e, ops[s])
           charged == matched /\ Retained(e)
           stray == [about |-> e.about, charged |-> charged, alone |-> Cardinality(Live) = 1]
           more == IF charged THEN Size(e) ELSE 0
<1>1. /\ requests' = [j \in AllIds |-> IF matched /\ j \in Ids(e) THEN s ELSE requests[j]]
      /\ account' = [books EXCEPT !.retained = @ + more]
      /\ queue' = rest /\ closed' = closed
  BY DEF Deliver
<1>2. \/ history' = history
      \/ history' = [history EXCEPT !.strays = [c \in Commands |->
                        IF c \notin {d \in Commands : Serves(s, d)} \/ e.about \subseteq Requests[c]
                        THEN history.strays[c] ELSE history.strays[c] \cup {stray}]]
  BY DEF Deliver
<1>3. /\ closed = None /\ ops \in [Slots -> Operation] /\ rest \in Seq(QItem)
      /\ \A t \in Slots : /\ ops[t].live = op[t].live /\ ops[t].gen = op[t].gen
                          /\ ops[t].ids = op[t].ids /\ (None \notin op[t].convs => None \notin ops[t].convs)
                          /\ ops[t].count = op[t].count /\ ops[t].bytes = op[t].bytes
                          /\ (~op[t].live => ops[t] = op[t])
      /\ books \in [reserved : Int, retained : Int, budget : Int]
      /\ books.retained = account.retained /\ books.budget = account.budget
      /\ books.reserved = SumW(PendingW(rest), rest)
      /\ \A t \in Slots : ops[t].pending = SumW(HeldW(rest, t), rest)
      /\ traffic' \in [sent : Nat, loose : Nat]
      /\ \A n \in DOMAIN rest : QueuedWell(rest[n])
      /\ e \in Events /\ Told(e)
  BY DEF Prepared, Settled, Alike
<1>4. /\ op' \in [Slots -> Operation]
      /\ \A t \in Slots \ {s} : op'[t] = ops[t]
      /\ op'[s].live = ops[s].live /\ op'[s].gen = ops[s].gen /\ op'[s].count = ops[s].count
      /\ op'[s].pending = ops[s].pending
      /\ op'[s].ids = ops[s].ids \cup (IF matched THEN Ids(e) ELSE {})
      /\ None \notin ops[s].convs => None \notin op'[s].convs
      /\ op'[s].bytes = ops[s].bytes + more
  BY <1>3, DeliverTakes DEF Takes
<1>5. /\ Size(e) \in Nat /\ more \in Nat /\ Ids(e) \in SUBSET AllIds /\ e.about \in SUBSET ClientIds
      /\ matched \in BOOLEAN /\ charged \in BOOLEAN /\ Retained(e) \in BOOLEAN
  <2>1. /\ Size(e) \in Nat /\ Ids(e) \in SUBSET AllIds /\ e.about \in SUBSET ClientIds
        /\ Retained(e) \in BOOLEAN
    BY <1>3, EventWeights
  <2>2. matched \in BOOLEAN
    BY DEF Matched
  <2> QED
    BY <2>1, <2>2
<1>6. s \in Live /\ op[s].live /\ None \notin op[s].convs
  BY <1>3, CandidatesAre DEF Live, Pools
<1>7. \A i \in AllIds : requests[i] # None => requests'[i] = requests[i]
  <2>1. \A i \in Ids(e) : requests[i] # None => requests[i] = s
    BY <1>3, CandidatesAre
  <2> HIDE DEF matched
  <2> QED
    BY <1>1, <2>1
<1>8. /\ matched => \A i \in Ids(e) : requests'[i] = s
      /\ \A i \in AllIds : requests'[i] = requests[i] \/ (requests'[i] = s /\ matched /\ i \in Ids(e))
  BY <1>1, <1>5
<1> HIDE DEF matched
<1>9. FormKept
  <2>1. \A t \in Slots : t # s =>
           /\ op'[t].live = op[t].live /\ op'[t].gen = op[t].gen
           /\ None \notin op[t].convs => None \notin op'[t].convs
           /\ ~op[t].live => op'[t] = op[t]
    BY <1>3, <1>4
  <2>2. op'[s].live = op[s].live /\ op'[s].gen = op[s].gen /\ (None \notin op[s].convs => None \notin op'[s].convs)
    BY <1>3, <1>4
  <2> QED
    BY <1>4, <1>6, <2>1, <2>2 DEF FormKept
<1>10. /\ Live' = Live /\ (\A t \in Slots, c \in Commands : Serves(t, c)' <=> Serves(t, c))
       /\ Pools' /\ Handles'
  BY <1>9, FormKeeps
<1>11. history' \in [forgotten : SUBSET AllIds, strays : [Commands -> SUBSET Stray]]
       /\ history'.forgotten = history.forgotten
       /\ \A c \in Commands : \/ history'.strays[c] = history.strays[c]
                              \/ /\ Serves(s, c) /\ ~(e.about \subseteq Requests[c])
                                 /\ history'.strays[c] = history.strays[c] \cup {stray}
  <2>1. history \in [forgotten : SUBSET AllIds, strays : [Commands -> SUBSET Stray]]
    BY DEF Typed
  <2>2. stray \in Stray
    BY <1>5 DEF Stray
  <2> HIDE DEF stray
  <2>3. CASE history' = history
    BY <2>1, <2>3
  <2>4. CASE history' = [history EXCEPT !.strays = [c \in Commands |->
                            IF c \notin {d \in Commands : Serves(s, d)} \/ e.about \subseteq Requests[c]
                            THEN history.strays[c] ELSE history.strays[c] \cup {stray}]]
    BY <2>1, <2>2, <2>4
  <2> QED
    BY <1>2, <2>3, <2>4
<1>12. account' \in [reserved : Int, retained : Int, budget : Int]
       /\ account'.reserved = books.reserved /\ account'.budget = account.budget
       /\ account'.retained = account.retained + more
  <2> HIDE DEF more
  <2> QED
    BY <1>1, <1>3, <1>5
<1>13. Typed'
  <2>1. requests' \in [AllIds -> Slots \cup {None}]
    BY <1>1 DEF Typed
  <2> QED
    BY <1>1, <1>3, <1>4, <1>11, <1>12, <2>1 DEF Typed
<1>14. Registered'
  <2>1. ASSUME NEW i \in AllIds, requests'[i] # None
        PROVE  op'[requests'[i]].live /\ i \in op'[requests'[i]].ids
    <3>1. CASE requests'[i] = requests[i]
      <4>1. requests[i] \in Slots /\ op[requests[i]].live /\ i \in op[requests[i]].ids
        BY <2>1, <3>1 DEF Registered, Typed
      <4> QED
        BY <1>3, <1>4, <3>1, <4>1
    <3>2. CASE requests'[i] = s /\ matched /\ i \in Ids(e)
      BY <1>3, <1>4, <1>6, <3>2
    <3> QED
      BY <1>8, <3>1, <3>2
  <2>2. ASSUME NEW t \in Slots, NEW c \in Commands, Serves(t, c)', NEW i \in Requests[c]
        PROVE  requests'[i] = t
    <3>1. i \in AllIds /\ requests[i] = t /\ t # None
      BY <1>10, <2>2, Constants DEF Registered, AllIds
    <3> QED
      BY <1>7, <3>1
  <2> QED
    BY <2>1, <2>2 DEF Registered
<1>15. Queued'
  <2>1. closed' = None
    BY <1>1, <1>3
  <2>2. ASSUME NEW n \in DOMAIN queue'
        PROVE  /\ queue'[n].e.kind \in DataKinds
               /\ \E d \in Commands : queue'[n].e \in About(d) /\ life'[d] \in {"open", "done"}
               /\ queue'[n].skip => queue'[n].owner = None
               /\ queue'[n].owner # None => \E i \in queue'[n].e.head : requests'[i] = queue'[n].owner
    <3>1. QueuedWell(rest[n]) /\ queue'[n] = rest[n] /\ rest[n] \in QItem
      BY <1>1, <1>3, <2>2
    <3>2. ASSUME rest[n].owner # None PROVE \E i \in rest[n].e.head : requests'[i] = rest[n].owner
      <4>1. PICK i \in rest[n].e.head : requests[i] = rest[n].owner
        BY <3>1, <3>2 DEF QueuedWell
      <4>2. i \in AllIds
        BY <3>1, QItemIs, EventWeights
      <4> QED
        BY <1>7, <3>2, <4>1, <4>2
    <3> QED
      BY <3>1, <3>2 DEF QueuedWell, Told
  <2> QED
    BY <2>1, <2>2 DEF Queued, Told
<1>16. /\ IsFiniteSet(Live) /\ Live \subseteq Slots
  BY DEF Pools, Live
<1>17. Books'
  <2> DEFINE f == BytesW(op)
             g == BytesW(op')
             k == BudgetW(op)
             l == BudgetW(op')
  <2>1. /\ IntOn(f, Live) /\ g[s] \in Int /\ g[s] - f[s] = more /\ \A t \in Live \ {s} : g[t] = f[t]
    <3>1. op \in [Slots -> Operation]
      BY DEF Typed
    <3>2. IntOn(f, Live) /\ f[s] = op[s].bytes /\ f[s] \in Int /\ g[s] = op'[s].bytes
      BY <1>16, <3>1, AccountsAdd DEF IntOn, BytesW
    <3>3. g[s] = f[s] + more
      BY <1>3, <1>4, <3>2
    <3>4. \A t \in Live \ {s} : g[t] = f[t]
      BY <1>3, <1>4, <1>16 DEF BytesW
    <3> HIDE DEF f, g, more
    <3> QED
      BY <1>5, <3>2, <3>3, <3>4
  <2>2. IntOn(k, Live) /\ \A t \in Live : k[t] = l[t]
    <3>1. op \in [Slots -> Operation]
      BY DEF Typed
    <3>2. IntOn(k, Live)
      BY <1>16, <3>1, AccountsAdd DEF IntOn
    <3>3. \A t \in Live : op[t].count = op'[t].count
      BY <1>3, <1>4, <1>16
    <3> QED
      BY <1>16, <3>2, <3>3 DEF BudgetW
  <2>3. account.retained = SumFunctionOnSet(f, Live) /\ account.budget = Reserve + SumFunctionOnSet(k, Live)
    BY DEF Books
  <2> HIDE DEF f, g, k, l
  <2>4. SumFunctionOnSet(g, Live) = SumFunctionOnSet(f, Live) + (g[s] - f[s])
    BY <1>6, <1>16, <2>1, SumChanged
  <2>5. SumFunctionOnSet(k, Live) = SumFunctionOnSet(l, Live)
    BY <1>16, <2>2, SumEqual
  <2>6. account'.retained = SumFunctionOnSet(g, Live)
    BY <1>12, <2>1, <2>3, <2>4
  <2>7. account'.budget = Reserve + SumFunctionOnSet(l, Live)
    BY <1>12, <2>3, <2>5
  <2>8. account'.reserved = SumW(PendingW(queue'), queue')
    BY <1>1, <1>3, <1>12
  <2>9. \A t \in Slots : op'[t].pending = SumW(HeldW(queue', t), queue')
    BY <1>1, <1>3, <1>4
  <2> QED
    BY <1>10, <2>6, <2>7, <2>8, <2>9 DEF Books, g, l
<1>18. LooseKnown'
  <2> DEFINE f == ExcessW(ops)
             g == ExcessW(op')
             unheld == SumW(UnheldW(rest), rest)
  <2>1. /\ IntOn(f, Live) /\ f[s] = Excess(ops[s]) /\ g[s] = Excess(op'[s]) /\ f[s] \in Nat /\ g[s] \in Nat
        /\ \A t \in Live \ {s} : g[t] = f[t]
    <3>1. IntOn(f, Live) /\ f[s] = Excess(ops[s]) /\ f[s] \in Nat
      BY <1>3, <1>16, AccountsAdd DEF IntOn
    <3>2. g[s] = Excess(op'[s]) /\ g[s] \in Nat
      BY <1>4, AccountsAdd
    <3> QED
      BY <1>4, <1>16, <3>1, <3>2 DEF ExcessW
  <2>2. unheld \in Nat
    BY <1>3, WeightsAreNat
  <2>3. g[s] = f[s] \/ (Retained(e) /\ g[s] = f[s] + Raised(e, ops[s]))
    <3>1. Over(op'[s]) = Over(ops[s]) + more /\ Over(ops[s]) \in Int
      <4>1. /\ ops[s].bytes \in Int /\ ops[s].pending \in Int /\ Limit * ops[s].count \in Int
            /\ op'[s].bytes = ops[s].bytes + more /\ op'[s].pending = ops[s].pending
            /\ Limit * op'[s].count = Limit * ops[s].count
        BY <1>3, <1>4, AccountsAdd
      <4> DEFINE most == Limit * ops[s].count
      <4>2. Over(op'[s]) = op'[s].bytes + op'[s].pending - most /\ Over(ops[s]) = ops[s].bytes + ops[s].pending - most
        BY <4>1 DEF Over
      <4>3. most \in Int
        BY <4>1
      <4> HIDE DEF most, more
      <4> QED
        BY <1>5, <4>1, <4>2, <4>3
    <3>2. CASE charged
      <4>1. Retained(e) /\ more = Size(e)
        BY <3>2
      <4>2. Over(op'[s]) = Over(ops[s]) + Size(e)
        BY <3>1, <4>1
      <4>3. g[s] = IF Over(ops[s]) + Size(e) > 0 THEN Over(ops[s]) + Size(e) ELSE 0
        BY <2>1, <4>2 DEF Excess
      <4>4. Raised(e, ops[s]) = g[s] - f[s]
        BY <2>1, <4>3 DEF Raised
      <4> HIDE DEF f, g
      <4> QED
        BY <2>1, <4>1, <4>4
    <3>3. CASE ~charged
      <4>1. more = 0
        BY <3>3
      <4>2. Over(op'[s]) = Over(ops[s])
        BY <3>1, <4>1
      <4> QED
        BY <2>1, <4>2 DEF Excess
    <3> QED
      BY <3>2, <3>3
  <2>4. /\ SumFunctionOnSet(f, Live) + unheld <= traffic'.loose
        /\ Retained(e) => (SumFunctionOnSet(f, Live) + unheld) + Raised(e, ops[s]) <= traffic'.loose
    BY <1>6 DEF Prepared, Settled, Beyond
  <2>5. traffic'.loose \in Nat
    BY <1>3
  <2> HIDE DEF f, g, unheld
  <2>6. /\ SumFunctionOnSet(g, Live) = SumFunctionOnSet(f, Live) + (g[s] - f[s])
        /\ SumFunctionOnSet(f, Live) \in Int
    BY <1>6, <1>16, <2>1, SumChanged, SumIsInt
  <2>7. SumFunctionOnSet(g, Live) + unheld <= traffic'.loose
    <3> DEFINE was == SumFunctionOnSet(f, Live)
               is == SumFunctionOnSet(g, Live)
               up == Raised(e, ops[s])
               loose == traffic'.loose
    <3> SUFFICES is + unheld <= loose
      OBVIOUS
    <3>1. was \in Int /\ is = was + (g[s] - f[s])
      BY <2>6
    <3>2. CASE g[s] = f[s]
      <4>1. is = was
        BY <2>1, <3>1, <3>2
      <4> QED
        BY <2>4, <4>1
    <3>3. CASE Retained(e) /\ g[s] = f[s] + up
      <4>1. up = g[s] - f[s] \/ up \notin Int
        BY <2>1, <3>3
      <4>2. up \in Int
        <5>1. f[s] \in Nat /\ Over(ops[s]) \in Int /\ Size(e) \in Nat /\ Excess(ops[s]) \in Nat
          <6>1. ops[s].bytes \in Int /\ ops[s].pending \in Int /\ Limit * ops[s].count \in Int /\ Excess(ops[s]) \in Nat
            BY <1>3, AccountsAdd
          <6> QED
            BY <1>5, <2>1, <6>1 DEF Over
        <5> QED
          BY <5>1 DEF Raised
      <4>3. (was + unheld) + up <= loose
        BY <2>4, <3>3
      <4>4. loose \in Nat
        BY <2>5
      <4> HIDE DEF was, is, up, loose
      <4>5. up = g[s] - f[s]
        BY <4>1, <4>2
      <4>6. is = was + up
        BY <3>1, <4>5
      <4> QED
        BY <2>2, <3>1, <4>2, <4>3, <4>4, <4>6
    <3> QED
      BY <2>3, <3>2, <3>3
  <2>8. closed' = None /\ closed' # "budget"
    BY <1>1, <1>3, Constants DEF Reasons
  <2>9. SumW(UnheldW(queue'), queue') = unheld
    BY <1>1 DEF unheld
  <2> QED
    BY <1>10, <2>7, <2>8, <2>9 DEF LooseKnown, g
<1>19. PICK d \in Commands : e \in About(d) /\ life[d] \in {"open", "done"}
  BY <1>3 DEF Told
<1>20. Homes'
  <2>1. ASSUME NEW t \in Slots, NEW c \in Commands, NEW b \in Commands, Serves(t, c), c # b,
               op'[t].ids \cap Own(b) # {}
        PROVE  Requests[b] \subseteq history.forgotten
    <3>1. CASE op[t].ids \cap Own(b) # {}
      BY <2>1, <3>1 DEF Homes
    <3>2. CASE op[t].ids \cap Own(b) = {}
      <4>1. t = s /\ matched /\ Ids(e) \cap Own(b) # {}
        BY <1>3, <1>4, <2>1, <3>2
      <4>2. Ids(e) \subseteq Own(d)
        BY <1>19, EventForms
      <4>3. b = d
        BY <4>1, <4>2, OwnApart
      <4>4. \/ Requests[d] \subseteq history.forgotten
            \/ e.kind \in DataKinds /\ Ids(e) \cap op[s].ids = {}
        BY <1>19, <2>1, <4>1, <4>3, ForeignEvent
      <4>5. ~(e.kind \in DataKinds /\ Ids(e) \cap op[s].ids = {})
        BY <1>3, <4>1 DEF matched, Matched, DataKinds
      <4> QED
        BY <4>3, <4>4, <4>5
    <3> QED
      BY <3>1, <3>2
  <2>2. \A c \in Commands : life'[c] = "done" =>
          Requests[c] \subseteq retired' \/ Requests[c] \subseteq history'.forgotten
    BY <1>11 DEF Homes
  <2> QED
    BY <1>10, <1>11, <2>1, <2>2 DEF Homes
<1>21. RoutedHome'
  <2> SUFFICES ASSUME NEW c \in Commands, NEW r \in history'.strays[c]
               PROVE  (r.alone /\ ~r.charged) \/ r.about \cap history.forgotten # {}
    BY <1>11 DEF RoutedHome
  <2>1. CASE r \in history.strays[c]
    BY <2>1 DEF RoutedHome
  <2>2. CASE r \notin history.strays[c]
    <3>1. Serves(s, c) /\ ~(e.about \subseteq Requests[c]) /\ r = stray
      BY <1>11, <2>2
    <3>2. e.about \subseteq Requests[d] /\ e.about # {} /\ c # d
      BY <1>19, <3>1, EventForms
    <3>3. Ids(e) # {}
      BY <1>19, <3>2, EventIds
    <3>4. \/ Requests[d] \subseteq history.forgotten
          \/ Cardinality(Live) = 1 /\ e.kind \in DataKinds /\ Ids(e) \cap op[s].ids = {}
      BY <1>19, <3>1, <3>2, <3>3, ForeignEvent
    <3>5. e.kind \in DataKinds /\ Ids(e) \cap op[s].ids = {} => ~matched
      BY <1>3 DEF matched, Matched, DataKinds
    <3>6. r.about = e.about /\ r.charged = charged /\ r.alone = (Cardinality(Live) = 1)
      BY <3>1
    <3> QED
      BY <3>2, <3>4, <3>5, <3>6
  <2> QED
    BY <2>1, <2>2
<1> QED
  BY <1>10, <1>13, <1>14, <1>15, <1>17, <1>18, <1>20, <1>21
\* An event that came through is handed over, dropped, or fails the connection.
LEMMA DistributeKeeps ==
    ASSUME DispatcherInv, NEW e, NEW ops, NEW books, NEW rest, Prepared(e, ops, books, rest),
           books = [account EXCEPT !.reserved = books.reserved],
           Distribute(e, ops, books, rest), UNCHANGED <<idle, retired, handle, life>>
    PROVE  DispatcherInv'
<1> USE DEF DispatcherInv
<1> DEFINE who == Candidates(e)
<1>1. e \in Events /\ Settled(ops, books, rest)
  BY DEF Prepared
<1>2. who \subseteq Live /\ IsFiniteSet(who) /\ Live \subseteq Slots
  BY <1>1, CandidatesAre DEF Live
<1>3. CASE Cardinality(who) > 1 \/ (who = {} /\ Ids(e) = {})
  <2>1. /\ closed' = "unassigned" /\ queue' = <<>> /\ account' = [books EXCEPT !.reserved = 0]
        /\ op' = ops /\ UNCHANGED <<requests, history>>
    BY <1>3 DEF Distribute
  <2>2. account' = [account EXCEPT !.reserved = 0]
    <3>1. account \in [reserved : Int, retained : Int, budget : Int]
      BY DEF Typed
    <3> QED
      BY <2>1, <3>1
  <2>3. ShapeKept /\ traffic' \in [sent : Nat, loose : Nat]
    BY <1>1, <2>1 DEF Settled, ShapeKept
  <2>4. closed' \in Reasons /\ closed' # "budget"
    BY <2>1 DEF Reasons
  <2> QED
    BY <2>1, <2>2, <2>3, <2>4, ClosingKeeps
<1>4. CASE ~(Cardinality(who) > 1) /\ who = {} /\ Ids(e) # {}
  <2>1. op' = ops /\ account' = books /\ queue' = rest /\ UNCHANGED <<closed, requests, history>>
    BY <1>4 DEF Distribute
  <2> QED
    BY <1>1, <2>1, SettledKeeps
<1>5. CASE ~(Cardinality(who) > 1) /\ who # {}
  <2> DEFINE s == CHOOSE t \in who : TRUE
  <2>1. s \in who
    BY <1>5
  <2>2. who = {s}
    BY <1>2, <1>5, <2>1, OneOf
  <2>3. Deliver(s, e, ops, books, rest)
    BY <1>5 DEF Distribute
  <2> HIDE DEF s
  <2>4. s \in Slots /\ Candidates(e) = {s}
    BY <1>2, <2>1, <2>2
  <2> QED
    BY <2>3, <2>4, DeliverKeeps
<1> QED
  BY <1>3, <1>4, <1>5

\* What a release gives back.
LEMMA ReleasedIs ==
    ASSUME DispatcherInv, NEW q \in QItem, QueuedWell(q)
    PROVE  /\ Released(q) \in [Slots -> Operation]
           /\ \A s \in Slots : /\ Alike(op[s], Released(q)[s])
                               /\ ~op[s].live => Released(q)[s] = op[s]
                               /\ Released(q)[s].pending = op[s].pending - HeldOf(q, s)
           /\ ~Held(q) => Released(q) = op
           /\ q.owner # None => q.owner \in Live /\ q.owner \in Candidates(q.e)
<1> USE DEF DispatcherInv
<1>1. op \in [Slots -> Operation] /\ \A s \in Slots : op[s].pending \in Int
  BY AccountsAdd DEF Typed
<1>2. q.owner \in Slots \cup {None} /\ Size(q.e) \in Nat /\ q.e \in Events /\ None \notin Slots
  BY QItemIs, Constants
<1>3. ASSUME q.owner # None PROVE q.owner \in Live /\ q.owner \in Candidates(q.e)
  <2>1. PICK i \in q.e.head : requests[i] = q.owner
    BY <1>3 DEF QueuedWell
  <2>2. i \in Ids(q.e) /\ i \in AllIds
    BY <1>2, EventWeights DEF Ids
  <2>3. requests[i] \in Candidates(q.e) /\ Candidates(q.e) \subseteq Live
    BY <1>2, <1>3, <2>1, <2>2, CandidatesAre
  <2> QED
    BY <2>1, <2>3
<1>4. CASE ~Held(q)
  <2>1. Released(q) = op
    BY <1>4 DEF Released, Held
  <2>2. \A s \in Slots : HeldOf(q, s) = 0
    BY <1>2, <1>4 DEF HeldOf, HeldBy, Held
  <2> QED
    BY <1>1, <1>3, <2>1, <2>2 DEF Alike
<1>5. CASE Held(q)
  <2> DEFINE t == q.owner
             size == Size(q.e)
             item == [j \in ClientIds |-> IF j = q.item THEN op[t].itemPending[j] - size
                                          ELSE op[t].itemPending[j]]
             o == [op[t] EXCEPT !.pending = op[t].pending - size, !.itemPending = item]
  <2>1. t \in Slots /\ t # None /\ Retained(q.e) /\ op[t].live
    BY <1>2, <1>3, <1>5 DEF Held, Live
  <2>2. Released(q) = [op EXCEPT ![t] = [op[t] EXCEPT !.pending = @ - size,
              !.itemPending = [j \in ClientIds |-> IF j = q.item THEN @[j] - size ELSE @[j]]]]
    BY <2>1 DEF Released
  <2>3. size \in Nat /\ op[t] \in Operation
    BY <1>1, <1>2, <2>1
  <2>4. item \in [ClientIds -> Int] /\ op[t].pending - size \in Int
    BY <2>3 DEF Operation
  <2>5. Released(q) = [op EXCEPT ![t] = o]
    BY <2>2
  <2> HIDE DEF item, size
  <2>6. /\ o \in Operation /\ o.live = op[t].live /\ o.gen = op[t].gen /\ o.ids = op[t].ids
        /\ o.convs = op[t].convs /\ o.count = op[t].count /\ o.bytes = op[t].bytes
        /\ o.pending = op[t].pending - size
    BY <2>3, <2>4 DEF Operation
  <2> HIDE DEF o
  <2>7. Alike(op[t], o)
    BY <2>6 DEF Alike
  <2>8. /\ HeldOf(q, t) = size /\ \A s \in Slots : s # t => HeldOf(q, s) = 0
    BY <2>1 DEF HeldOf, HeldBy, size
  <2>9. /\ Released(q) \in [Slots -> Operation] /\ Released(q)[t] = o
        /\ \A s \in Slots : s # t => Released(q)[s] = op[s]
    BY <1>1, <2>1, <2>5, <2>6
  <2>10. \A s \in Slots : s # t => Alike(op[s], Released(q)[s])
    BY <1>1, <2>9 DEF Alike
  <2> HIDE DEF t
  <2>11. \A s \in Slots : Released(q)[s].pending = op[s].pending - HeldOf(q, s)
    BY <1>1, <2>3, <2>6, <2>8, <2>9
  <2>12. \A s \in Slots : Alike(op[s], Released(q)[s]) /\ (~op[s].live => Released(q)[s] = op[s])
    BY <2>1, <2>7, <2>9, <2>10
  <2> QED
    BY <1>3, <1>5, <2>9, <2>11, <2>12
<1> QED
  BY <1>4, <1>5
\* The oldest event being decoded, and what is left of the queue without it.
LEMMA OldestIs ==
    ASSUME DispatcherInv, queue # <<>>, closed = None, NEW q, q = Head(queue)
    PROVE  /\ q \in QItem /\ QueuedWell(q) /\ Tail(queue) \in Seq(QItem)
           /\ \A n \in DOMAIN Tail(queue) : QueuedWell(Tail(queue)[n])
           /\ account.reserved = PendingOf(q) + SumW(PendingW(Tail(queue)), Tail(queue))
           /\ \A s \in Slots : op[s].pending = HeldOf(q, s) + SumW(HeldW(Tail(queue), s), Tail(queue))
           /\ SumFunctionOnSet(ExcessW(op), Live) + (UnheldOf(q) + SumW(UnheldW(Tail(queue)), Tail(queue)))
                <= traffic.loose
<1> USE DEF DispatcherInv
<1>1. queue \in Seq(QItem)
  BY DEF Typed
<1>2. \A n \in DOMAIN queue : QueuedWell(queue[n])
  BY DEF Queued, QueuedWell
<1>3. 1 \in DOMAIN queue /\ queue[1] = q /\ \A n \in DOMAIN Tail(queue) :
         n + 1 \in DOMAIN queue /\ Tail(queue)[n] = queue[n + 1]
  BY <1>1
<1>4. QueuedWell(q) /\ \A n \in DOMAIN Tail(queue) : QueuedWell(Tail(queue)[n])
  BY <1>2, <1>3
<1>5. /\ Tail(queue) \in Seq(QItem) /\ q \in QItem
      /\ SumW(PendingW(queue), queue) = PendingOf(q) + SumW(PendingW(Tail(queue)), Tail(queue))
      /\ SumW(UnheldW(queue), queue) = UnheldOf(q) + SumW(UnheldW(Tail(queue)), Tail(queue))
      /\ \A s : SumW(HeldW(queue, s), queue) = HeldOf(q, s) + SumW(HeldW(Tail(queue), s), Tail(queue))
  BY <1>1, WeightsTail
<1>6. /\ account.reserved = SumW(PendingW(queue), queue)
      /\ \A s \in Slots : op[s].pending = SumW(HeldW(queue, s), queue)
  BY DEF Books
<1>7. SumFunctionOnSet(ExcessW(op), Live) + SumW(UnheldW(queue), queue) <= traffic.loose
  BY DEF LooseKnown
<1> QED
  BY <1>4, <1>5, <1>6, <1>7

\* Released, it can be charged to the operation it was reserved from.
LEMMA OldestReleased ==
    ASSUME DispatcherInv, queue # <<>>, closed = None, NEW q, q = Head(queue), ~q.skip,
           UNCHANGED traffic
    PROVE  Prepared(q.e, Released(q), [account EXCEPT !.reserved = account.reserved - Size(q.e)], Tail(queue))
<1> USE DEF DispatcherInv
<1> DEFINE ops == Released(q)
           books == [account EXCEPT !.reserved = account.reserved - Size(q.e)]
           rest == Tail(queue)
           f == ExcessW(op)
           g == ExcessW(ops)
           unheld == SumW(UnheldW(rest), rest)
           size == Size(q.e)
           loose == traffic.loose
<1>1. /\ q \in QItem /\ QueuedWell(q) /\ rest \in Seq(QItem)
      /\ \A n \in DOMAIN rest : QueuedWell(rest[n])
      /\ account.reserved = PendingOf(q) + SumW(PendingW(rest), rest)
      /\ \A s \in Slots : op[s].pending = HeldOf(q, s) + SumW(HeldW(rest, s), rest)
      /\ SumFunctionOnSet(f, Live) + (UnheldOf(q) + unheld) <= loose
  BY OldestIs
<1>2. /\ ops \in [Slots -> Operation]
      /\ \A s \in Slots : /\ Alike(op[s], ops[s])
                          /\ ~op[s].live => ops[s] = op[s]
                          /\ ops[s].pending = op[s].pending - HeldOf(q, s)
      /\ ~Held(q) => ops = op
      /\ q.owner # None => q.owner \in Live /\ q.owner \in Candidates(q.e)
  BY <1>1, ReleasedIs
<1>3. /\ PendingOf(q) = size /\ size \in Nat /\ unheld \in Nat /\ SumW(PendingW(rest), rest) \in Nat
      /\ \A s \in Slots : SumW(HeldW(rest, s), rest) \in Nat /\ HeldOf(q, s) \in Nat
      /\ UnheldOf(q) = IF Held(q) THEN 0 ELSE size
  BY <1>1, QItemIs, WeightsAreNat DEF PendingOf, UnheldOf
<1>4. /\ books \in [reserved : Int, retained : Int, budget : Int]
      /\ books.retained = account.retained /\ books.budget = account.budget
      /\ books.reserved = SumW(PendingW(rest), rest)
  <2>1. account \in [reserved : Int, retained : Int, budget : Int]
    BY DEF Typed
  <2> HIDE DEF size
  <2>2. account.reserved - size = SumW(PendingW(rest), rest)
    BY <1>1, <1>3
  <2>3. books = [account EXCEPT !.reserved = account.reserved - size]
    BY DEF size
  <2> HIDE DEF books, rest
  <2> QED
    BY <1>3, <2>1, <2>2, <2>3
<1>5. \A s \in Slots : ops[s].pending = SumW(HeldW(rest, s), rest)
  <2> HIDE DEF ops, rest
  <2> QED
    BY <1>1, <1>2, <1>3
<1>6. /\ IsFiniteSet(Live) /\ Live \subseteq Slots /\ op \in [Slots -> Operation]
      /\ IntOn(f, Live) /\ IntOn(g, Live)
      /\ \A s \in Live : f[s] = Excess(op[s]) /\ g[s] = Excess(ops[s]) /\ f[s] \in Nat /\ g[s] \in Nat
      /\ loose \in Nat
  <2>1. IsFiniteSet(Live) /\ Live \subseteq Slots /\ op \in [Slots -> Operation] /\ loose \in Nat
    BY DEF Pools, Live, Typed
  <2> HIDE DEF ops
  <2> QED
    BY <1>2, <2>1, AccountsAdd DEF IntOn
<1>7. \A s \in Live : Over(ops[s]) = Over(op[s]) - HeldOf(q, s) /\ Over(op[s]) \in Int /\ Over(ops[s]) \in Int
  <2> SUFFICES ASSUME NEW s \in Live
               PROVE  Over(ops[s]) = Over(op[s]) - HeldOf(q, s) /\ Over(op[s]) \in Int /\ Over(ops[s]) \in Int
    OBVIOUS
  <2> DEFINE most == Limit * op[s].count
  <2>1. /\ ops[s].bytes = op[s].bytes /\ ops[s].count = op[s].count
        /\ ops[s].pending = op[s].pending - HeldOf(q, s) /\ HeldOf(q, s) \in Nat
    BY <1>2, <1>3, <1>6 DEF Alike
  <2>2. op[s].bytes \in Int /\ op[s].pending \in Int /\ most \in Nat
    BY <1>6, AccountsAdd
  <2>3. Over(ops[s]) = ops[s].bytes + ops[s].pending - most /\ Over(op[s]) = op[s].bytes + op[s].pending - most
    BY <2>1 DEF Over
  <2> HIDE DEF most, ops
  <2> QED
    BY <2>1, <2>2, <2>3
<1>8. \A s \in Live : g[s] <= f[s]
  <2> HIDE DEF f, g, ops
  <2> QED
    BY <1>3, <1>6, <1>7 DEF Excess
<1>9. /\ SumFunctionOnSet(g, Live) <= SumFunctionOnSet(f, Live)
      /\ SumFunctionOnSet(f, Live) \in Int /\ SumFunctionOnSet(g, Live) \in Int
  <2> HIDE DEF f, g
  <2> QED
    BY <1>6, <1>8, SumAtMost, SumIsInt
<1>10. Beyond(ops, rest) <= loose
  <2>1. UnheldOf(q) \in Nat
    BY <1>3
  <2>2. Beyond(ops, rest) = SumFunctionOnSet(g, Live) + unheld
    BY DEF Beyond
  <2> DEFINE was == SumFunctionOnSet(f, Live)
             is == SumFunctionOnSet(g, Live)
             own == UnheldOf(q)
  <2>3. /\ was + (own + unheld) <= loose /\ is <= was /\ was \in Int /\ is \in Int /\ own \in Nat
        /\ unheld \in Nat /\ loose \in Nat
    BY <1>1, <1>3, <1>6, <1>9, <2>1
  <2> SUFFICES is + unheld <= loose
    BY <2>2
  <2> HIDE DEF was, is, own, unheld, loose
  <2> QED
    BY <2>3
<1>11. ASSUME NEW s \in Live, Candidates(q.e) = {s}
       PROVE  Beyond(ops, rest) + Raised(q.e, ops[s]) <= loose
  <2> DEFINE was == SumFunctionOnSet(f, Live)
             is == SumFunctionOnSet(g, Live)
             up == Raised(q.e, ops[s])
  <2>1. Beyond(ops, rest) = is + unheld
    BY DEF Beyond
  <2>2. up = (IF Over(ops[s]) + size > 0 THEN Over(ops[s]) + size ELSE 0) - g[s]
    BY <1>6 DEF Raised
  <2>3. /\ was \in Int /\ is \in Int /\ unheld \in Nat /\ loose \in Nat /\ size \in Nat
        /\ g[s] \in Nat /\ f[s] \in Nat /\ Over(ops[s]) \in Int /\ is <= was
    BY <1>3, <1>6, <1>7, <1>9
  <2>4. g[s] = (IF Over(ops[s]) > 0 THEN Over(ops[s]) ELSE 0)
    BY <1>6 DEF Excess
  <2> SUFFICES is + unheld + up <= loose
    BY <2>1
  <2>5. CASE Held(q)
    <3>1. q.owner = s /\ q.owner # None /\ Retained(q.e)
      BY <1>2, <1>11, <2>5 DEF Held
    <3>2. HeldOf(q, s) = size /\ \A t \in Live \ {s} : HeldOf(q, t) = 0
      BY <3>1 DEF HeldOf, HeldBy
    <3>3. Over(op[s]) = Over(ops[s]) + size
      <4> HIDE DEF ops, size
      <4> QED
        BY <1>7, <2>3, <3>2
    <3>4. up = f[s] - g[s]
      BY <1>6, <2>2, <3>3 DEF Excess
    <3>5. \A t \in Live \ {s} : g[t] = f[t]
      <4> SUFFICES ASSUME NEW t \in Live \ {s} PROVE Over(ops[t]) = Over(op[t])
        BY <1>6 DEF Excess
      <4> HIDE DEF ops
      <4> QED
        BY <1>7, <3>2
    <3>6. is = was + (g[s] - f[s])
      <4> HIDE DEF f, g
      <4> QED
        BY <1>6, <2>3, <3>5, SumChanged
    <3>7. was + unheld <= loose
      <4>1. was + (0 + unheld) <= loose
        BY <1>1, <1>3, <2>5
      <4> HIDE DEF was, unheld, loose
      <4> QED
        BY <2>3, <4>1
    <3> HIDE DEF was, is, up, f, g, unheld, loose
    <3> QED
      BY <2>3, <3>4, <3>6, <3>7
  <2>6. CASE ~Held(q)
    <3>1. was + (size + unheld) <= loose
      BY <1>1, <1>3, <2>6
    <3> HIDE DEF ops, g, size
    <3>2. up <= size /\ up \in Int
      BY <2>2, <2>3, <2>4
    <3> HIDE DEF was, is, up, unheld, loose
    <3> QED
      BY <2>3, <3>1, <3>2
  <2> QED
    BY <2>5, <2>6
<1>12. Settled(ops, books, rest)
  <2>1. traffic' = traffic /\ traffic \in [sent : Nat, loose : Nat]
    BY DEF Typed
  <2> HIDE DEF ops, books, rest
  <2> QED
    BY <1>1, <1>2, <1>4, <1>5, <1>10, <2>1 DEF Settled, loose
<1> QED
  <2>1. q.e \in Events /\ Told(q.e)
    BY <1>1, QItemIs DEF QueuedWell
  <2>2. traffic'.loose = loose
    OBVIOUS
  <2> HIDE DEF ops, books, rest, loose
  <2>3. Prepared(q.e, ops, books, rest)
    BY <1>11, <1>12, <2>1, <2>2 DEF Prepared
  <2> QED
    BY <2>3 DEF ops, books, rest
\* The decode queue hands the oldest event over.
LEMMA ApplyDecodedKeeps == ASSUME DispatcherInv, ApplyDecoded PROVE DispatcherInv'
<1> USE DEF DispatcherInv
<1> DEFINE q == Head(queue)
           rest == Tail(queue)
<1>1. queue # <<>> /\ closed = None /\ UNCHANGED <<idle, retired, handle, life, traffic>>
  BY DEF ApplyDecoded
<1>2. /\ q \in QItem /\ QueuedWell(q) /\ rest \in Seq(QItem)
      /\ \A n \in DOMAIN rest : QueuedWell(rest[n])
      /\ account.reserved = PendingOf(q) + SumW(PendingW(rest), rest)
      /\ \A s \in Slots : op[s].pending = HeldOf(q, s) + SumW(HeldW(rest, s), rest)
      /\ SumFunctionOnSet(ExcessW(op), Live) + (UnheldOf(q) + SumW(UnheldW(rest), rest)) <= traffic.loose
  BY <1>1, OldestIs
<1>3. CASE q.skip /\ queue' = rest /\ UNCHANGED <<op, requests, account, closed, history>>
  <2>1. q.owner = None
    BY <1>2, <1>3 DEF QueuedWell
  <2>2. PendingOf(q) = 0 /\ UnheldOf(q) = 0 /\ \A s \in Slots : HeldOf(q, s) = 0
    BY <1>3, <2>1, Constants DEF PendingOf, UnheldOf, HeldOf, HeldBy
  <2>3. /\ SumW(PendingW(rest), rest) \in Nat /\ SumW(UnheldW(rest), rest) \in Nat
        /\ \A s \in Slots : SumW(HeldW(rest, s), rest) \in Nat
    BY <1>2, WeightsAreNat
  <2>4. /\ op \in [Slots -> Operation] /\ account \in [reserved : Int, retained : Int, budget : Int]
        /\ traffic \in [sent : Nat, loose : Nat]
    BY DEF Typed
  <2>5. \A s \in Slots : Alike(op[s], op[s])
    BY <2>4 DEF Alike
  <2> HIDE DEF q, rest
  <2>6. account.reserved = SumW(PendingW(rest), rest)
    BY <1>2, <2>2, <2>3
  <2>7. \A s \in Slots : op[s].pending = SumW(HeldW(rest, s), rest)
    BY <1>2, <2>2, <2>3
  <2>8. 0 + SumW(UnheldW(rest), rest) = SumW(UnheldW(rest), rest)
    BY <2>3
  <2>9. Beyond(op, rest) <= traffic'.loose
    BY <1>1, <1>2, <2>2, <2>8 DEF Beyond
  <2>10. Settled(op, account, rest)
    BY <1>1, <1>2, <2>4, <2>5, <2>6, <2>7, <2>9 DEF Settled
  <2> QED
    BY <1>1, <1>3, <2>10, SettledKeeps
<1>4. CASE ~q.skip /\ ~q.e.ok /\ CloseWith("bad") /\ op' = Released(q) /\ UNCHANGED <<requests, history>>
  <2>1. closed' = "bad" /\ queue' = <<>> /\ account' = [account EXCEPT !.reserved = 0]
    BY <1>4 DEF CloseWith
  <2>2. ShapeKept
    BY <1>2, <1>4, ReleasedIs DEF ShapeKept
  <2>3. closed' \in Reasons /\ closed' # "budget" /\ traffic' \in [sent : Nat, loose : Nat]
    BY <1>1, <2>1 DEF Reasons, Typed
  <2> QED
    BY <1>1, <1>4, <2>1, <2>2, <2>3, ClosingKeeps
<1>5. CASE /\ ~q.skip /\ q.e.ok
           /\ Distribute(q.e, Released(q), [account EXCEPT !.reserved = @ - Size(q.e)], rest)
  <2> DEFINE books == [account EXCEPT !.reserved = account.reserved - Size(q.e)]
  <2>1. Prepared(q.e, Released(q), books, rest)
    BY <1>1, <1>5, OldestReleased
  <2>2. Distribute(q.e, Released(q), books, rest)
    BY <1>5
  <2>3. books = [account EXCEPT !.reserved = books.reserved]
    <3>1. account \in [reserved : Int, retained : Int, budget : Int]
      BY DEF Typed
    <3> QED
      BY <3>1
  <2> HIDE DEF books, q, rest
  <2> QED
    BY <1>1, <2>1, <2>2, <2>3, DistributeKeeps
<1> QED
  BY <1>3, <1>4, <1>5 DEF ApplyDecoded

\* As long as more arrives that no command is charged for, everything agrees as it is.
LEMMA SettledHere ==
    ASSUME DispatcherInv, closed = None, traffic' \in [sent : Nat, loose : Nat],
           traffic.loose <= traffic'.loose
    PROVE  Settled(op, account, queue)
<1> USE DEF DispatcherInv
<1>1. /\ op \in [Slots -> Operation] /\ account \in [reserved : Int, retained : Int, budget : Int]
      /\ queue \in Seq(QItem) /\ IsFiniteSet(Live) /\ Live \in SUBSET Slots
      /\ traffic \in [sent : Nat, loose : Nat]
  BY DEF Typed, Pools, Live
<1>2. \A s \in Slots : Alike(op[s], op[s])
  BY <1>1 DEF Alike
<1>3. \A n \in DOMAIN queue : QueuedWell(queue[n])
  BY DEF Queued, QueuedWell
<1>4. /\ account.reserved = SumW(PendingW(queue), queue)
      /\ \A s \in Slots : op[s].pending = SumW(HeldW(queue, s), queue)
  BY DEF Books
<1>5. Beyond(op, queue) <= traffic'.loose
  <2>1. Beyond(op, queue) <= traffic.loose
    BY DEF LooseKnown, Beyond
  <2>2. SumFunctionOnSet(ExcessW(op), Live) \in Nat /\ SumW(UnheldW(queue), queue) \in Nat
    BY <1>1, SumsOverLive, WeightsAreNat
  <2>3. Beyond(op, queue) \in Nat
    BY <2>2 DEF Beyond
  <2> QED
    BY <1>1, <2>1, <2>3
<1> QED
  BY <1>1, <1>2, <1>3, <1>4, <1>5 DEF Settled

\* A control event is handed over at once.
LEMMA ControlKeeps ==
    ASSUME DispatcherInv, closed = None, NEW c \in Commands, life[c] \in {"open", "done"},
           NEW e \in About(c), e.kind \notin DataKinds,
           traffic' \in [sent : Nat, loose : Nat], traffic'.loose = traffic.loose,
           Distribute(e, op, account, queue), UNCHANGED <<idle, retired, handle, life>>
    PROVE  DispatcherInv'
<1>1. e \in Events /\ Told(e) /\ ~Retained(e)
  BY EventForms DEF Told, Retained, DataKinds
<1>2. account = [account EXCEPT !.reserved = account.reserved] /\ traffic.loose \in Nat
  BY DEF DispatcherInv, Typed
<1>3. Settled(op, account, queue)
  BY <1>2, SettledHere
<1>4. Prepared(e, op, account, queue)
  BY <1>1, <1>3 DEF Prepared
<1> QED
  BY <1>2, <1>4, DistributeKeeps

\* What the connection is away from its budget is what the commands are from their limits, less
\* what is reserved for none of them.
LEMMA BudgetIs ==
    ASSUME DispatcherInv, closed = None, NEW f, f = [s \in Slots |-> Over(op[s])]
    PROVE  /\ SumFunctionOnSet(f, Live) \in Int
           /\ (account.retained + account.reserved) + Reserve
                = account.budget + (SumFunctionOnSet(f, Live) + SumW(UnheldW(queue), queue))
<1> USE DEF DispatcherInv
<1> DEFINE taken == BytesW(op)
           most == BudgetW(op)
           held == [s \in Live |-> SumW(HeldW(queue, s), queue)]
           both == [s \in Live |-> taken[s] + held[s]]
           unheld == SumW(UnheldW(queue), queue)
<1>1. /\ queue \in Seq(QItem) /\ op \in [Slots -> Operation] /\ IsFiniteSet(Live) /\ Live \subseteq Slots
      /\ None \notin Live /\ account \in [reserved : Int, retained : Int, budget : Int]
  BY Constants DEF Typed, Pools, Live
<1>2. /\ account.reserved = SumW(PendingW(queue), queue)
      /\ \A s \in Live : op[s].pending = held[s]
      /\ account.retained = SumFunctionOnSet(taken, Live)
      /\ account.budget = Reserve + SumFunctionOnSet(most, Live)
  BY <1>1 DEF Books
<1>3. SumW(PendingW(queue), queue) = SumFunctionOnSet(held, Live) + unheld
  <2>1. ASSUME NEW n \in DOMAIN queue
        PROVE  IF queue[n].skip THEN queue[n].owner = None ELSE queue[n].owner \in Live \cup {None}
    <3>1. queue[n] \in QItem /\ QueuedWell(queue[n])
      BY <1>1 DEF Queued, QueuedWell
    <3> QED
      BY <3>1, ReleasedIs DEF QueuedWell
  <2> QED
    BY <1>1, <2>1, PendingIsHeldOrUnheld
<1>4. /\ IntOn(taken, Live) /\ IntOn(most, Live) /\ IntOn(held, Live) /\ unheld \in Int
      /\ \A s \in Live : taken[s] = op[s].bytes /\ most[s] = Limit * op[s].count
  <2>1. \A s \in Live : SumW(HeldW(queue, s), queue) \in Int
    BY <1>1, WeightsAreNat
  <2> QED
    BY <1>1, <2>1, AccountsAdd, WeightsAreNat DEF IntOn
<1>5. \A s \in Live : /\ both[s] = f[s] + most[s] /\ both[s] = taken[s] + held[s]
                     /\ both[s] \in Int /\ f[s] \in Int
  <2> SUFFICES ASSUME NEW s \in Live
               PROVE  both[s] = f[s] + most[s] /\ both[s] = taken[s] + held[s] /\ both[s] \in Int /\ f[s] \in Int
    OBVIOUS
  <2>1. both[s] = taken[s] + held[s]
    OBVIOUS
  <2>2. taken[s] \in Int /\ held[s] \in Int /\ most[s] \in Int
    BY <1>4 DEF IntOn
  <2>3. f[s] = Over(op[s])
    BY <1>1
  <2> DEFINE x == most[s]
  <2>4. f[s] = op[s].bytes + op[s].pending - x
    BY <1>4, <2>3 DEF Over
  <2>5. f[s] = taken[s] + held[s] - x
    BY <1>2, <1>4, <2>4
  <2> HIDE DEF both, taken, held, most
  <2> QED
    BY <2>1, <2>2, <2>5
<1> HIDE DEF taken, most, held, both
<1>6. IntOn(both, Live) /\ IntOn(f, Live)
  BY <1>5 DEF IntOn
<1>8. SumFunctionOnSet(both, Live) = SumFunctionOnSet(taken, Live) + SumFunctionOnSet(held, Live)
  <2>1. \A s \in Live : both[s] = taken[s] + held[s]
    BY <1>5
  <2>2. IsFiniteSet(Live) /\ IntOn(taken, Live) /\ IntOn(held, Live)
    BY <1>1, <1>4
  <2> QED
    BY <2>1, <2>2, SumPlus
<1>9. SumFunctionOnSet(both, Live) = SumFunctionOnSet(f, Live) + SumFunctionOnSet(most, Live)
  <2>1. \A s \in Live : both[s] = f[s] + most[s]
    BY <1>5
  <2>2. IsFiniteSet(Live) /\ IntOn(f, Live) /\ IntOn(most, Live)
    BY <1>1, <1>4, <1>6
  <2> QED
    BY <2>1, <2>2, SumPlus
<1>10. /\ SumFunctionOnSet(both, Live) \in Int /\ SumFunctionOnSet(taken, Live) \in Int
       /\ SumFunctionOnSet(held, Live) \in Int /\ SumFunctionOnSet(f, Live) \in Int
       /\ SumFunctionOnSet(most, Live) \in Int /\ Reserve \in Int
  BY <1>1, <1>4, <1>6, SumIsInt, Constants
<1> HIDE DEF unheld
<1>11. (account.retained + account.reserved) + Reserve = account.budget + (SumFunctionOnSet(f, Live) + unheld)
  <2> DEFINE a == SumFunctionOnSet(both, Live)
             b == SumFunctionOnSet(taken, Live)
             c == SumFunctionOnSet(held, Live)
             d == SumFunctionOnSet(f, Live)
             m == SumFunctionOnSet(most, Live)
  <2>1. account.retained = b /\ account.reserved = c + unheld /\ account.budget = Reserve + m
    BY <1>2, <1>3
  <2>2. a = b + c /\ a = d + m /\ a \in Int /\ b \in Int /\ c \in Int /\ d \in Int /\ m \in Int
        /\ unheld \in Int /\ Reserve \in Int
    BY <1>4, <1>8, <1>9, <1>10
  <2> SUFFICES (account.retained + account.reserved) + Reserve = account.budget + (d + unheld)
    OBVIOUS
  <2> HIDE DEF a, b, c, d, m
  <2>3. (b + (c + unheld)) + Reserve = (Reserve + m) + (d + unheld)
    BY <2>2
  <2> QED
    BY <2>1, <2>3
<1> QED
  BY <1>10, <1>11 DEF unheld

\* The connection exceeds its budget only by what its commands are charged for nowhere: one that
\* is charged on arrival stays within its own limit, or fails alone.
LEMMA BudgetHolds ==
    ASSUME DispatcherInv, closed = None, NEW size \in Nat, NEW more \in Nat,
           more = size \/ (more = 0 /\ \E s \in Live : Over(op[s]) + size <= 0),
           account.retained + account.reserved + size > account.budget
    PROVE  traffic.loose + more > Reserve
<1> USE DEF DispatcherInv
<1> DEFINE f == [s \in Slots |-> Over(op[s])]
           g == ExcessW(op)
           unheld == SumW(UnheldW(queue), queue)
           loose == traffic.loose
           known == account.retained + account.reserved
           over == SumFunctionOnSet(f, Live)
           excess == SumFunctionOnSet(g, Live)
<1>1. /\ queue \in Seq(QItem) /\ op \in [Slots -> Operation] /\ IsFiniteSet(Live) /\ Live \subseteq Slots
      /\ account \in [reserved : Int, retained : Int, budget : Int] /\ loose \in Nat
  BY DEF Typed, Pools, Live
<1>2. /\ over \in Int /\ known + Reserve = account.budget + (over + unheld)
      /\ unheld \in Nat /\ known \in Int /\ account.budget \in Int /\ Reserve \in Nat
  BY <1>1, BudgetIs, WeightsAreNat, Constants
<1>3. \A s \in Live : f[s] = Over(op[s]) /\ g[s] = Excess(op[s]) /\ f[s] \in Int /\ g[s] \in Nat
  <2> SUFFICES ASSUME NEW s \in Live PROVE Over(op[s]) \in Int /\ g[s] = Excess(op[s]) /\ g[s] \in Nat
    BY <1>1
  <2>1. /\ op[s].bytes \in Int /\ op[s].pending \in Int /\ Limit * op[s].count \in Int
        /\ g[s] = Excess(op[s]) /\ g[s] \in Nat
    BY <1>1, AccountsAdd
  <2> QED
    BY <2>1 DEF Over
<1>4. IntOn(f, Live) /\ IntOn(g, Live)
  <2> HIDE DEF f, g
  <2> QED
    BY <1>3 DEF IntOn
<1>5. \A s \in Live : f[s] <= g[s]
  BY <1>3 DEF Excess
<1>6. excess + unheld <= loose
  BY DEF LooseKnown
<1> HIDE DEF f, g
<1>7. over <= excess /\ excess \in Int
  BY <1>1, <1>4, <1>5, SumAtMost, SumIsInt
<1>8. CASE more = size
  <2>1. over + unheld + size > Reserve
    <3> HIDE DEF over, unheld, known
    <3>1. known + size > account.budget
      BY DEF known
    <3> QED
      BY <1>2, <3>1
  <2> HIDE DEF over, excess, unheld, loose
  <2>2. loose + more > Reserve
    BY <1>1, <1>2, <1>6, <1>7, <1>8, <2>1
  <2> QED
    BY <2>2 DEF loose
<1>9. ASSUME more = 0, NEW s \in Live, Over(op[s]) + size <= 0 PROVE traffic.loose + more > Reserve
  <2>1. f[s] + size <= 0 /\ g[s] = 0 /\ f[s] \in Int
    BY <1>3, <1>9 DEF Excess
  <2>2. /\ over = f[s] + SumFunctionOnSet(f, Live \ {s}) /\ excess = g[s] + SumFunctionOnSet(g, Live \ {s})
    BY <1>1, <1>4, <1>9, SumRemove
  <2>3. /\ IsFiniteSet(Live \ {s}) /\ IntOn(f, Live \ {s}) /\ IntOn(g, Live \ {s})
        /\ \A t \in Live \ {s} : f[t] <= g[t]
    BY <1>1, <1>4, <1>5, FS_RemoveElement DEF IntOn
  <2> DEFINE under == SumFunctionOnSet(f, Live \ {s})
             above == SumFunctionOnSet(g, Live \ {s})
  <2>4. under <= above /\ under \in Int /\ above \in Int
    BY <2>3, SumAtMost, SumIsInt
  <2>5. known + size > account.budget
    OBVIOUS
  <2>6. over = f[s] + under /\ excess = g[s] + above
    BY <2>2
  <2> HIDE DEF over, excess, unheld, loose, known, under, above
  <2>7. over = f[s] + under /\ excess = above
    BY <2>1, <2>4, <2>6
  <2>8. known + size > account.budget /\ excess + unheld <= loose
    BY <1>6, <2>5
  <2>9. over + size <= excess
    BY <2>1, <2>4, <2>7
  <2>10. over + size + unheld > Reserve
    BY <1>2, <2>8
  <2>11. loose + more > Reserve
    BY <1>1, <1>2, <1>7, <1>9, <2>8, <2>9, <2>10
  <2> QED
    BY <2>11 DEF loose
<1> QED
  BY <1>8, <1>9
\* Data events reserve their bytes.
LEMMA ReceiveKeeps ==
    ASSUME DispatcherInv, closed = None, NEW c \in Commands, life[c] \in {"open", "done"},
           NEW e \in About(c), e.kind \in DataKinds,
           traffic' = [sent |-> traffic.sent + 1, loose |-> traffic.loose +
                         IF Claimant(e) = {} \/ ~Retained(e) THEN Size(e) ELSE 0],
           Receive(e), UNCHANGED <<idle, requests, retired, handle, life, history>>
    PROVE  DispatcherInv'
<1> USE DEF DispatcherInv
<1> DEFINE s == IF Claimant(e) = {} THEN None ELSE CHOOSE t \in Claimant(e) : TRUE
           owned == s # None /\ Retained(e)
           i == IF s = None THEN None ELSE ItemFor(op[s], e.head)
           size == Size(e)
           over == owned /\ OverLimit(op[s], i, size)
           more == IF owned THEN 0 ELSE size
           x == [e |-> e, owner |-> s, item |-> i, skip |-> FALSE]
           rest == Append(queue, x)
           books == [account EXCEPT !.reserved = account.reserved + size]
           items == [j \in ClientIds |-> IF j = i THEN op[s].itemPending[j] + size
                                                 ELSE op[s].itemPending[j]]
           o == [op[s] EXCEPT !.pending = op[s].pending + size, !.itemPending = items]
           ops == IF owned THEN [op EXCEPT ![s] = o] ELSE op
<1>1. /\ e \in Events /\ e.head \in SUBSET AllIds /\ size \in Nat /\ Told(e) /\ Retained(e) \in BOOLEAN
  BY EventForms, EventWeights DEF Told
<1>2. /\ op \in [Slots -> Operation] /\ account \in [reserved : Int, retained : Int, budget : Int]
      /\ queue \in Seq(QItem) /\ IsFiniteSet(Live) /\ Live \in SUBSET Slots
      /\ traffic \in [sent : Nat, loose : Nat] /\ requests \in [AllIds -> Slots \cup {None}]
      /\ None \notin Slots
  BY Constants DEF Typed, Pools, Live
<1>3. /\ s = None \/ (s \in Live /\ \E j \in e.head : requests[j] = s)
      /\ Claimant(e) = {} <=> s = None
  <2>1. ASSUME NEW t \in Claimant(e)
        PROVE  t # None /\ t \in Live /\ \E j \in e.head : requests[j] = t
    <3>1. PICK j \in e.head : requests[j] = t /\ t # None
      BY DEF Claimant
    <3> QED
      BY <1>1, <1>2, <3>1 DEF Registered, Live
  <2> QED
    BY <2>1
<1>4. /\ over \/ ~over
      /\ over => owned /\ UNCHANGED <<op, queue, account, closed>>
      /\ ~over /\ account.retained + account.reserved + size > account.budget =>
            CloseWith("budget") /\ UNCHANGED op
      /\ ~over /\ ~(account.retained + account.reserved + size > account.budget) =>
            account' = books /\ op' = ops /\ queue' = rest /\ UNCHANGED closed
  <2> DEFINE kept == IF ~owned THEN op ELSE
                       [op EXCEPT ![s].pending = @ + Size(e),
                                  ![s].itemPending = [j \in ClientIds |->
                                       IF j = i THEN @[j] + Size(e) ELSE @[j]]]
             beyond == account.retained + account.reserved + size > account.budget
  <2>1. IF over THEN UNCHANGED <<op, queue, account, closed>>
        ELSE IF beyond THEN CloseWith("budget") /\ UNCHANGED op
        ELSE /\ account' = [account EXCEPT !.reserved = @ + size]
             /\ op' = kept /\ queue' = rest /\ UNCHANGED closed
    BY DEF Receive
  <2>2. kept = ops
    <3>1. CASE ~owned
      BY <3>1
    <3>2. CASE owned
      <4>1. s \in Slots /\ DOMAIN op = Slots /\ op[s] \in Operation
        BY <1>2, <1>3, <3>2
      <4> HIDE DEF s, i
      <4>2. kept = [op EXCEPT ![s].pending = @ + Size(e),
                              ![s].itemPending = [j \in ClientIds |->
                                   IF j = i THEN @[j] + Size(e) ELSE @[j]]]
            /\ ops = [op EXCEPT ![s] = o]
        BY <3>2
      <4> QED
        BY <4>1, <4>2 DEF Operation
    <3> QED
      BY <3>1, <3>2
  <2>3. books = [account EXCEPT !.reserved = @ + size]
    OBVIOUS
  <2> HIDE DEF kept, ops, rest, books, over, beyond, owned
  <2>4. /\ over => UNCHANGED <<op, queue, account, closed>>
        /\ ~over /\ beyond => CloseWith("budget") /\ UNCHANGED op
        /\ ~over /\ ~beyond => account' = books /\ op' = ops /\ queue' = rest /\ UNCHANGED closed
    BY <2>1, <2>2, <2>3
  <2> QED
    BY <2>4 DEF over, beyond
<1>5. traffic' \in [sent : Nat, loose : Nat] /\ traffic'.loose = traffic.loose + more /\ more \in Nat
  <2>1. more = IF Claimant(e) = {} \/ ~Retained(e) THEN Size(e) ELSE 0
    BY <1>3
  <2>2. more \in Nat
    BY <1>1
  <2> HIDE DEF more
  <2>3. traffic' = [sent |-> traffic.sent + 1, loose |-> traffic.loose + more]
    BY <2>1
  <2> QED
    BY <1>2, <2>2, <2>3
<1>6. ASSUME owned, ~over
      PROVE  /\ s \in Live /\ Over(op[s]) \in Int /\ Over(op[s]) + size <= 0
  <2>1. s \in Live /\ s \in Slots
    BY <1>2, <1>3, <1>6
  <2>2. ~OverLimit(op[s], i, size)
    BY <1>6
  <2> DEFINE most == Limit * op[s].count
  <2>3. ~(op[s].bytes + op[s].pending + size > most)
    BY <2>2 DEF OverLimit
  <2>4. /\ op[s].bytes \in Int /\ op[s].pending \in Int /\ most \in Int
    BY <1>2, <2>1, AccountsAdd
  <2>5. Over(op[s]) = op[s].bytes + op[s].pending - most
    BY DEF Over
  <2> HIDE DEF most, size, s
  <2> QED
    BY <1>1, <2>1, <2>3, <2>4, <2>5
<1>7. CASE over
  <2>1. traffic.loose <= traffic'.loose
    BY <1>2, <1>5
  <2>2. Settled(op, account, queue)
    BY <1>5, <2>1, SettledHere
  <2> QED
    BY <1>4, <1>7, <2>2, SettledKeeps
<1>8. CASE ~over /\ account.retained + account.reserved + size > account.budget
  <2>1. closed' = "budget" /\ queue' = <<>> /\ account' = [account EXCEPT !.reserved = 0] /\ UNCHANGED op
    BY <1>4, <1>8 DEF CloseWith
  <2>2. more = size \/ (more = 0 /\ \E t \in Live : Over(op[t]) + size <= 0)
    BY <1>6, <1>8
  <2>3. traffic.loose + more > Reserve
    <3> HIDE DEF more, size, over
    <3> QED
      BY <1>1, <1>5, <1>8, <2>2, BudgetHolds
  <2>4. ShapeKept /\ closed' \in Reasons
    BY <2>1, SameShape DEF Reasons
  <2> HIDE DEF more
  <2> QED
    BY <1>5, <2>1, <2>3, <2>4, ClosingKeeps
<1>9. CASE ~over /\ ~(account.retained + account.reserved + size > account.budget)
  <2>1. account' = books /\ op' = ops /\ queue' = rest /\ UNCHANGED closed
    BY <1>4, <1>9
  <2>2. i \in ClientIds \cup {None} /\ s \in Slots \cup {None}
    BY <1>1, <1>2, <1>3, ItemForType
  <2>3. x \in QItem /\ x.e = e /\ x.owner = s /\ ~x.skip
    BY <1>1, <2>2 DEF QItem
  <2>4. QueuedWell(x)
    <3> HIDE DEF x, s
    <3> QED
      BY <1>1, <1>3, <2>3 DEF QueuedWell
  <2>5. /\ PendingOf(x) = size /\ UnheldOf(x) = more
        /\ \A t \in Slots : HeldOf(x, t) = IF owned /\ t = s THEN size ELSE 0
    BY <1>2, <2>3 DEF PendingOf, UnheldOf, HeldOf, Held, HeldBy
  <2> HIDE DEF x
  <2>6. /\ rest \in Seq(QItem)
        /\ SumW(PendingW(rest), rest) = SumW(PendingW(queue), queue) + size
        /\ SumW(UnheldW(rest), rest) = SumW(UnheldW(queue), queue) + more
        /\ \A t \in Slots : SumW(HeldW(rest, t), rest) = SumW(HeldW(queue, t), queue) + HeldOf(x, t)
    BY <1>2, <2>3, <2>5, WeightsAppend
  <2>7. \A n \in DOMAIN rest : QueuedWell(rest[n])
    <3>1. \A n \in DOMAIN queue : QueuedWell(queue[n])
      BY DEF Queued, QueuedWell
    <3>2. \A n \in DOMAIN rest : (n \in DOMAIN queue /\ rest[n] = queue[n]) \/ rest[n] = x
      BY <1>2
    <3> HIDE DEF rest
    <3> QED
      BY <2>4, <3>1, <3>2
  <2> HIDE DEF rest
  <2>8. ASSUME owned
        PROVE  /\ s \in Slots /\ s \in Live /\ ops = [op EXCEPT ![s] = o] /\ o \in Operation
               /\ o.pending = op[s].pending + size /\ Alike(op[s], o)
               /\ Excess(op[s]) = 0 /\ Excess(o) = 0
    <3>1. s \in Slots /\ s \in Live /\ op[s] \in Operation /\ ops = [op EXCEPT ![s] = o]
      BY <1>2, <1>3, <2>8
    <3> HIDE DEF s, size
    <3>2. items \in [ClientIds -> Int] /\ op[s].pending + size \in Int
      BY <1>1, <3>1 DEF Operation, size
    <3> HIDE DEF items
    <3>3. /\ o \in Operation /\ o.live = op[s].live /\ o.gen = op[s].gen /\ o.ids = op[s].ids
          /\ o.convs = op[s].convs /\ o.count = op[s].count /\ o.bytes = op[s].bytes
          /\ o.pending = op[s].pending + size
      BY <3>1, <3>2 DEF Operation
    <3> HIDE DEF o
    <3>4. Alike(op[s], o)
      BY <3>3 DEF Alike
    <3>5. Over(op[s]) \in Int /\ Over(op[s]) + size <= 0 /\ size \in Nat
      BY <1>1, <1>6, <1>9, <2>8 DEF size
    <3>6. Over(o) = Over(op[s]) + size
      <4> DEFINE most == Limit * op[s].count
      <4>1. Over(o) = o.bytes + o.pending - most /\ Over(op[s]) = op[s].bytes + op[s].pending - most
        BY <3>3 DEF Over
      <4>2. op[s].bytes \in Int /\ op[s].pending \in Int /\ most \in Int
        BY <1>2, <3>1, AccountsAdd
      <4> HIDE DEF most
      <4> QED
        BY <3>3, <3>5, <4>1, <4>2
    <3>7. Excess(op[s]) = 0 /\ Excess(o) = 0
      BY <3>5, <3>6 DEF Excess
    <3> QED
      BY <3>1, <3>3, <3>4, <3>7 DEF size
  <2>9. /\ ops \in [Slots -> Operation]
        /\ \A t \in Slots : /\ Alike(op[t], ops[t]) /\ (~op[t].live => ops[t] = op[t])
                            /\ ops[t].pending = op[t].pending + HeldOf(x, t)
                            /\ Excess(ops[t]) = Excess(op[t])
    <3>1. \A t \in Slots : Alike(op[t], op[t]) /\ op[t].pending \in Int
      BY <1>2, AccountsAdd DEF Alike
    <3>2. CASE owned
      <4> HIDE DEF o
      <4>1. /\ ops \in [Slots -> Operation] /\ ops[s] = o /\ \A t \in Slots : t # s => ops[t] = op[t]
        BY <1>2, <2>8, <3>2
      <4> HIDE DEF ops
      <4>2. /\ HeldOf(x, s) = size /\ \A t \in Slots : t # s => HeldOf(x, t) = 0
        BY <2>5, <2>8, <3>2
      <4>3. op[s].live
        BY <2>8, <3>2 DEF Live
      <4>4. \A t \in Slots : t # s => op[t].pending + HeldOf(x, t) = op[t].pending
        BY <3>1, <4>2
      <4> HIDE DEF s, size
      <4> QED
        BY <2>8, <3>1, <3>2, <4>1, <4>2, <4>3, <4>4
    <3>3. CASE ~owned
      <4>1. ops = op /\ \A t \in Slots : HeldOf(x, t) = 0
        BY <2>5, <3>3
      <4> HIDE DEF ops
      <4> QED
        BY <1>2, <3>1, <4>1
    <3> QED
      BY <3>2, <3>3
  <2> HIDE DEF ops
  <2>10. SumFunctionOnSet(ExcessW(op), Live) = SumFunctionOnSet(ExcessW(ops), Live)
    <3>1. IntOn(ExcessW(op), Live)
      BY <1>2, AccountsAdd DEF IntOn
    <3>2. \A t \in Live : ExcessW(op)[t] = ExcessW(ops)[t]
      BY <1>2, <2>9 DEF ExcessW
    <3> QED
      BY <1>2, <3>1, <3>2, SumEqual
  <2>11. Beyond(ops, rest) <= traffic'.loose
    <3> DEFINE excess == SumFunctionOnSet(ExcessW(op), Live)
               unheld == SumW(UnheldW(queue), queue)
               loose == traffic.loose
    <3>1. excess \in Nat /\ unheld \in Nat /\ loose \in Nat
      BY <1>2, SumsOverLive, WeightsAreNat
    <3>2. excess + unheld <= loose
      BY DEF LooseKnown
    <3>3. Beyond(ops, rest) = excess + (unheld + more)
      BY <2>6, <2>10 DEF Beyond
    <3>4. traffic'.loose = loose + more /\ more \in Nat
      BY <1>5
    <3> HIDE DEF excess, unheld, loose, more
    <3> QED
      BY <3>1, <3>2, <3>3, <3>4
  <2>12. /\ account.reserved = SumW(PendingW(queue), queue)
         /\ \A t \in Slots : op[t].pending = SumW(HeldW(queue, t), queue)
    BY DEF Books
  <2>13. /\ books \in [reserved : Int, retained : Int, budget : Int]
         /\ books.retained = account.retained /\ books.budget = account.budget
         /\ books.reserved = SumW(PendingW(rest), rest)
    <3> HIDE DEF size
    <3>1. size \in Nat /\ books = [account EXCEPT !.reserved = account.reserved + size]
      BY <1>1 DEF size
    <3>2. account.reserved + size = SumW(PendingW(rest), rest)
      BY <2>6, <2>12
    <3> HIDE DEF books
    <3> QED
      BY <1>2, <3>1, <3>2, SMTT(30)
  <2>14. \A t \in Slots : ops[t].pending = SumW(HeldW(rest, t), rest)
    BY <2>6, <2>9, <2>12
  <2> HIDE DEF books
  <2>15. Settled(ops, books, rest)
    BY <1>5, <2>6, <2>7, <2>9, <2>11, <2>13, <2>14 DEF Settled
  <2> QED
    BY <2>1, <2>15, SettledKeeps
<1> QED
  BY <1>4, <1>7, <1>8, <1>9
\* An event reaches the dispatcher.
LEMMA EventArrivesKeeps ==
    ASSUME DispatcherInv, NEW c \in Commands, EventArrives(c)
    PROVE  DispatcherInv'
<1>1. PICK e \in About(c) :
         /\ traffic' = [sent |-> traffic.sent + 1, loose |-> traffic.loose +
                         IF Claimant(e) = {} \/ ~Retained(e) THEN Size(e) ELSE 0]
         /\ IF e.kind \in DataKinds THEN Receive(e) /\ UNCHANGED <<requests, history>>
                                    ELSE Distribute(e, op, account, queue)
  BY DEF EventArrives
<1>2. /\ closed = None /\ life[c] \in {"open", "done"} /\ UNCHANGED <<idle, retired, handle, life>>
  BY DEF EventArrives
<1>3. CASE e.kind \in DataKinds
  BY <1>1, <1>2, <1>3, ReceiveKeeps
<1>4. CASE e.kind \notin DataKinds
  <2>1. traffic \in [sent : Nat, loose : Nat]
    BY DEF DispatcherInv, Typed
  <2>2. traffic' = [sent |-> traffic.sent + 1, loose |-> traffic.loose + 0]
    BY <1>1, <1>4 DEF Size
  <2>3. traffic' \in [sent : Nat, loose : Nat] /\ traffic'.loose = traffic.loose
    BY <2>1, <2>2
  <2>4. Distribute(e, op, account, queue)
    BY <1>1, <1>4
  <2> QED
    BY <1>2, <1>4, <2>3, <2>4, ControlKeeps
<1> QED
  BY <1>3, <1>4

\* Every step of the dispatcher keeps the invariant.
LEMMA DispatcherNext == DispatcherInv /\ [Next]_vars => DispatcherInv'
<1> SUFFICES ASSUME DispatcherInv, [Next]_vars PROVE DispatcherInv'
  OBVIOUS
<1>1. CASE HandlerReturns \/ UNCHANGED vars
  <2>1. /\ UNCHANGED <<op, idle, requests, retired, handle, queue, account, closed>>
        /\ UNCHANGED <<life, traffic, history>>
    BY <1>1 DEF HandlerReturns, vars
  <2>2. ShapeKept
    BY <2>1, SameShape DEF DispatcherInv
  <2> QED
    BY <2>1, <2>2, QuietKeeps
<1>2. ASSUME NEW c \in Commands, NEW g, RegisterHere(c, g) PROVE DispatcherInv'
  BY <1>2, RegisterHereKeeps
<1>3. ASSUME NEW c \in Commands, NEW g, RegisterAnew(c, g) PROVE DispatcherInv'
  BY <1>3, RegisterAnewKeeps
<1>4. ASSUME NEW c \in Commands, NEW g, RegisterRefused(c, g) PROVE DispatcherInv'
  BY <1>4, RegisterRefusedKeeps
<1>5. ASSUME NEW c \in Commands, Emit(c) PROVE DispatcherInv'
  BY <1>5, EmitKeeps
<1>6. ASSUME NEW c \in Commands, Dispose(c) PROVE DispatcherInv'
  BY <1>6, DisposeKeeps
<1>7. ASSUME NEW c \in Commands, EventArrives(c) PROVE DispatcherInv'
  BY <1>7, EventArrivesKeeps
<1>8. CASE Forget
  BY <1>8, ForgetKeeps
<1>9. CASE ApplyDecoded
  BY <1>9, ApplyDecodedKeeps
<1>10. CASE ConnectionEnds \/ HandlerRejects
  BY <1>10, ConnectionEndsKeeps
<1> QED
  BY <1>1, <1>2, <1>3, <1>4, <1>5, <1>6, <1>7, <1>8, <1>9, <1>10 DEF Next

\* The invariant of the dispatcher: what is pooled, registered, queued, charged and retired
\* fits together in every state (socketEventDispatcher.ts).
THEOREM DispatcherInvariance == Spec => []DispatcherInv
<1> QED
  BY DispatcherInit, DispatcherNext, PTL DEF Spec

\* The pool and the accounts are exact: no object serves two commands or is idle while it serves
\* one, and nothing is credited to the command that got the object next, for every number of
\* commands, objects and events (socketEventDispatcher.ts, dispose and applyDecoded).
THEOREM AccountsAreExact == Spec => []AccountsExact
<1>1. DispatcherInv => AccountsExact
  <2> SUFFICES ASSUME DispatcherInv PROVE AccountsExact
    OBVIOUS
  <2> USE DEF DispatcherInv
  <2>1. TypeOK
    BY DEF Typed, TypeOK
  <2>2. IsInjective(idle) /\ \A n \in DOMAIN idle : idle[n] \in Slots \ Live
    BY DEF Pools, IsInjective, Live, Typed
  <2>3. \A s \in Live : \E c \in Commands : {d \in Commands : Serves(s, d)} = {c}
    <3> SUFFICES ASSUME NEW s \in Live PROVE \E c \in Commands : {d \in Commands : Serves(s, d)} = {c}
      OBVIOUS
    <3>1. PICK c \in Commands : Serves(s, c)
      BY DEF Handles
    <3>2. handle[c] # None
      <4>1. op[s].gen \in Nat /\ s \in Slots
        BY DEF Live, Typed, Operation
      <4> QED
        BY <3>1, <4>1, Constants DEF Serves
    <3>3. \A d \in Commands : Serves(s, d) => d = c
      BY <3>1, <3>2 DEF Serves, Handles
    <3> QED
      BY <3>1, <3>3
  <2>4. closed = None => /\ account.reserved = BytesOf(Pending)
                         /\ \A s \in Slots : op[s].pending = BytesOf(Holding(s))
    BY BytesAlongQueue DEF Books, Queued, Typed
  <2>5. /\ account.retained = SumFunctionOnSet([s \in Slots |-> op[s].bytes], Live)
        /\ account.budget = Reserve + SumFunctionOnSet([s \in Slots |-> Limit * op[s].count], Live)
    BY DEF Books, BytesW, BudgetW
  <2>6. \A s \in Slots : ~op[s].live => op[s].ids = {} /\ op[s].bytes = 0
    <3> SUFFICES ASSUME NEW s \in Slots, ~op[s].live PROVE op[s].ids = {} /\ op[s].bytes = 0
      OBVIOUS
    <3>1. op[s] = [Blank EXCEPT !.gen = op[s].gen]
      BY DEF Pools
    <3>2. op[s].gen \in Nat
      BY DEF Typed, Operation
    <3> QED
      BY <3>1, <3>2, BlankIs
  <2> QED
    BY <2>1, <2>2, <2>3, <2>4, <2>5, <2>6 DEF AccountsExact
<1> QED
  BY <1>1, DispatcherInvariance, PTL

\* Events reach the command they are about, however late, duplicated or reordered they come and
\* whatever stale handles are used (socketEventDispatcher.ts, findOperation).
THEOREM EventsReachHome == Spec => []RoutedHome
<1>1. DispatcherInv => RoutedHome
  BY DEF DispatcherInv
<1> QED
  BY <1>1, DispatcherInvariance, PTL

\* Bytes that overrun the budget of their command end that command alone: the connection
\* exceeds its budget only by more bytes than the control reserve that no command was charged
\* for, whatever handlers do meanwhile, for every number of commands, objects and events
\* (socketEventDispatcher.ts, receive and distribute).
THEOREM BytesFailOneCommand == Spec => []BytesFailAlone
<1>1. DispatcherInv => BytesFailAlone
  BY DEF DispatcherInv, LooseKnown, BytesFailAlone
<1> QED
  BY <1>1, DispatcherInvariance, PTL
================================================================================
