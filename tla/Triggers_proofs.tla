---------------------------- MODULE Triggers_proofs -----------------------------
(*****************************************************************************)
(* Proofs about BackpressureQueue and TriggerEvents, for any limits,         *)
(* policies and number of events; and about TriggerSession, for any limits   *)
(* on failures and attempts.                                                 *)
(*****************************************************************************)
EXTENDS TriggerEvents, TriggerSession, FiniteSetTheorems, SequenceTheorems, TLAPS

--------------------------------------------------------------------------------
(* The events.                                                             *)

Sorted(s) == \A i, j \in DOMAIN s : i < j => s[i] < s[j]
Before(S, T) == \A x \in S, y \in T : x < y

\* Events are started in the order they arrived, and none has more places than one.
InOrder ==
    /\ Sorted(queue) /\ Sorted(started) /\ Before(ToSet(started), ToSet(queue))
    /\ ToSet(started) \cup ToSet(queue) \cup lost \cup refused \subseteq 1..arrived

\* A task in flight was started and has shown nothing yet.
InPlace ==
    /\ preparing \cap settling = {}
    /\ Inflight \subseteq ToSet(started)
    /\ ToSet(emitted) \cup failed \subseteq ToSet(started) \ preparing
    /\ IsInjective(emitted)
    /\ closed => queue = <<>>

\* With one slot, what was emitted is in order and what is prepared comes after it.
OneByOne ==
    config.inflight = 1 =>
        /\ Sorted(emitted)
        /\ \A x \in preparing, y \in ToSet(started) : y <= x

QInv ==
    /\ TypeOK /\ InOrder /\ InPlace /\ Bounded /\ NoIdleSlot /\ Accounted /\ OneByOne
    /\ NewestKept

\* An event that passed the memory, and is to be emitted or was.
Passed == ToSet(emitted) \cup attaching
Caused == Passed \cup failed

\* The memory: what passed is remembered or forgotten, what passed twice is forgotten, and
\* what is remembered passed, or failed aloud.
MemoryTypeOK ==
    /\ idOf \in Seq(EventIds) /\ Len(idOf) = arrived /\ attaching \subseteq preparing
    /\ entries \in Seq(EventIds) /\ live \in Seq(EventIds) /\ IsInjective(live)
    /\ forgotten \subseteq EventIds
Bound == Len(entries) <= MaxEntries /\ ToSet(live) \subseteq ToSet(entries)
PassedKnown == \A e \in Passed : idOf[e] \in ToSet(live) \cup forgotten
PassedOnce == \A e, f \in Passed : e # f /\ idOf[e] = idOf[f] => idOf[e] \in forgotten
LiveCaused == ~closed => \A id \in ToSet(live) : \E k \in Caused : idOf[k] = id
SilentCaused ==
    ~closed =>
        \A e \in ToSet(started) \ preparing :
            e \in ToSet(emitted) \cup failed \/ \E k \in Caused \ {e} : idOf[k] = idOf[e]

EInv ==
    QInv /\ MemoryTypeOK /\ Bound /\ PassedKnown /\ PassedOnce /\ LiveCaused /\ SilentCaused

--------------------------------------------------------------------------------
(* Sequences                                                               *)

\* The elements of a concatenation.
LEMMA ToSetConcat ==
    ASSUME NEW S, NEW s \in Seq(S), NEW t \in Seq(S)
    PROVE  ToSet(s \o t) = ToSet(s) \cup ToSet(t)
<1>1. ToSet(s \o t) = Range(s \o t) /\ ToSet(s) = Range(s) /\ ToSet(t) = Range(t)
  BY DEF Range, ToSet
<1> QED
  BY <1>1, RangeConcatenation

\* An element more at the end.
LEMMA ToSetAppend ==
    ASSUME NEW S, NEW s \in Seq(S), NEW e \in S
    PROVE  /\ Append(s, e) \in Seq(S) /\ ToSet(Append(s, e)) = ToSet(s) \cup {e}
           /\ Len(Append(s, e)) = Len(s) + 1
           /\ \A i \in 1..Len(s) : Append(s, e)[i] = s[i]
           /\ Append(s, e)[Len(s) + 1] = e
<1>1. /\ Append(s, e) \in Seq(S) /\ Len(Append(s, e)) = Len(s) + 1
      /\ \A i \in 1..Len(s) : Append(s, e)[i] = s[i]
      /\ Append(s, e)[Len(s) + 1] = e
  BY AppendProperties
<1>2. /\ Len(s) \in Nat /\ DOMAIN s = 1..Len(s) /\ DOMAIN Append(s, e) = 1..Len(s) + 1
  BY <1>1, LenProperties
<1>3. ToSet(Append(s, e)) \subseteq ToSet(s) \cup {e}
  BY <1>1, <1>2 DEF ToSet
<1>4. ToSet(s) \cup {e} \subseteq ToSet(Append(s, e))
  BY <1>1, <1>2 DEF ToSet
<1> QED
  BY <1>1, <1>3, <1>4

\* A later element at the end keeps a sequence sorted.
LEMMA SortedAppend ==
    ASSUME NEW s \in Seq(Nat), Sorted(s), NEW e \in Nat, \A x \in ToSet(s) : x < e
    PROVE  Sorted(Append(s, e))
<1> DEFINE t == Append(s, e)
<1>1. /\ Len(t) = Len(s) + 1 /\ \A i \in 1..Len(s) : t[i] = s[i]
      /\ t[Len(s) + 1] = e
  BY ToSetAppend
<1>2. Len(s) \in Nat /\ DOMAIN s = 1..Len(s) /\ DOMAIN t = 1..Len(s) + 1
  BY <1>1, LenProperties, ToSetAppend
<1> HIDE DEF t
<1>3. ASSUME NEW i \in DOMAIN t, NEW j \in DOMAIN t, i < j PROVE t[i] < t[j]
  <2>1. i \in 1..Len(s) /\ t[i] = s[i]
    BY <1>1, <1>2, <1>3
  <2>2. CASE j \in 1..Len(s)
    BY <1>1, <1>2, <1>3, <2>1, <2>2 DEF Sorted
  <2>3. CASE j = Len(s) + 1
    BY <1>1, <1>2, <2>1, <2>3 DEF ToSet
  <2> QED
    BY <1>2, <2>2, <2>3
<1> QED
  BY <1>3 DEF Sorted, t

\* Two sorted sequences, the second after the first.
LEMMA SortedConcat ==
    ASSUME NEW s \in Seq(Nat), NEW t \in Seq(Nat), Sorted(s), Sorted(t),
           Before(ToSet(s), ToSet(t))
    PROVE  Sorted(s \o t)
<1> DEFINE u == s \o t
<1>1. /\ Len(u) = Len(s) + Len(t)
      /\ \A i \in 1..Len(s) + Len(t) : u[i] = IF i <= Len(s) THEN s[i] ELSE t[i - Len(s)]
      /\ u \in Seq(Nat)
  BY ConcatProperties
<1>2. /\ Len(s) \in Nat /\ Len(t) \in Nat /\ DOMAIN s = 1..Len(s) /\ DOMAIN t = 1..Len(t)
      /\ DOMAIN u = 1..Len(s) + Len(t)
  BY <1>1, LenProperties
<1> HIDE DEF u
<1>3. ASSUME NEW i \in DOMAIN u, NEW j \in DOMAIN u, i < j PROVE u[i] < u[j]
  <2>1. CASE j <= Len(s)
    <3>1. u[i] = s[i] /\ u[j] = s[j] /\ i \in DOMAIN s /\ j \in DOMAIN s
      BY <1>1, <1>2, <1>3, <2>1
    <3> QED
      BY <1>3, <3>1 DEF Sorted
  <2>2. CASE i <= Len(s) /\ j > Len(s)
    <3>1. i \in DOMAIN s /\ j - Len(s) \in DOMAIN t
      BY <1>2, <2>2
    <3>2. i <= Len(s) /\ ~(j <= Len(s)) /\ i \in 1..Len(s) + Len(t) /\ j \in 1..Len(s) + Len(t)
      BY <1>2, <2>2
    <3>3. u[i] = s[i] /\ u[j] = t[j - Len(s)]
      BY <1>1, <3>2
    <3> QED
      BY <3>1, <3>3 DEF Before, ToSet
  <2>3. CASE i > Len(s)
    <3>1. i - Len(s) \in DOMAIN t /\ j - Len(s) \in DOMAIN t /\ i - Len(s) < j - Len(s)
      BY <1>2, <1>3, <2>3
    <3>2. ~(i <= Len(s)) /\ ~(j <= Len(s)) /\ i \in 1..Len(s) + Len(t) /\ j \in 1..Len(s) + Len(t)
      BY <1>2, <1>3, <2>3
    <3>3. u[i] = t[i - Len(s)] /\ u[j] = t[j - Len(s)]
      BY <1>1, <3>2
    <3> QED
      BY <3>1, <3>3 DEF Sorted
  <2> QED
    BY <1>2, <2>1, <2>2, <2>3
<1> QED
  BY <1>3 DEF Sorted, u

\* The elements of a sorted sequence are as many as its places.
LEMMA SortedCount ==
    ASSUME NEW s \in Seq(Nat), Sorted(s)
    PROVE  IsInjective(s) /\ IsFiniteSet(ToSet(s)) /\ Cardinality(ToSet(s)) = Len(s)
<1>1. /\ Len(s) \in Nat /\ DOMAIN s = 1..Len(s) /\ s \in [1..Len(s) -> Nat]
  BY LenProperties
<1>2. IsInjective(s)
  <2>1. ASSUME NEW i \in DOMAIN s, NEW j \in DOMAIN s, s[i] = s[j] PROVE i = j
    <3>1. ~(i < j) /\ ~(j < i)
      BY <1>1, <2>1 DEF Sorted
    <3> QED
      BY <1>1, <3>1
  <2> QED
    BY <2>1 DEF IsInjective
<1>3. s \in Surjection(1..Len(s), ToSet(s)) /\ s \in Injection(1..Len(s), ToSet(s))
  BY <1>1, <1>2 DEF Surjection, Injection, ToSet
<1>4. IsFiniteSet(1..Len(s)) /\ Cardinality(1..Len(s)) = Len(s)
  <2>1. /\ IsFiniteSet(1..Len(s))
        /\ Cardinality(1..Len(s)) = IF 1 > Len(s) THEN 0 ELSE Len(s) - 1 + 1
    BY <1>1, FS_Interval
  <2> QED
    BY <1>1, <2>1
<1> QED
  BY <1>2, <1>3, <1>4, FS_Surjection

\* There is nothing between a number and its successor.
LEMMA NextNumber == ASSUME NEW m \in Nat, NEW k \in Nat, m <= k, ~(m + 1 <= k) PROVE m = k
  OBVIOUS

\* A sequence, cut in two.
LEMMA Cut ==
    ASSUME NEW S, NEW q \in Seq(S), NEW n \in 0..Len(q)
    PROVE  /\ SubSeq(q, 1, n) \in Seq(S) /\ Len(SubSeq(q, 1, n)) = n
           /\ \A i \in 1..n : SubSeq(q, 1, n)[i] = q[i]
           /\ SubSeq(q, n + 1, Len(q)) \in Seq(S)
           /\ Len(SubSeq(q, n + 1, Len(q))) = Len(q) - n
           /\ \A i \in 1..Len(q) - n : SubSeq(q, n + 1, Len(q))[i] = q[n + i]
<1> DEFINE a == SubSeq(q, 1, n)
<1> DEFINE b == SubSeq(q, n + 1, Len(q))
<1>1. /\ Len(q) \in Nat /\ DOMAIN q = 1..Len(q) /\ n \in Nat /\ n <= Len(q)
      /\ \A i \in 1..Len(q) : q[i] \in S
  BY LenProperties, ElementOfSeq
<1>2. /\ a \in Seq(S) /\ Len(a) = n /\ \A i \in 1..n : a[i] = q[i]
  <2>1. \A i \in 1..n : q[i] \in S
    BY <1>1
  <2>2. /\ a \in Seq(S) /\ Len(a) = (IF 1 <= n THEN n - 1 + 1 ELSE 0)
        /\ \A i \in 1..n - 1 + 1 : a[i] = q[1 + i - 1]
    BY <1>1, <2>1, SubSeqProperties
  <2> HIDE DEF a
  <2> QED
    BY <1>1, <2>2
<1>3. /\ b \in Seq(S) /\ Len(b) = Len(q) - n
      /\ \A i \in 1..Len(q) - n : b[i] = q[n + i]
  <2>1. \A i \in n + 1..Len(q) : q[i] \in S
    BY <1>1
  <2>2. /\ b \in Seq(S)
        /\ Len(b) = (IF n + 1 <= Len(q) THEN Len(q) - (n + 1) + 1 ELSE 0)
        /\ \A i \in 1..Len(q) - (n + 1) + 1 : b[i] = q[n + 1 + i - 1]
    BY <1>1, <2>1, SubSeqProperties
  <2> HIDE DEF b
  <2>3. Len(b) = Len(q) - n
    <3>1. CASE n + 1 <= Len(q)
      <4>1. Len(q) - (n + 1) + 1 = Len(q) - n
        BY <1>1
      <4> QED
        BY <2>2, <3>1, <4>1
    <3>2. CASE ~(n + 1 <= Len(q))
      <4>1. n = Len(q)
        BY <1>1, <3>2, NextNumber
      <4>2. Len(b) = 0
        BY <2>2, <3>2
      <4> QED
        BY <1>1, <4>1, <4>2
    <3> QED
      BY <3>1, <3>2
  <2>4. ASSUME NEW i \in 1..Len(q) - n PROVE b[i] = q[n + i]
    <3>1. i \in 1..Len(q) - (n + 1) + 1 /\ n + 1 + i - 1 = n + i
      BY <1>1
    <3> QED
      BY <2>2, <3>1
  <2> QED
    BY <2>2, <2>3, <2>4
<1> QED
  BY <1>2, <1>3

\* A sorted sequence, cut in two.
LEMMA SortedCut ==
    ASSUME NEW q \in Seq(Events), Sorted(q), NEW n \in 0..Len(q)
    PROVE  /\ SubSeq(q, 1, n) \in Seq(Events) /\ Sorted(SubSeq(q, 1, n))
           /\ Len(SubSeq(q, 1, n)) = n
           /\ SubSeq(q, n + 1, Len(q)) \in Seq(Events) /\ Sorted(SubSeq(q, n + 1, Len(q)))
           /\ Len(SubSeq(q, n + 1, Len(q))) = Len(q) - n
           /\ ToSet(SubSeq(q, 1, n)) \cup ToSet(SubSeq(q, n + 1, Len(q))) = ToSet(q)
           /\ Before(ToSet(SubSeq(q, 1, n)), ToSet(SubSeq(q, n + 1, Len(q))))
<1> DEFINE a == SubSeq(q, 1, n)
<1> DEFINE b == SubSeq(q, n + 1, Len(q))
<1>1. /\ Len(q) \in Nat /\ DOMAIN q = 1..Len(q) /\ n \in Nat /\ n <= Len(q)
      /\ \A i \in 1..Len(q) : q[i] \in Events
  BY LenProperties, ElementOfSeq
<1>2. /\ a \in Seq(Events) /\ Len(a) = n /\ \A i \in 1..n : a[i] = q[i]
  BY Cut
<1>3. /\ b \in Seq(Events) /\ Len(b) = Len(q) - n
      /\ \A i \in 1..Len(q) - n : b[i] = q[n + i]
  BY Cut
<1>4. DOMAIN a = 1..n /\ DOMAIN b = 1..Len(q) - n
  BY <1>2, <1>3, LenProperties
<1> HIDE DEF a, b
<1>5. Sorted(a)
  BY <1>1, <1>2, <1>4 DEF Sorted
<1>6. Sorted(b)
  <2>1. ASSUME NEW i \in DOMAIN b, NEW j \in DOMAIN b, i < j PROVE b[i] < b[j]
    <3>1. n + i \in 1..Len(q) /\ n + j \in 1..Len(q) /\ n + i < n + j
      BY <1>1, <1>4, <2>1
    <3> QED
      BY <1>1, <1>3, <1>4, <3>1 DEF Sorted
  <2> QED
    BY <2>1 DEF Sorted
<1>7. ToSet(a) \cup ToSet(b) = ToSet(q)
  <2>1. ToSet(a) \subseteq ToSet(q)
    BY <1>1, <1>2, <1>4 DEF ToSet
  <2>2. ToSet(b) \subseteq ToSet(q)
    <3>1. \A i \in 1..Len(q) - n : n + i \in 1..Len(q)
      BY <1>1
    <3> QED
      BY <1>1, <1>3, <1>4, <3>1 DEF ToSet
  <2>3. ASSUME NEW i \in 1..Len(q) PROVE q[i] \in ToSet(a) \cup ToSet(b)
    <3>1. CASE i <= n
      BY <1>1, <1>2, <1>4, <3>1 DEF ToSet
    <3>2. CASE i > n
      <4>1. i - n \in 1..Len(q) - n /\ n + (i - n) = i
        BY <1>1, <3>2
      <4> QED
        BY <1>3, <1>4, <4>1 DEF ToSet
    <3> QED
      BY <1>1, <3>1, <3>2
  <2> QED
    BY <1>1, <2>1, <2>2, <2>3 DEF ToSet
<1>8. Before(ToSet(a), ToSet(b))
  <2>1. ASSUME NEW i \in 1..n, NEW j \in 1..Len(q) - n PROVE a[i] < b[j]
    <3>1. i \in 1..Len(q) /\ n + j \in 1..Len(q) /\ i < n + j
      BY <1>1
    <3> QED
      BY <1>1, <1>2, <1>3, <3>1 DEF Sorted
  <2> QED
    BY <1>4, <2>1 DEF Before, ToSet
<1> QED
  BY <1>2, <1>3, <1>5, <1>6, <1>7, <1>8 DEF a, b

--------------------------------------------------------------------------------
(* The queue                                                               *)

\* Events are numbers.
LEMMA EventsAreNumbers ==
    ASSUME NEW s \in Seq(Events)
    PROVE  /\ Events \subseteq Nat /\ IsFiniteSet(Events)
           /\ s \in Seq(Nat) /\ ToSet(s) \subseteq Events /\ Len(s) \in Nat
<1>1. MaxEvents \in Nat
  BY BackpressureAssumption
<1>2. Events \subseteq Nat /\ IsFiniteSet(Events)
  BY <1>1, FS_Interval DEF Events
<1>3. Len(s) \in Nat /\ DOMAIN s = 1..Len(s) /\ \A i \in 1..Len(s) : s[i] \in Events
  BY LenProperties, ElementOfSeq
<1>4. s \in Seq(Nat)
  BY <1>2, SeqMonotonic
<1> QED
  BY <1>2, <1>3, <1>4 DEF ToSet

\* What it means for four places to share nothing and to hold all of N.
LEMMA FourPlaces ==
    ASSUME NEW A, NEW B, NEW C, NEW D
    PROVE  /\ UNION ToSet(<<A, B, C, D>>) = A \cup B \cup C \cup D
           /\ (\A i, j \in 1..4 : i < j =>
                   <<A, B, C, D>>[i] \cap <<A, B, C, D>>[j] = {})
              <=> /\ A \cap B = {} /\ A \cap C = {} /\ A \cap D = {}
                  /\ B \cap C = {} /\ B \cap D = {} /\ C \cap D = {}
<1> DEFINE p == <<A, B, C, D>>
<1>1. DOMAIN p = 1..4 /\ p[1] = A /\ p[2] = B /\ p[3] = C /\ p[4] = D
  OBVIOUS
<1> HIDE DEF p
<1>2. 1..4 = {1, 2, 3, 4}
  OBVIOUS
<1>3. ToSet(p) = {A, B, C, D}
  BY <1>1, <1>2 DEF ToSet
<1>4. UNION ToSet(p) = A \cup B \cup C \cup D
  BY <1>3
<1>5. (\A i, j \in 1..4 : i < j => p[i] \cap p[j] = {})
      <=> /\ p[1] \cap p[2] = {} /\ p[1] \cap p[3] = {} /\ p[1] \cap p[4] = {}
          /\ p[2] \cap p[3] = {} /\ p[2] \cap p[4] = {} /\ p[3] \cap p[4] = {}
  BY <1>2
<1> QED
  BY <1>1, <1>4, <1>5 DEF p

\* Accounted, place by place, before and after a step.
Apart ==
    /\ ToSet(started) \cap ToSet(queue) = {}
    /\ ToSet(started) \cap lost = {} /\ ToSet(started) \cap refused = {}
    /\ ToSet(queue) \cap lost = {} /\ ToSet(queue) \cap refused = {}
    /\ lost \cap refused = {}
    /\ ~closed => 1..arrived = ToSet(started) \cup ToSet(queue) \cup lost \cup refused

\* The two ways to say that every event is in one place agree.
LEMMA AccountedApart == (Accounted <=> Apart) /\ (Accounted' <=> Apart')
<1>1. Accounted <=> Apart
  <2>1. /\ UNION ToSet(<<ToSet(started), ToSet(queue), lost, refused>>)
              = ToSet(started) \cup ToSet(queue) \cup lost \cup refused
        /\ (\A i, j \in 1..4 : i < j =>
               <<ToSet(started), ToSet(queue), lost, refused>>[i]
                 \cap <<ToSet(started), ToSet(queue), lost, refused>>[j] = {})
           <=> /\ ToSet(started) \cap ToSet(queue) = {} /\ ToSet(started) \cap lost = {}
               /\ ToSet(started) \cap refused = {} /\ ToSet(queue) \cap lost = {}
               /\ ToSet(queue) \cap refused = {} /\ lost \cap refused = {}
    BY FourPlaces
  <2> QED
    BY <2>1, Zenon DEF Accounted, Apart
<1>2. Accounted' <=> Apart'
  <2>1. /\ UNION ToSet(<<ToSet(started'), ToSet(queue'), lost', refused'>>)
              = ToSet(started') \cup ToSet(queue') \cup lost' \cup refused'
        /\ (\A i, j \in 1..4 : i < j =>
               <<ToSet(started'), ToSet(queue'), lost', refused'>>[i]
                 \cap <<ToSet(started'), ToSet(queue'), lost', refused'>>[j] = {})
           <=> /\ ToSet(started') \cap ToSet(queue') = {} /\ ToSet(started') \cap lost' = {}
               /\ ToSet(started') \cap refused' = {} /\ ToSet(queue') \cap lost' = {}
               /\ ToSet(queue') \cap refused' = {} /\ lost' \cap refused' = {}
    BY FourPlaces
  <2> QED
    BY <2>1, Zenon DEF Accounted, Apart
<1> QED
  BY <1>1, <1>2

\* What drain does to a sorted queue: it starts the oldest, one for each free slot.
LEMMA DrainStarts ==
    ASSUME config \in [inflight : InflightLimits, size : QueueSizes, policy : Policies],
           started \in Seq(Events),
           NEW q \in Seq(Events), Sorted(q),
           NEW busy \in Nat, busy <= config.inflight,
           Drain(q, busy)
    PROVE  \E F \in SUBSET Events :
              /\ F \cup ToSet(queue') = ToSet(q) /\ Before(F, ToSet(queue'))
              /\ IsFiniteSet(F) /\ Cardinality(F) + busy <= config.inflight
              /\ queue' \in Seq(Events) /\ Sorted(queue')
              /\ Len(queue') + Cardinality(F) = Len(q)
              /\ Len(queue') # 0 => Cardinality(F) + busy = config.inflight
              /\ preparing' = preparing \cup F
              /\ started' \in Seq(Events) /\ ToSet(started') = ToSet(started) \cup F
              /\ Sorted(started) /\ Before(ToSet(started), ToSet(q)) => Sorted(started')
<1> DEFINE n == Startable(q, busy)
<1> DEFINE a == SubSeq(q, 1, n)
<1> DEFINE b == SubSeq(q, n + 1, Len(q))
<1>1. queue' = b /\ started' = started \o a /\ preparing' = preparing \cup ToSet(a)
  BY DEF Drain, Remaining
<1>2. config.inflight \in Nat /\ Len(q) \in Nat
  BY EventsAreNumbers, BackpressureAssumption
<1>3. /\ n \in 0..Len(q) /\ n + busy <= config.inflight
      /\ n # Len(q) => n + busy = config.inflight
  BY <1>2 DEF Startable
<1> HIDE DEF n
<1>4. /\ a \in Seq(Events) /\ Sorted(a) /\ Len(a) = n
      /\ b \in Seq(Events) /\ Sorted(b) /\ Len(b) = Len(q) - n
      /\ ToSet(a) \cup ToSet(b) = ToSet(q) /\ Before(ToSet(a), ToSet(b))
  BY <1>3, SortedCut
<1> HIDE DEF a, b
<1>5. IsFiniteSet(ToSet(a)) /\ Cardinality(ToSet(a)) = n /\ ToSet(a) \subseteq Events
  <2>1. a \in Seq(Nat) /\ ToSet(a) \subseteq Events
    BY <1>4, EventsAreNumbers
  <2> QED
    BY <1>4, <2>1, SortedCount
<1>6. /\ started' \in Seq(Events) /\ ToSet(started') = ToSet(started) \cup ToSet(a)
  <2>1. started \o a \in Seq(Events)
    BY <1>4, ConcatProperties
  <2>2. ToSet(started \o a) = ToSet(started) \cup ToSet(a)
    BY <1>4, ToSetConcat
  <2> QED
    BY <1>1, <2>1, <2>2
<1>7. ASSUME Sorted(started), Before(ToSet(started), ToSet(q)) PROVE Sorted(started')
  <2>1. Before(ToSet(started), ToSet(a))
    BY <1>4, <1>7 DEF Before
  <2>2. started \in Seq(Nat) /\ a \in Seq(Nat)
    BY <1>4, EventsAreNumbers
  <2>3. Sorted(started \o a)
    BY <1>4, <1>7, <2>1, <2>2, SortedConcat
  <2> QED
    BY <1>1, <2>3
<1>8. Len(queue') + n = Len(q) /\ (Len(queue') # 0 => n + busy = config.inflight)
  BY <1>1, <1>2, <1>3, <1>4
<1>9. ToSet(a) \in SUBSET Events
  BY <1>5
<1> QED
  BY <1>1, <1>3, <1>4, <1>5, <1>6, <1>7, <1>8, <1>9

\* The sets of a queue in order, and the numbers they have.
LEMMA Finite ==
    ASSUME QInv
    PROVE  /\ config.inflight \in Nat \ {0} /\ config.size \in Nat /\ arrived \in Nat
           /\ Events \subseteq Nat /\ 1..arrived \subseteq Events
           /\ IsFiniteSet(Inflight) /\ Cardinality(Inflight) \in Nat
           /\ ToSet(started) \subseteq Events /\ ToSet(queue) \subseteq Events
           /\ Len(queue) \in Nat
<1>1. /\ config \in [inflight : InflightLimits, size : QueueSizes, policy : Policies]
      /\ arrived \in 0..MaxEvents /\ queue \in Seq(Events) /\ started \in Seq(Events)
      /\ preparing \subseteq Events /\ settling \subseteq Events
  BY DEF QInv, TypeOK
<1>2. /\ config.inflight \in Nat \ {0} /\ config.size \in Nat /\ MaxEvents \in Nat
  BY <1>1, BackpressureAssumption
<1>3. /\ Events \subseteq Nat /\ IsFiniteSet(Events) /\ Len(queue) \in Nat
      /\ ToSet(started) \subseteq Events /\ ToSet(queue) \subseteq Events
  BY <1>1, EventsAreNumbers
<1>4. arrived \in Nat /\ 1..arrived \subseteq Events
  BY <1>1, <1>2 DEF Events
<1>5. Inflight \subseteq Events
  BY <1>1 DEF Inflight
<1>6. IsFiniteSet(Inflight)
  BY <1>3, <1>5, FS_Subset
<1>7. Cardinality(Inflight) \in Nat
  BY <1>6, FS_CardinalityType
<1> QED
  BY <1>2, <1>3, <1>4, <1>6, <1>7

\* Every handler that drains: q is the queue with what the handler added and gave up,
\* busy are the tasks that keep their slots.
LEMMA DrainKeeps ==
    ASSUME QInv, ~closed, closed' = closed, config' = config,
           settling' \subseteq settling,
           emitted' = emitted, failed' = failed, refused' = refused,
           arrived' \in 0..MaxEvents, arrived <= arrived',
           lost' \subseteq 1..arrived',
           NEW q \in Seq(Events), Sorted(q), Before(ToSet(started), ToSet(q)),
           NEW busy \in Nat, busy = Cardinality(preparing \cup settling'),
           busy <= config.inflight,
           Drain(q, busy),
           Len(q) <= config.size \/ (busy < config.inflight /\ Len(q) <= config.size + 1),
           ToSet(q) \subseteq 1..arrived',
           lost' \cap ToSet(started) = {}, lost' \cap ToSet(q) = {}, lost' \cap refused = {},
           ToSet(q) \cap refused = {},
           1..arrived' = ToSet(started) \cup ToSet(q) \cup lost' \cup refused,
           config.policy = "dropOldest" /\ config.size > 0 =>
              arrived' \notin lost' /\ (\A e \in lost', w \in ToSet(q) : e < w)
    PROVE  QInv'
<1>1. /\ config \in [inflight : InflightLimits, size : QueueSizes, policy : Policies]
      /\ started \in Seq(Events) /\ closed \in BOOLEAN
      /\ emitted \in Seq(Events) /\ preparing \subseteq Events /\ settling \subseteq Events
      /\ refused \subseteq Events /\ failed \subseteq Events
  BY DEF QInv, TypeOK
<1>2. /\ config.inflight \in Nat \ {0} /\ config.size \in Nat /\ arrived \in Nat
      /\ Events \subseteq Nat /\ ToSet(started) \subseteq Events
      /\ IsFiniteSet(Inflight) /\ Len(q) \in Nat /\ ToSet(q) \subseteq Events
      /\ MaxEvents \in Nat
  BY Finite, EventsAreNumbers, BackpressureAssumption
<1>3. PICK F \in SUBSET Events :
              /\ F \cup ToSet(queue') = ToSet(q) /\ Before(F, ToSet(queue'))
              /\ IsFiniteSet(F) /\ Cardinality(F) + busy <= config.inflight
              /\ queue' \in Seq(Events) /\ Sorted(queue')
              /\ Len(queue') + Cardinality(F) = Len(q)
              /\ Len(queue') # 0 => Cardinality(F) + busy = config.inflight
              /\ preparing' = preparing \cup F
              /\ started' \in Seq(Events) /\ ToSet(started') = ToSet(started) \cup F
              /\ Sorted(started) /\ Before(ToSet(started), ToSet(q)) => Sorted(started')
  BY <1>1, DrainStarts, Zenon
<1>4. /\ Sorted(started) /\ ToSet(started) \cap ToSet(q) = {} /\ Sorted(started')
      /\ refused \subseteq 1..arrived
  <2>1. Sorted(started) /\ refused \subseteq 1..arrived
    BY DEF QInv, InOrder
  <2>2. ToSet(started) \cap ToSet(q) = {}
    BY <1>2 DEF Before
  <2> QED
    BY <1>3, <2>1, <2>2
<1>5. /\ preparing \cap settling = {} /\ preparing \cup settling \subseteq ToSet(started)
      /\ ToSet(emitted) \cup failed \subseteq ToSet(started) \ preparing
      /\ IsInjective(emitted)
  BY DEF QInv, InPlace, Inflight
<1>6. /\ IsFiniteSet(preparing \cup settling') /\ F \cap (preparing \cup settling') = {}
      /\ preparing' \cup settling' = (preparing \cup settling') \cup F
  <2>1. preparing \cup settling' \subseteq Inflight
    BY DEF Inflight
  <2>2. IsFiniteSet(preparing \cup settling')
    BY <1>2, <2>1, FS_Subset
  <2> QED
    BY <1>3, <1>4, <1>5, <2>2
<1>7. /\ Cardinality(F) \in Nat /\ Len(queue') \in Nat
      /\ Cardinality(preparing' \cup settling') = busy + Cardinality(F)
  <2>1. Cardinality(F) \in Nat /\ Len(queue') \in Nat
    BY <1>3, FS_CardinalityType, LenProperties
  <2>2. Cardinality((preparing \cup settling') \cup F)
           = Cardinality(preparing \cup settling') + Cardinality(F)
              - Cardinality((preparing \cup settling') \cap F)
    BY <1>3, <1>6, FS_Union
  <2>3. (preparing \cup settling') \cap F = {}
    BY <1>6
  <2>4. Cardinality((preparing \cup settling') \cap F) = 0
    BY <2>3, FS_EmptySet
  <2>5. Cardinality((preparing \cup settling') \cup F) = busy + Cardinality(F)
    BY <2>1, <2>2, <2>4
  <2> QED
    BY <1>6, <2>1, <2>5
<1>8. TypeOK'
  <2>1. IsInjective(started')
    BY <1>3, <1>4, EventsAreNumbers, SortedCount
  <2>2. /\ preparing' \subseteq Events /\ settling' \subseteq Events /\ lost' \subseteq Events
    BY <1>1, <1>2, <1>3 DEF Events
  <2> QED
    BY <1>1, <1>3, <2>1, <2>2 DEF TypeOK
<1>9. InOrder'
  <2>1. Before(ToSet(started'), ToSet(queue'))
    BY <1>3 DEF Before
  <2>2. 1..arrived \subseteq 1..arrived'
    BY <1>2
  <2>3. ToSet(started') \cup ToSet(queue') \cup lost' \cup refused' \subseteq 1..arrived'
    BY <1>3, <1>4, <2>2
  <2> QED
    BY <1>3, <1>4, <2>1, <2>3 DEF InOrder
<1>10. InPlace'
  <2>1. preparing' \cap settling' = {}
    BY <1>3, <1>5, <1>6
  <2>2. preparing' \cup settling' \subseteq ToSet(started')
    BY <1>3, <1>5
  <2>3. ToSet(emitted) \cup failed \subseteq ToSet(started') \ preparing'
    BY <1>3, <1>4, <1>5
  <2> QED
    BY <1>5, <2>1, <2>2, <2>3 DEF InPlace, Inflight
<1>11. Bounded'
  <2>1. Len(queue') <= config.size
    BY <1>2, <1>3, <1>7
  <2> QED
    BY <1>2, <1>3, <1>7, <2>1 DEF Bounded, Inflight
<1>12. NoIdleSlot'
  <2>1. queue' # <<>> => Len(queue') # 0
    BY <1>3, EmptySeq
  <2>2. queue' # <<>> => Cardinality(preparing' \cup settling') = config.inflight
    BY <1>2, <1>3, <1>7, <2>1
  <2> QED
    BY <2>2 DEF NoIdleSlot, Inflight
<1>13. Accounted'
  <2>1. /\ ToSet(started') \cap ToSet(queue') = {}
    BY <1>2, <1>3, <1>9 DEF InOrder, Before
  <2>2. /\ ToSet(started) \cap refused = {} /\ lost' \cap refused = {}
    BY AccountedApart DEF QInv, Apart
  <2>3. /\ ToSet(started') \cap lost' = {} /\ ToSet(started') \cap refused' = {}
        /\ ToSet(queue') \cap lost' = {} /\ ToSet(queue') \cap refused' = {}
        /\ lost' \cap refused' = {}
        /\ 1..arrived' = ToSet(started') \cup ToSet(queue') \cup lost' \cup refused'
    BY <1>3, <2>2
  <2>4. Apart'
    BY <2>1, <2>3 DEF Apart
  <2> QED
    BY <2>4, AccountedApart
<1>14. OneByOne'
  <2>1. SUFFICES ASSUME config.inflight = 1
                 PROVE  /\ Sorted(emitted)
                        /\ \A x \in preparing', y \in ToSet(started') : y <= x
    BY DEF OneByOne
  <2>2. Sorted(emitted) /\ \A x \in preparing, y \in ToSet(started) : y <= x
    BY <2>1 DEF QInv, OneByOne
  <2>3. CASE F = {}
    BY <1>3, <2>2, <2>3
  <2>4. CASE F # {}
    <3>1. Cardinality(F) # 0
      BY <1>3, <2>4, FS_EmptySet
    <3>2. Cardinality(F) = 1 /\ busy = 0
      BY <1>3, <1>7, <2>1, <3>1
    <3>3. preparing = {}
      BY <1>6, <3>2, FS_EmptySet
    <3>4. PICK x : F = {x}
      BY <1>3, <3>2, FS_Singleton
    <3>5. x \in ToSet(q) /\ x \in Nat
      BY <1>2, <1>3, <3>4
    <3>6. \A y \in ToSet(started) : y <= x
      BY <1>2, <3>5 DEF Before
    <3>7. preparing' = {x} /\ ToSet(started') = ToSet(started) \cup {x}
      BY <1>3, <3>3, <3>4
    <3> QED
      BY <2>2, <3>5, <3>6, <3>7
  <2> QED
    BY <2>3, <2>4
<1>15. NewestKept'
  <2>1. ToSet(queue') \subseteq ToSet(q)
    BY <1>3
  <2> QED
    BY <2>1 DEF NewestKept
<1> QED
  BY <1>8, <1>9, <1>10, <1>11, <1>12, <1>13, <1>14, <1>15 DEF QInv

\* A sorted queue without its oldest event.
LEMMA SortedTail ==
    ASSUME NEW q \in Seq(Events), Sorted(q), Len(q) # 0
    PROVE  /\ Tail(q) \in Seq(Events) /\ Sorted(Tail(q)) /\ Len(Tail(q)) = Len(q) - 1
           /\ Head(q) \in Events /\ ToSet(q) = {Head(q)} \cup ToSet(Tail(q))
           /\ \A x \in ToSet(Tail(q)) : Head(q) < x
<1> DEFINE t == Tail(q)
<1>1. /\ Len(q) \in Nat /\ Len(q) >= 1 /\ DOMAIN q = 1..Len(q)
      /\ \A i \in 1..Len(q) : q[i] \in Events
  BY LenProperties, ElementOfSeq
<1>2. q # <<>>
  BY <1>1, EmptySeq
<1>3. /\ t \in Seq(Events) /\ Len(t) = Len(q) - 1 /\ \A i \in 1..Len(t) : t[i] = q[i + 1]
      /\ Head(q) = q[1]
  BY <1>2, HeadTailProperties
<1>4. DOMAIN t = 1..Len(q) - 1
  BY <1>3, LenProperties
<1> HIDE DEF t
<1>5. Sorted(t)
  <2>1. ASSUME NEW i \in DOMAIN t, NEW j \in DOMAIN t, i < j PROVE t[i] < t[j]
    <3>1. i + 1 \in 1..Len(q) /\ j + 1 \in 1..Len(q) /\ i + 1 < j + 1
      BY <1>1, <1>4, <2>1
    <3> QED
      BY <1>1, <1>3, <1>4, <3>1 DEF Sorted
  <2> QED
    BY <2>1 DEF Sorted
<1>6. ASSUME NEW i \in 1..Len(q) - 1 PROVE t[i] \in ToSet(q) /\ q[1] < t[i]
  <2>1. i + 1 \in 1..Len(q) /\ 1 \in 1..Len(q) /\ 1 < i + 1 /\ t[i] = q[i + 1]
    BY <1>1, <1>3
  <2> QED
    BY <1>1, <2>1 DEF Sorted, ToSet
<1>7. ASSUME NEW i \in 1..Len(q) PROVE q[i] \in {q[1]} \cup ToSet(t)
  <2>1. CASE i = 1
    BY <2>1
  <2>2. CASE i # 1
    <3>1. i - 1 \in 1..Len(q) - 1 /\ (i - 1) + 1 = i
      BY <1>1, <2>2
    <3>2. t[i - 1] = q[i]
      BY <1>3, <3>1
    <3> QED
      BY <1>4, <3>1, <3>2 DEF ToSet
  <2> QED
    BY <2>1, <2>2
<1>8. q[1] \in ToSet(q) /\ q[1] \in Events
  BY <1>1 DEF ToSet
<1>9. ToSet(q) = {q[1]} \cup ToSet(t) /\ \A x \in ToSet(t) : q[1] < x
  BY <1>1, <1>4, <1>6, <1>7, <1>8 DEF ToSet
<1> QED
  BY <1>3, <1>5, <1>8, <1>9 DEF t

\* The next event, behind a queue of earlier ones.
LEMMA QueueGrows ==
    ASSUME QInv, arrived < MaxEvents, NEW q \in Seq(Events), Sorted(q),
           ToSet(q) \subseteq ToSet(queue)
    PROVE  /\ Append(q, arrived + 1) \in Seq(Events) /\ Sorted(Append(q, arrived + 1))
           /\ ToSet(Append(q, arrived + 1)) = ToSet(q) \cup {arrived + 1}
           /\ Len(Append(q, arrived + 1)) = Len(q) + 1
           /\ Before(ToSet(started), ToSet(Append(q, arrived + 1)))
           /\ arrived + 1 \in 0..MaxEvents /\ arrived <= arrived + 1
           /\ 1..arrived + 1 = 1..arrived \cup {arrived + 1} /\ arrived + 1 \notin 1..arrived
<1>1. arrived \in Nat /\ MaxEvents \in Nat
  BY Finite, BackpressureAssumption
<1>2. /\ arrived + 1 \in 0..MaxEvents /\ arrived <= arrived + 1 /\ arrived + 1 \in Events
      /\ 1..arrived + 1 = 1..arrived \cup {arrived + 1} /\ arrived + 1 \notin 1..arrived
  BY <1>1 DEF Events
<1>3. /\ Append(q, arrived + 1) \in Seq(Events)
      /\ ToSet(Append(q, arrived + 1)) = ToSet(q) \cup {arrived + 1}
      /\ Len(Append(q, arrived + 1)) = Len(q) + 1
  BY <1>2, ToSetAppend
<1>4. /\ ToSet(started) \subseteq 1..arrived /\ ToSet(q) \subseteq 1..arrived
      /\ Before(ToSet(started), ToSet(queue))
  BY DEF QInv, InOrder
<1>5. Sorted(Append(q, arrived + 1))
  <2>1. q \in Seq(Nat)
    BY EventsAreNumbers
  <2>2. \A x \in ToSet(q) : x < arrived + 1
    BY <1>1, <1>4
  <2> QED
    BY <1>1, <2>1, <2>2, SortedAppend
<1>6. Before(ToSet(started), ToSet(Append(q, arrived + 1)))
  BY <1>1, <1>3, <1>4 DEF Before
<1> QED
  BY <1>2, <1>3, <1>5, <1>6

\* An event is enqueued while there is room.
LEMMA AcceptKeeps == ASSUME QInv, Accept PROVE QInv'
<1> DEFINE q == Append(queue, arrived + 1)
<1> DEFINE busy == Cardinality(preparing \cup settling')
<1>1. /\ ~closed /\ arrived < MaxEvents /\ ~Full /\ arrived' = arrived + 1
      /\ config' = config /\ settling' = settling /\ closed' = closed
      /\ emitted' = emitted /\ lost' = lost /\ refused' = refused /\ failed' = failed
      /\ Drain(q, busy)
  BY DEF Accept, Pushed, outcomes, Inflight
<1>2. /\ queue \in Seq(Events) /\ Sorted(queue)
      /\ lost \cup refused \cup ToSet(queue) \subseteq 1..arrived
      /\ Bounded /\ Apart /\ NewestKept
  BY AccountedApart DEF QInv, TypeOK, InOrder
<1>3. /\ q \in Seq(Events) /\ Sorted(q) /\ ToSet(q) = ToSet(queue) \cup {arrived'}
      /\ Len(q) = Len(queue) + 1 /\ Before(ToSet(started), ToSet(q))
      /\ arrived' \in 0..MaxEvents /\ arrived <= arrived'
      /\ 1..arrived' = 1..arrived \cup {arrived'} /\ arrived' \notin 1..arrived
  BY <1>1, <1>2, QueueGrows
<1>4. /\ busy \in Nat /\ busy <= config.inflight
      /\ busy = Cardinality(Inflight)
      /\ config.size \in Nat /\ Len(queue) \in Nat /\ arrived \in Nat
  BY <1>1, <1>2, Finite DEF Bounded, Inflight
<1>5. Len(q) <= config.size \/ (busy < config.inflight /\ Len(q) <= config.size + 1)
  <2>1. CASE Len(queue) < config.size
    BY <1>3, <1>4, <2>1
  <2>2. CASE ~(Len(queue) < config.size)
    <3>1. SlotFree /\ queue = <<>>
      BY <1>1, <1>4, <2>2 DEF Full
    <3>2. Len(queue) = 0 /\ busy < config.inflight
      BY <1>4, <3>1 DEF SlotFree
    <3> QED
      BY <1>3, <1>4, <3>2
  <2> QED
    BY <2>1, <2>2
<1> HIDE DEF q, busy
<1>6. /\ lost' \subseteq 1..arrived' /\ ToSet(q) \subseteq 1..arrived'
      /\ lost' \cap ToSet(started) = {} /\ lost' \cap ToSet(q) = {}
      /\ lost' \cap refused = {} /\ ToSet(q) \cap refused = {}
      /\ 1..arrived' = ToSet(started) \cup ToSet(q) \cup lost' \cup refused
  BY <1>1, <1>2, <1>3 DEF Apart
<1>7. config.policy = "dropOldest" /\ config.size > 0 =>
         arrived' \notin lost' /\ (\A e \in lost', w \in ToSet(q) : e < w)
  BY <1>1, <1>2, <1>3, <1>4 DEF NewestKept
<1>8. settling' \subseteq settling /\ busy = Cardinality(preparing \cup settling')
  BY <1>1 DEF busy
<1> QED
  BY <1>1, <1>3, <1>4, <1>5, <1>6, <1>7, <1>8, DrainKeeps

\* An event takes the place of the oldest one that waits.
LEMMA DropOldestKeeps == ASSUME QInv, DropOldest PROVE QInv'
<1> DEFINE q == Append(Tail(queue), arrived + 1)
<1> DEFINE busy == Cardinality(preparing \cup settling')
<1>1. /\ ~closed /\ arrived < MaxEvents /\ Full /\ arrived' = arrived + 1
      /\ config.policy = "dropOldest" /\ config.size > 0
      /\ config' = config /\ settling' = settling /\ closed' = closed
      /\ emitted' = emitted /\ refused' = refused /\ failed' = failed
      /\ lost' = lost \cup {Head(queue)}
      /\ Drain(q, busy)
  BY DEF DropOldest, Pushed, Kept, Victim, Inflight
<1>2. /\ queue \in Seq(Events) /\ Sorted(queue)
      /\ lost \cup refused \cup ToSet(queue) \subseteq 1..arrived
      /\ Bounded /\ Apart /\ NewestKept /\ Before(ToSet(started), ToSet(queue))
  BY AccountedApart DEF QInv, TypeOK, InOrder
<1>3. /\ busy \in Nat /\ busy <= config.inflight
      /\ config.size \in Nat /\ Len(queue) \in Nat /\ arrived \in Nat
      /\ Len(queue) <= config.size
  BY <1>1, <1>2, Finite DEF Bounded, Inflight
<1>4. Len(queue) # 0
  BY <1>1, <1>3 DEF Full
<1>5. /\ Tail(queue) \in Seq(Events) /\ Sorted(Tail(queue))
      /\ Len(Tail(queue)) = Len(queue) - 1
      /\ ToSet(queue) = {Head(queue)} \cup ToSet(Tail(queue))
      /\ \A x \in ToSet(Tail(queue)) : Head(queue) < x
      /\ Head(queue) \in Nat
  BY <1>2, <1>4, SortedTail, EventsAreNumbers
<1>6. /\ q \in Seq(Events) /\ Sorted(q) /\ ToSet(q) = ToSet(Tail(queue)) \cup {arrived'}
      /\ Len(q) = Len(Tail(queue)) + 1 /\ Before(ToSet(started), ToSet(q))
      /\ arrived' \in 0..MaxEvents /\ arrived <= arrived'
      /\ 1..arrived' = 1..arrived \cup {arrived'} /\ arrived' \notin 1..arrived
  BY <1>1, <1>2, <1>5, QueueGrows
<1>7. Len(q) <= config.size
  BY <1>3, <1>5, <1>6
<1> HIDE DEF q, busy
<1>8. /\ Head(queue) \in 1..arrived /\ Head(queue) \notin ToSet(Tail(queue))
      /\ Head(queue) \notin ToSet(started)
  BY <1>2, <1>5 DEF Apart
<1>9. /\ lost' \subseteq 1..arrived' /\ ToSet(q) \subseteq 1..arrived'
      /\ lost' \cap ToSet(started) = {} /\ lost' \cap ToSet(q) = {}
      /\ lost' \cap refused = {} /\ ToSet(q) \cap refused = {}
      /\ 1..arrived' = ToSet(started) \cup ToSet(q) \cup lost' \cup refused
  <2>1. lost' \subseteq 1..arrived
    BY <1>1, <1>2, <1>8
  <2> QED
    BY <1>1, <1>2, <1>5, <1>6, <1>8, <2>1 DEF Apart
<1>10. arrived' \notin lost' /\ (\A e \in lost', w \in ToSet(q) : e < w)
  <2>1. lost' \subseteq 1..arrived
    BY <1>1, <1>2, <1>8
  <2>2. ASSUME NEW e \in lost', NEW w \in ToSet(Tail(queue)) PROVE e < w
    BY <1>1, <1>2, <1>5, <2>2 DEF NewestKept
  <2> QED
    BY <1>1, <1>3, <1>6, <2>1, <2>2
<1>11. settling' \subseteq settling /\ busy = Cardinality(preparing \cup settling')
  BY <1>1 DEF busy
<1> QED
  BY <1>1, <1>3, <1>6, <1>7, <1>9, <1>10, <1>11, DrainKeeps

\* The slot of an ended task goes to the next waiting event.
LEMMA FinallyKeeps == ASSUME QInv, NEW e, Finally(e) PROVE QInv'
<1>1. /\ e \in settling /\ settling' = settling \ {e}
      /\ config' = config /\ arrived' = arrived /\ closed' = closed
      /\ emitted' = emitted /\ lost' = lost /\ refused' = refused /\ failed' = failed
  BY DEF Finally, outcomes
<1>2. /\ queue \in Seq(Events) /\ Sorted(queue) /\ Before(ToSet(started), ToSet(queue))
      /\ ToSet(queue) \cup lost \cup refused \subseteq 1..arrived
      /\ Bounded /\ Apart /\ NewestKept /\ preparing \cap settling = {}
      /\ arrived \in 0..MaxEvents
  BY AccountedApart DEF QInv, TypeOK, InOrder, InPlace
<1>3. /\ IsFiniteSet(Inflight) /\ Cardinality(Inflight) \in Nat
      /\ config.inflight \in Nat \ {0} /\ arrived \in Nat
  BY Finite
<1>4. preparing \cup settling' = Inflight \ {e} /\ e \in Inflight
  BY <1>1, <1>2 DEF Inflight
<1>5. /\ IsFiniteSet(Inflight \ {e})
      /\ Cardinality(Inflight \ {e}) = Cardinality(Inflight) - 1
  BY <1>3, <1>4, FS_RemoveElement
<1>6. Cardinality(Inflight \ {e}) \in Nat
  BY <1>5, FS_CardinalityType
<1>7. CASE ~closed
  <2> DEFINE busy == Cardinality(Inflight \ {e})
  <2>1. Drain(queue, busy)
    BY <1>7 DEF Finally, InflightAfter
  <2>2. /\ busy \in Nat /\ busy <= config.inflight
        /\ busy = Cardinality(preparing \cup settling')
    <3>1. Cardinality(Inflight) <= config.inflight
      BY <1>2 DEF Bounded
    <3>2. busy = Cardinality(Inflight) - 1 /\ busy \in Nat
      BY <1>5, <1>6
    <3>3. busy = Cardinality(preparing \cup settling')
      BY <1>4
    <3> HIDE DEF busy
    <3> QED
      BY <1>3, <3>1, <3>2, <3>3
  <2> HIDE DEF busy
  <2>3. Len(queue) <= config.size
    BY <1>2 DEF Bounded
  <2>4. /\ lost' \subseteq 1..arrived' /\ ToSet(queue) \subseteq 1..arrived'
        /\ lost' \cap ToSet(started) = {} /\ lost' \cap ToSet(queue) = {}
        /\ lost' \cap refused = {} /\ ToSet(queue) \cap refused = {}
        /\ 1..arrived' = ToSet(started) \cup ToSet(queue) \cup lost' \cup refused
    BY <1>1, <1>2, <1>7 DEF Apart
  <2>5. config.policy = "dropOldest" /\ config.size > 0 =>
           arrived' \notin lost' /\ (\A d \in lost', w \in ToSet(queue) : d < w)
    BY <1>1, <1>2, <1>7 DEF NewestKept
  <2>6. settling' \subseteq settling /\ arrived' \in 0..MaxEvents /\ arrived <= arrived'
    BY <1>1, <1>2, <1>3
  <2> QED
    BY <1>1, <1>2, <1>7, <2>1, <2>2, <2>3, <2>4, <2>5, <2>6, DrainKeeps
<1>8. CASE closed
  <2>1. queue' = queue /\ started' = started /\ preparing' = preparing
    BY <1>8 DEF Finally
  <2>2. TypeOK'
    BY <1>1, <2>1 DEF QInv, TypeOK
  <2>3. InOrder'
    BY <1>1, <2>1 DEF QInv, InOrder
  <2>4. InPlace'
    BY <1>1, <2>1 DEF QInv, InPlace, Inflight
  <2>5. Bounded'
    <3>1. Inflight' = Inflight \ {e}
      BY <1>4, <2>1 DEF Inflight
    <3>2. Cardinality(Inflight) <= config.inflight
      BY <1>2 DEF Bounded
    <3>3. Cardinality(Inflight \ {e}) <= config.inflight
      BY <1>3, <1>5, <1>6, <3>2
    <3> QED
      BY <1>1, <1>2, <2>1, <3>1, <3>3 DEF Bounded
  <2>6. closed'
    BY <1>1, <1>8
  <2>7. NoIdleSlot' /\ NewestKept'
    BY <2>6 DEF NoIdleSlot, NewestKept
  <2>8. Accounted'
    <3>1. Apart'
      BY <1>1, <1>2, <2>1 DEF Apart
    <3> QED
      BY <3>1, AccountedApart
  <2>9. OneByOne'
    BY <1>1, <2>1 DEF QInv, OneByOne
  <2> QED
    BY <2>2, <2>3, <2>4, <2>5, <2>7, <2>8, <2>9 DEF QInv
<1> QED
  BY <1>7, <1>8

\* An event that finds the queue full goes nowhere: it is dropped or refused.
LEMMA TurnedAwayKeeps == ASSUME QInv, DropIncoming \/ Refuse PROVE QInv'
<1>1. /\ ~closed /\ arrived < MaxEvents /\ Full /\ arrived' = arrived + 1
      /\ config' = config /\ queue' = queue /\ preparing' = preparing
      /\ settling' = settling /\ closed' = closed /\ started' = started
      /\ emitted' = emitted /\ failed' = failed
      /\ \/ /\ lost' = lost \cup {arrived'} /\ refused' = refused
            /\ ~(config.policy = "dropOldest" /\ config.size > 0)
         \/ /\ refused' = refused \cup {arrived'} /\ lost' = lost
            /\ config.policy = "fail"
  <2>1. CASE DropIncoming
    <3>1. config.size = 0 => ~(config.size > 0)
      OBVIOUS
    <3> QED
      BY <2>1, <3>1 DEF DropIncoming
  <2>2. CASE Refuse
    BY <2>2 DEF Refuse
  <2> QED
    BY <2>1, <2>2
<1>2. /\ arrived \in Nat /\ arrived' \in Events /\ arrived' \in 0..MaxEvents
      /\ 1..arrived' = 1..arrived \cup {arrived'} /\ arrived' \notin 1..arrived
  BY <1>1, Finite, BackpressureAssumption DEF Events
<1>3. TypeOK'
  BY <1>1, <1>2 DEF QInv, TypeOK
<1>4. InOrder'
  BY <1>1, <1>2 DEF QInv, InOrder
<1>5. InPlace'
  BY <1>1 DEF QInv, InPlace, Inflight
<1>6. Bounded' /\ NoIdleSlot' /\ OneByOne'
  BY <1>1 DEF QInv, Bounded, NoIdleSlot, OneByOne, Inflight
<1>7. Accounted'
  <2>1. Apart /\ ToSet(started) \cup ToSet(queue) \cup lost \cup refused \subseteq 1..arrived
    BY AccountedApart DEF QInv, InOrder
  <2>2. Apart'
    BY <1>1, <1>2, <2>1 DEF Apart
  <2> QED
    BY <2>2, AccountedApart
<1>8. NewestKept'
  BY <1>1 DEF NewestKept
<1> QED
  BY <1>3, <1>4, <1>5, <1>6, <1>7, <1>8 DEF QInv

\* A task ends, with an item or without, or with a failure.
LEMMA TaskKeeps ==
    ASSUME QInv, NEW e, TaskRejects(e) \/ \E item \in BOOLEAN : TaskResolves(e, item)
    PROVE  QInv'
<1>1. /\ e \in preparing /\ preparing' = preparing \ {e} /\ settling' = settling \cup {e}
      /\ config' = config /\ arrived' = arrived /\ queue' = queue /\ closed' = closed
      /\ started' = started /\ lost' = lost /\ refused' = refused
      /\ emitted' = emitted \/ emitted' = Append(emitted, e)
      /\ failed' = failed \/ failed' = failed \cup {e}
  BY DEF TaskRejects, TaskResolves
<1>2. /\ emitted \in Seq(Events) /\ preparing \subseteq Events /\ Events \subseteq Nat
      /\ e \in Events /\ IsInjective(emitted)
      /\ preparing \cap settling = {} /\ Inflight \subseteq ToSet(started)
      /\ ToSet(emitted) \cup failed \subseteq ToSet(started) \ preparing
      /\ ToSet(started) \subseteq Events
  BY <1>1, Finite DEF QInv, TypeOK, InPlace
<1>3. /\ emitted' \in Seq(Events) /\ ToSet(emitted') \subseteq ToSet(emitted) \cup {e}
  <2>1. /\ Append(emitted, e) \in Seq(Events)
        /\ ToSet(Append(emitted, e)) = ToSet(emitted) \cup {e}
    BY <1>2, ToSetAppend
  <2> QED
    BY <1>1, <1>2, <2>1
<1>4. IsInjective(emitted')
  <2>1. e \notin ToSet(emitted)
    BY <1>1, <1>2
  <2>2. IsInjective(Append(emitted, e))
    <3> DEFINE t == Append(emitted, e)
    <3>1. /\ Len(emitted) \in Nat /\ DOMAIN emitted = 1..Len(emitted)
          /\ DOMAIN t = 1..Len(emitted) + 1 /\ t[Len(emitted) + 1] = e
          /\ \A i \in 1..Len(emitted) : t[i] = emitted[i]
      BY <1>2, LenProperties, ToSetAppend
    <3> HIDE DEF t
    <3>2. \A i \in 1..Len(emitted) : t[i] # e
      BY <2>1, <3>1 DEF ToSet
    <3>3. ASSUME NEW i \in DOMAIN t, NEW j \in DOMAIN t, t[i] = t[j] PROVE i = j
      <4>1. CASE i \in 1..Len(emitted) /\ j \in 1..Len(emitted)
        BY <1>2, <3>1, <3>3, <4>1 DEF IsInjective
      <4>2. CASE ~(i \in 1..Len(emitted)) \/ ~(j \in 1..Len(emitted))
        BY <3>1, <3>2, <3>3, <4>2
      <4> QED
        BY <4>1, <4>2
    <3>4. IsInjective(t)
      BY <3>3 DEF IsInjective
    <3> QED
      BY <3>4 DEF t
  <2> QED
    BY <1>1, <1>2, <2>2
<1>5. TypeOK'
  BY <1>1, <1>2, <1>3 DEF QInv, TypeOK
<1>6. InOrder'
  BY <1>1 DEF QInv, InOrder
<1>7. Inflight' = Inflight
  BY <1>1 DEF Inflight
<1>8. InPlace'
  <2>1. preparing' \cap settling' = {} /\ Inflight' \subseteq ToSet(started')
    BY <1>1, <1>2, <1>7
  <2>2. e \in ToSet(started)
    BY <1>1, <1>2 DEF Inflight
  <2>3. ToSet(emitted') \cup failed' \subseteq ToSet(started') \ preparing'
    BY <1>1, <1>2, <1>3, <2>2
  <2>4. closed' => queue' = <<>>
    BY <1>1 DEF QInv, InPlace
  <2> QED
    BY <1>4, <2>1, <2>3, <2>4 DEF InPlace
<1>9. Bounded' /\ NoIdleSlot'
  BY <1>1, <1>7 DEF QInv, Bounded, NoIdleSlot
<1>10. Accounted'
  <2>1. Apart'
    BY <1>1, AccountedApart DEF QInv, Apart
  <2> QED
    BY <2>1, AccountedApart
<1>11. OneByOne'
  <2>1. SUFFICES ASSUME config.inflight = 1
                 PROVE  /\ Sorted(emitted')
                        /\ \A x \in preparing', y \in ToSet(started') : y <= x
    BY <1>1 DEF OneByOne
  <2>2. Sorted(emitted) /\ \A x \in preparing, y \in ToSet(started) : y <= x
    BY <2>1 DEF QInv, OneByOne
  <2>3. ASSUME NEW y \in ToSet(emitted) PROVE y < e
    <3>1. y \in ToSet(started) /\ y \in Nat /\ e \in Nat /\ y # e
      BY <1>1, <1>2
    <3>2. y <= e
      BY <1>1, <2>2, <3>1
    <3> QED
      BY <3>1, <3>2
  <2>4. Sorted(Append(emitted, e))
    BY <1>2, <2>2, <2>3, SortedAppend, EventsAreNumbers
  <2> QED
    BY <1>1, <2>2, <2>4
<1>12. NewestKept'
  BY <1>1 DEF QInv, NewestKept
<1> QED
  BY <1>5, <1>6, <1>8, <1>9, <1>10, <1>11, <1>12 DEF QInv

\* close gives up what waits.
LEMMA CloseKeeps == ASSUME QInv, Close PROVE QInv'
<1>1. /\ closed' = TRUE /\ queue' = <<>>
      /\ config' = config /\ arrived' = arrived /\ preparing' = preparing
      /\ settling' = settling /\ started' = started /\ emitted' = emitted
      /\ lost' = lost /\ refused' = refused /\ failed' = failed
  BY DEF Close, outcomes
<1>2. queue' \in Seq(Events) /\ Len(queue') = 0 /\ DOMAIN queue' = {} /\ ToSet(queue') = {}
  <2>1. queue' \in Seq(Events) /\ Len(queue') = 0
    BY <1>1, EmptySeq
  <2>2. DOMAIN queue' = 1..0
    BY <2>1, LenProperties
  <2> QED
    BY <2>1, <2>2 DEF ToSet
<1>3. TypeOK'
  BY <1>1, <1>2 DEF QInv, TypeOK
<1>4. InOrder'
  BY <1>1, <1>2 DEF QInv, InOrder, Sorted, Before
<1>5. InPlace'
  BY <1>1 DEF QInv, InPlace, Inflight
<1>6. Bounded'
  BY <1>1, <1>2, Finite DEF QInv, Bounded, Inflight
<1>7. closed'
  BY <1>1
<1>8. NoIdleSlot' /\ NewestKept' /\ OneByOne'
  BY <1>1, <1>7 DEF QInv, NoIdleSlot, NewestKept, OneByOne
<1>9. Accounted'
  <2>1. Apart'
    BY <1>1, <1>2, <1>7, AccountedApart DEF QInv, Apart
  <2> QED
    BY <2>1, AccountedApart
<1> QED
  BY <1>3, <1>4, <1>5, <1>6, <1>8, <1>9 DEF QInv

\* A new queue.
LEMMA QueueInit == ASSUME Init PROVE QInv
<1>1. /\ config \in [inflight : InflightLimits, size : QueueSizes, policy : Policies]
      /\ arrived = 0 /\ queue = <<>> /\ started = <<>> /\ emitted = <<>>
      /\ preparing = {} /\ settling = {} /\ closed = FALSE
      /\ lost = {} /\ refused = {} /\ failed = {}
  BY DEF Init
<1>2. config.inflight \in Nat \ {0} /\ config.size \in Nat /\ MaxEvents \in Nat
  BY <1>1, BackpressureAssumption
<1>3. /\ \A S : <<>> \in Seq(S)
      /\ Len(<<>>) = 0 /\ DOMAIN <<>> = {} /\ ToSet(<<>>) = {} /\ IsInjective(<<>>)
  <2>1. <<>> \in Seq({}) /\ Len(<<>>) = 0
    BY EmptySeq
  <2>2. DOMAIN <<>> = {}
    BY <2>1, LenProperties
  <2> QED
    BY <2>1, <2>2, EmptySeq DEF ToSet, IsInjective
<1>4. TypeOK
  <2>1. /\ queue \in Seq(Events) /\ emitted \in Seq(Events) /\ started \in Seq(Events)
        /\ IsInjective(started)
    BY <1>1, <1>3, Zenon
  <2>2. arrived \in 0..MaxEvents
    BY <1>1, <1>2
  <2>3. closed \in BOOLEAN
    BY <1>1, Zenon
  <2> QED
    BY <1>1, <2>1, <2>2, <2>3 DEF TypeOK
<1>5. InOrder
  BY <1>1, <1>3 DEF InOrder, Sorted, Before
<1>6. InPlace
  BY <1>1, <1>3 DEF InPlace, Inflight
<1>7. Bounded
  <2>1. Cardinality(Inflight) = 0
    BY <1>1, FS_EmptySet DEF Inflight
  <2> QED
    BY <1>1, <1>2, <1>3, <2>1 DEF Bounded
<1>8. NoIdleSlot /\ OneByOne /\ NewestKept
  BY <1>1, <1>3 DEF NoIdleSlot, OneByOne, NewestKept, Sorted
<1>9. Accounted
  <2>1. Apart
    BY <1>1, <1>3 DEF Apart
  <2> QED
    BY <2>1, AccountedApart
<1> QED
  BY <1>4, <1>5, <1>6, <1>7, <1>8, <1>9 DEF QInv

\* Every handler of the queue preserves its invariant.
LEMMA QueueStep == ASSUME QInv, [Next]_vars PROVE QInv'
<1>1. CASE Accept
  BY <1>1, AcceptKeeps
<1>2. CASE DropIncoming \/ Refuse
  BY <1>2, TurnedAwayKeeps
<1>3. CASE DropOldest
  BY <1>3, DropOldestKeeps
<1>4. CASE \E e \in Events, item \in BOOLEAN : TaskResolves(e, item)
  BY <1>4, TaskKeeps
<1>5. CASE \E e \in Events : TaskRejects(e) \/ Finally(e)
  BY <1>5, TaskKeeps, FinallyKeeps
<1>6. CASE Close
  BY <1>6, CloseKeeps
<1>7. CASE UNCHANGED vars
  <2>1. /\ config' = config /\ arrived' = arrived /\ queue' = queue
        /\ preparing' = preparing /\ settling' = settling /\ closed' = closed
        /\ started' = started /\ emitted' = emitted /\ lost' = lost
        /\ refused' = refused /\ failed' = failed
    BY <1>7 DEF vars, outcomes
  <2>2. TypeOK' /\ InOrder' /\ InPlace'
    BY <2>1 DEF QInv, TypeOK, InOrder, InPlace, Inflight
  <2>3. Bounded' /\ NoIdleSlot' /\ Accounted' /\ OneByOne' /\ NewestKept'
    BY <2>1 DEF QInv, Bounded, NoIdleSlot, Accounted, OneByOne, NewestKept, Inflight
  <2> QED
    BY <2>2, <2>3 DEF QInv
<1> QED
  BY <1>1, <1>2, <1>3, <1>4, <1>5, <1>6, <1>7 DEF Next

\* What a queue with any limits, capacity and policy promises, whatever order events
\* arrive in and tasks end: no more tasks at a time than slots, no more waiting events than
\* room, no slot idle while an event waits, every event in one place, items in order with
\* one slot, and dropOldest keeps the newest.
LEMMA QInvLaws == ASSUME QInv PROVE QueueLaws
  BY DEF QInv, QueueLaws, OneByOne, OneAtATimeIsFifo, Sorted

\* The invariant of the queue holds in every state of its specification.
THEOREM QueueInvariance == Spec => []QInv
<1>1. Init => QInv
  BY QueueInit
<1>2. QInv /\ [Next]_vars => QInv'
  BY QueueStep
<1> QED
  BY <1>1, <1>2, PTL DEF Spec

\* The queue keeps its laws (triggerBackpressureQueue.ts).
THEOREM QueueLawful == Spec => []QueueLaws
<1>1. QInv => QueueLaws
  BY QInvLaws
<1> QED
  BY <1>1, QueueInvariance, PTL

\* After close no task starts and no outcome is recorded.
LEMMA QuietStep ==
    ASSUME QInv, [Next]_vars, closed PROVE UNCHANGED <<started, outcomes>>
<1>1. CASE UNCHANGED vars
  BY <1>1 DEF vars
<1>2. CASE Accept \/ DropIncoming \/ DropOldest \/ Refuse \/ Close
  BY <1>2 DEF Accept, DropIncoming, DropOldest, Refuse, Close
<1>3. CASE \E e \in Events, item \in BOOLEAN : TaskResolves(e, item)
  BY <1>3 DEF TaskResolves, MayEmit, outcomes
<1>4. CASE \E e \in Events : TaskRejects(e)
  BY <1>4 DEF TaskRejects, MayEmit, outcomes
<1>5. CASE \E e \in Events : Finally(e)
  BY <1>5 DEF Finally
<1> QED
  BY <1>1, <1>2, <1>3, <1>4, <1>5 DEF Next

--------------------------------------------------------------------------------
(* The trigger implements the queue                                        *)

\* Every handler of the trigger is a handler of the queue, or leaves the queue alone.
LEMMA StepRefines == ASSUME QInv, [TriggerNext]_tvars PROVE [Next]_vars
<1>1. CASE \E id \in EventIds : Arrives(id)
  BY <1>1 DEF Arrives, Next
<1>2. CASE \E e \in 1..arrived : Works(e)
  <2>1. PICK e \in Events : Works(e)
    BY <1>2, Finite
  <2>2. FALSE \in BOOLEAN /\ TRUE \in BOOLEAN
    OBVIOUS
  <2>3. CASE Duplicate(e)
    BY <2>2, <2>3 DEF Duplicate, Next
  <2>4. CASE Attaches(e)
    <3>1. TaskResolves(e, FALSE) \/ UNCHANGED vars
      BY <2>4 DEF Attaches
    <3> QED
      BY <2>2, <3>1 DEF Next
  <2>5. CASE Emits(e)
    BY <2>2, <2>5 DEF Emits, Next
  <2>6. CASE TaskFails(e) \/ TaskFinally(e)
    BY <2>6 DEF TaskFails, TaskFinally, Next
  <2> QED
    BY <2>1, <2>3, <2>4, <2>5, <2>6 DEF Works
<1>3. CASE EntryExpires
  BY <1>3 DEF EntryExpires
<1>4. CASE TriggerCloses
  BY <1>4 DEF TriggerCloses, Next
<1>5. CASE UNCHANGED tvars
  BY <1>5 DEF tvars
<1> QED
  BY <1>1, <1>2, <1>3, <1>4, <1>5 DEF TriggerNext

\* The way of the events through an active trigger implements the queue: all the queue
\* promises holds under it (customSocketEventSession.ts over triggerBackpressureQueue.ts).
THEOREM TriggerRefinesQueue == TriggerSpec => Spec
<1>1. TriggerInit => Init
  BY DEF TriggerInit
<1>2. Init => QInv
  BY QueueInit
<1>3. QInv /\ [TriggerNext]_tvars => QInv' /\ [Next]_vars
  BY StepRefines, QueueStep
<1> QED
  BY <1>1, <1>2, <1>3, PTL DEF TriggerSpec, Spec

\* The laws of the queue, for the events of a trigger.
THEOREM TriggerLawful == TriggerSpec => []QueueLaws
  BY TriggerRefinesQueue, QueueLawful, PTL

\* After closeFunction no task starts and nothing reaches the workflow, is dropped or is
\* reported, although tasks in flight still end.
THEOREM TriggerQuiet == TriggerSpec => QuietAfterClose
<1>1. QInv /\ [Next]_vars => [closed => UNCHANGED <<started, outcomes>>]_vars
  BY QuietStep
<1>2. Spec => QuietAfterClose
  BY <1>1, QueueInvariance, PTL DEF Spec, QuietAfterClose
<1> QED
  BY <1>2, TriggerRefinesQueue, PTL

--------------------------------------------------------------------------------
(* The memory of ids                                                       *)

\* A sequence without repetitions, and one of its elements taken out.
LEMMA RemoveOnly ==
    ASSUME NEW S, NEW s \in Seq(S), IsInjective(s), NEW h
    PROVE  /\ RemoveFirst(s, h) \in Seq(S) /\ IsInjective(RemoveFirst(s, h))
           /\ ToSet(RemoveFirst(s, h)) = ToSet(s) \ {h}
<1>1. /\ Len(s) \in Nat /\ DOMAIN s = 1..Len(s) /\ \A i \in 1..Len(s) : s[i] \in S
  BY LenProperties, ElementOfSeq
<1>2. CASE ~(\E i \in 1..Len(s) : s[i] = h)
  <2>1. RemoveFirst(s, h) = s
    BY <1>2 DEF RemoveFirst
  <2> QED
    BY <1>1, <1>2, <2>1 DEF ToSet
<1>3. CASE \E i \in 1..Len(s) : s[i] = h
  <2>1. PICK i \in 1..Len(s) : s[i] = h
    BY <1>3
  <2>2. {j \in 1..Len(s) : s[j] = h} = {i}
    BY <1>1, <2>1 DEF IsInjective
  <2>3. Min({i}) = i
    BY <1>1, <2>1 DEF Min
  <2>4. SelectInSeq(s, LAMBDA v : v = h) = i
    BY <2>2, <2>3 DEF SelectInSeq
  <2> DEFINE a == SubSeq(s, 1, i - 1)
  <2> DEFINE b == SubSeq(s, i + 1, Len(s))
  <2>5. RemoveFirst(s, h) = a \o b
    BY <1>3, <2>4 DEF RemoveFirst, RemoveAt
  <2>6. /\ a \in Seq(S) /\ Len(a) = i - 1 /\ \A j \in 1..i - 1 : a[j] = s[j]
    <3>1. i - 1 \in 0..Len(s)
      BY <1>1
    <3> QED
      BY <3>1, Cut
  <2>7. /\ b \in Seq(S) /\ Len(b) = Len(s) - i /\ \A j \in 1..Len(s) - i : b[j] = s[i + j]
    <3>1. i \in 0..Len(s)
      BY <1>1
    <3> QED
      BY <3>1, Cut
  <2> HIDE DEF a, b
  <2>8. /\ DOMAIN a = 1..i - 1 /\ DOMAIN b = 1..Len(s) - i
    BY <2>6, <2>7, LenProperties
  <2> DEFINE r == a \o b
  <2>9. /\ r \in Seq(S) /\ Len(r) = Len(a) + Len(b)
        /\ \A j \in 1..Len(a) + Len(b) : r[j] = IF j <= Len(a) THEN a[j] ELSE b[j - Len(a)]
    BY <2>6, <2>7, ConcatProperties
  <2>10. ToSet(r) = ToSet(a) \cup ToSet(b)
    BY <2>6, <2>7, ToSetConcat
  <2> HIDE DEF r
  <2>11. DOMAIN r = 1..Len(s) - 1
    <3>1. Len(r) = Len(s) - 1
      BY <1>1, <2>6, <2>7, <2>9
    <3> QED
      BY <2>9, <3>1, LenProperties
  <2>12. ASSUME NEW j \in 1..Len(s) - 1
         PROVE  r[j] = s[IF j < i THEN j ELSE j + 1]
    <3>1. j \in 1..Len(a) + Len(b)
      BY <1>1, <2>6, <2>7
    <3>2. CASE j < i
      <4>1. j <= Len(a) /\ j \in 1..i - 1
        BY <1>1, <2>6, <3>2
      <4> QED
        BY <2>6, <2>9, <3>1, <3>2, <4>1
    <3>3. CASE ~(j < i)
      <4>1. /\ ~(j <= Len(a)) /\ j - Len(a) \in 1..Len(s) - i /\ i + (j - Len(a)) = j + 1
        BY <1>1, <2>6, <3>3
      <4>2. r[j] = b[j - Len(a)]
        BY <2>9, <3>1, <4>1
      <4>3. b[j - Len(a)] = s[j + 1]
        BY <2>7, <4>1
      <4> QED
        BY <3>3, <4>2, <4>3
    <3> QED
      BY <3>2, <3>3
  <2>13. IsInjective(r)
    <3>1. ASSUME NEW j \in DOMAIN r, NEW k \in DOMAIN r, r[j] = r[k] PROVE j = k
      <4> DEFINE jj == IF j < i THEN j ELSE j + 1
      <4> DEFINE kk == IF k < i THEN k ELSE k + 1
      <4>1. jj \in 1..Len(s) /\ kk \in 1..Len(s)
        BY <1>1, <2>11
      <4>2. s[jj] = s[kk]
        BY <2>11, <2>12, <3>1
      <4>3. jj = kk
        BY <1>1, <4>1, <4>2 DEF IsInjective
      <4> QED
        BY <1>1, <2>11, <4>3
    <3> QED
      BY <3>1 DEF IsInjective
  <2>14. ToSet(r) = ToSet(s) \ {h}
    <3>1. ASSUME NEW j \in 1..i - 1 PROVE a[j] \in ToSet(s) \ {h}
      <4>1. j \in 1..Len(s) /\ j # i
        BY <1>1
      <4> QED
        BY <1>1, <2>1, <2>6, <4>1 DEF IsInjective, ToSet
    <3>2. ASSUME NEW j \in 1..Len(s) - i PROVE b[j] \in ToSet(s) \ {h}
      <4>1. i + j \in 1..Len(s) /\ i + j # i
        BY <1>1
      <4> QED
        BY <1>1, <2>1, <2>7, <4>1 DEF IsInjective, ToSet
    <3>3. ASSUME NEW j \in 1..Len(s), s[j] # h PROVE s[j] \in ToSet(a) \cup ToSet(b)
      <4>1. CASE j < i
        <5>1. j \in 1..i - 1
          BY <1>1, <4>1
        <5> QED
          BY <2>6, <2>8, <5>1 DEF ToSet
      <4>2. CASE j > i
        <5>1. j - i \in 1..Len(s) - i /\ i + (j - i) = j
          BY <1>1, <4>2
        <5>2. b[j - i] = s[j]
          BY <2>7, <5>1
        <5> QED
          BY <2>8, <5>1, <5>2 DEF ToSet
      <4> QED
        BY <1>1, <2>1, <3>3, <4>1, <4>2
    <3>4. ToSet(a) \cup ToSet(b) \subseteq ToSet(s) \ {h}
      BY <2>8, <3>1, <3>2 DEF ToSet
    <3>5. ToSet(s) \ {h} \subseteq ToSet(a) \cup ToSet(b)
      <4>1. \A x \in ToSet(s) : \E j \in 1..Len(s) : x = s[j]
        BY <1>1 DEF ToSet
      <4> QED
        BY <3>3, <4>1
    <3> QED
      BY <2>10, <3>4, <3>5
  <2>15. RemoveFirst(s, h) = r
    BY <2>5 DEF r
  <2> QED
    BY <2>9, <2>13, <2>14, <2>15
<1> QED
  BY <1>2, <1>3

\* A sequence without its first element.
LEMMA TailSet ==
    ASSUME NEW S, NEW s \in Seq(S), Len(s) # 0
    PROVE  /\ Tail(s) \in Seq(S) /\ Head(s) \in S /\ Len(s) = Len(Tail(s)) + 1
           /\ ToSet(s) = {Head(s)} \cup ToSet(Tail(s))
           /\ IsInjective(s) => IsInjective(Tail(s))
<1> DEFINE t == Tail(s)
<1>1. /\ Len(s) \in Nat /\ Len(s) >= 1 /\ DOMAIN s = 1..Len(s)
      /\ \A i \in 1..Len(s) : s[i] \in S
  BY LenProperties, ElementOfSeq
<1>2. s # <<>>
  BY <1>1, EmptySeq
<1>3. /\ t \in Seq(S) /\ Len(t) = Len(s) - 1 /\ \A i \in 1..Len(t) : t[i] = s[i + 1]
      /\ Head(s) = s[1]
  BY <1>2, HeadTailProperties
<1>4. DOMAIN t = 1..Len(s) - 1
  BY <1>3, LenProperties
<1> HIDE DEF t
<1>5. ASSUME NEW i \in 1..Len(s) - 1 PROVE i + 1 \in 1..Len(s) /\ t[i] = s[i + 1]
  BY <1>1, <1>3
<1>6. ASSUME NEW i \in 1..Len(s), i # 1 PROVE i - 1 \in 1..Len(s) - 1 /\ t[i - 1] = s[i]
  <2>1. i - 1 \in 1..Len(s) - 1 /\ (i - 1) + 1 = i
    BY <1>1, <1>6
  <2> QED
    BY <1>5, <2>1
<1>7. s[1] \in S /\ 1 \in 1..Len(s)
  BY <1>1
<1>8. ToSet(s) = {s[1]} \cup ToSet(t)
  <2>1. {s[1]} \cup ToSet(t) \subseteq ToSet(s)
    BY <1>1, <1>4, <1>5, <1>7 DEF ToSet
  <2>2. ToSet(s) \subseteq {s[1]} \cup ToSet(t)
    BY <1>1, <1>4, <1>6 DEF ToSet
  <2> QED
    BY <2>1, <2>2
<1>9. ASSUME IsInjective(s) PROVE IsInjective(t)
  <2>1. ASSUME NEW i \in DOMAIN t, NEW j \in DOMAIN t, t[i] = t[j] PROVE i = j
    <3>1. i + 1 = j + 1
      BY <1>1, <1>4, <1>5, <1>9, <2>1 DEF IsInjective
    <3> QED
      BY <1>4, <3>1
  <2> QED
    BY <2>1 DEF IsInjective
<1>10. Len(s) = Len(t) + 1
  BY <1>1, <1>3
<1> QED
  BY <1>3, <1>7, <1>8, <1>9, <1>10 DEF t

\* An element that is new to a sequence without repetitions.
LEMMA InjectiveAppend ==
    ASSUME NEW S, NEW s \in Seq(S), IsInjective(s), NEW e \in S, e \notin ToSet(s)
    PROVE  IsInjective(Append(s, e))
<1> DEFINE t == Append(s, e)
<1>1. /\ Len(s) \in Nat /\ DOMAIN s = 1..Len(s)
      /\ DOMAIN t = 1..Len(s) + 1 /\ t[Len(s) + 1] = e
      /\ \A i \in 1..Len(s) : t[i] = s[i]
  BY LenProperties, ToSetAppend
<1> HIDE DEF t
<1>2. \A i \in 1..Len(s) : t[i] # e
  BY <1>1 DEF ToSet
<1>3. ASSUME NEW i \in DOMAIN t, NEW j \in DOMAIN t, t[i] = t[j] PROVE i = j
  <2>1. CASE i \in 1..Len(s) /\ j \in 1..Len(s)
    BY <1>1, <1>3, <2>1 DEF IsInjective
  <2>2. CASE ~(i \in 1..Len(s)) \/ ~(j \in 1..Len(s))
    BY <1>1, <1>2, <1>3, <2>2
  <2> QED
    BY <2>1, <2>2
<1>4. IsInjective(t)
  BY <1>3 DEF IsInjective
<1> QED
  BY <1>4 DEF t

\* Remembering an id that has no live entry: the memory keeps its bound, every live id has
\* an entry, and an id that was live is live still or forgotten.
LEMMA Remembered ==
    ASSUME MemoryTypeOK, Bound, NEW id \in EventIds, id \notin ToSet(live), Remember(id)
    PROVE  /\ entries' \in Seq(EventIds) /\ live' \in Seq(EventIds) /\ IsInjective(live')
           /\ forgotten' \subseteq EventIds /\ Bound'
           /\ forgotten \subseteq forgotten' /\ ToSet(live') \subseteq ToSet(live) \cup {id}
           /\ ToSet(live) \cup {id} \cup forgotten \subseteq ToSet(live') \cup forgotten'
<1> DEFINE s == Set(id)
<1> DEFINE l == Append(live, id)
<1>1. /\ entries \in Seq(EventIds) /\ live \in Seq(EventIds) /\ IsInjective(live)
      /\ forgotten \subseteq EventIds
      /\ Len(entries) <= MaxEntries /\ ToSet(live) \subseteq ToSet(entries)
  BY DEF MemoryTypeOK, Bound
<1>2. Len(entries) \in Nat /\ MaxEntries \in Nat
  BY <1>1, LenProperties, TriggerEventsAssumption
<1>3. l \in Seq(EventIds) /\ ToSet(l) = ToSet(live) \cup {id} /\ IsInjective(l)
  BY <1>1, ToSetAppend, InjectiveAppend
<1>4. /\ Append(entries, id) \in Seq(EventIds)
      /\ ToSet(Append(entries, id)) = ToSet(entries) \cup {id}
      /\ Len(Append(entries, id)) = Len(entries) + 1
  BY <1>1, ToSetAppend
<1>5. /\ s \in Seq(EventIds) /\ ToSet(l) \subseteq ToSet(s) /\ id \in ToSet(s)
      /\ Len(s) = Len(entries) \/ Len(s) = Len(entries) + 1
  BY <1>1, <1>3, <1>4 DEF Set
<1> HIDE DEF s, l
<1>6. Len(s) \in Nat /\ Len(s) # 0
  <2>1. Len(s) \in Nat /\ DOMAIN s = 1..Len(s)
    BY <1>5, LenProperties
  <2>2. DOMAIN s # {}
    BY <1>5 DEF ToSet
  <2> QED
    BY <2>1, <2>2
<1>7. CASE Evicts(id)
  <2>1. /\ entries' = Tail(s) /\ live' = RemoveFirst(l, Head(s))
        /\ forgotten' = forgotten \cup {Head(s)}
    BY <1>7 DEF Remember, s, l
  <2>2. /\ Tail(s) \in Seq(EventIds) /\ Head(s) \in EventIds /\ Len(s) = Len(Tail(s)) + 1
        /\ ToSet(s) = {Head(s)} \cup ToSet(Tail(s))
    BY <1>5, <1>6, TailSet
  <2>3. /\ RemoveFirst(l, Head(s)) \in Seq(EventIds) /\ IsInjective(RemoveFirst(l, Head(s)))
        /\ ToSet(RemoveFirst(l, Head(s))) = ToSet(l) \ {Head(s)}
    BY <1>3, RemoveOnly
  <2>4. Len(Tail(s)) \in Nat
    BY <2>2, LenProperties
  <2>5. Len(Tail(s)) <= MaxEntries
    <3>1. Len(s) <= Len(entries) + 1
      BY <1>2, <1>5, <1>6
    <3>2. Len(s) <= MaxEntries + 1
      BY <1>1, <1>2, <1>6, <3>1
    <3> QED
      BY <1>2, <2>2, <2>4, <3>2
  <2>6. Bound'
    BY <1>5, <2>1, <2>2, <2>3, <2>5 DEF Bound
  <2> QED
    BY <1>1, <1>3, <2>1, <2>2, <2>3, <2>6
<1>8. CASE ~Evicts(id)
  <2>1. entries' = s /\ live' = l /\ forgotten' = forgotten
    BY <1>8 DEF Remember, s, l
  <2>2. Len(s) <= MaxEntries
    BY <1>2, <1>6, <1>8 DEF Evicts, s
  <2>3. Bound'
    BY <1>5, <2>1, <2>2 DEF Bound
  <2> QED
    BY <1>1, <1>3, <1>5, <2>1, <2>3
<1> QED
  BY <1>7, <1>8

\* What a step may do to the events that passed the memory: at most one more passes, whose
\* id had no live entry; an id leaves the live entries only to be forgotten; and an event
\* whose task ends shows something or was caused by another.
LEMMA MemoryKeeps ==
    ASSUME EInv, QInv', MemoryTypeOK', Bound',
           \A e \in 1..arrived : idOf'[e] = idOf[e],
           forgotten \subseteq forgotten',
           ToSet(live) \cup forgotten \subseteq ToSet(live') \cup forgotten',
           NEW N \in SUBSET (1..arrived), \A e, f \in N : e = f,
           \A e \in N : idOf[e] \notin ToSet(live)
                          /\ idOf[e] \in ToSet(live') \cup forgotten',
           Passed' \subseteq Passed \cup N,
           ~closed' =>
              /\ ~closed /\ Caused \subseteq Caused'
              /\ ToSet(emitted) \cup failed \subseteq ToSet(emitted') \cup failed'
              /\ \A id \in ToSet(live') :
                    id \in ToSet(live) \/ \E k \in N \cap Caused' : idOf[k] = id
              /\ \A e \in ToSet(started') \ preparing' :
                    \/ e \in ToSet(started) \ preparing
                    \/ e \in ToSet(emitted') \cup failed'
                    \/ e \in 1..arrived /\ \E k \in Caused \ {e} : idOf[k] = idOf[e]
    PROVE  EInv'
<1>1. Caused \subseteq 1..arrived /\ Passed \subseteq Caused /\ ToSet(started) \subseteq 1..arrived
  <2>1. /\ ToSet(emitted) \cup failed \subseteq ToSet(started) /\ preparing \subseteq ToSet(started)
        /\ ToSet(started) \subseteq 1..arrived /\ attaching \subseteq preparing
    BY DEF EInv, QInv, InPlace, InOrder, Inflight, MemoryTypeOK
  <2> QED
    BY <2>1 DEF Caused, Passed
<1>2. PassedKnown /\ PassedOnce /\ LiveCaused /\ SilentCaused
  BY DEF EInv
<1>3. \A e \in Passed \cup N : e \in 1..arrived /\ idOf'[e] = idOf[e]
  BY <1>1
<1>4. PassedKnown'
  <2>1. \A e \in Passed \cup N : idOf[e] \in ToSet(live') \cup forgotten'
    BY <1>2 DEF PassedKnown
  <2> QED
    BY <1>3, <2>1 DEF PassedKnown
<1>5. PassedOnce'
  <2>1. ASSUME NEW e \in Passed \cup N, NEW f \in Passed \cup N, e # f, idOf[e] = idOf[f]
        PROVE  idOf[e] \in forgotten'
    <3>1. CASE e \in Passed /\ f \in Passed
      BY <1>2, <2>1, <3>1 DEF PassedOnce
    <3>2. CASE e \in N /\ f \in Passed
      BY <1>2, <2>1, <3>2 DEF PassedKnown
    <3>3. CASE e \in Passed /\ f \in N
      BY <1>2, <2>1, <3>3 DEF PassedKnown
    <3> QED
      BY <2>1, <3>1, <3>2, <3>3
  <2> QED
    BY <1>3, <2>1 DEF PassedOnce
<1>6. LiveCaused'
  <2>1. SUFFICES ASSUME ~closed', NEW id \in ToSet(live')
                 PROVE  \E k \in Caused' : idOf'[k] = id
    BY DEF LiveCaused
  <2>2. CASE id \in ToSet(live)
    <3>1. PICK k \in Caused : idOf[k] = id
      BY <1>2, <2>1, <2>2 DEF LiveCaused
    <3> QED
      BY <1>1, <2>1, <3>1
  <2>3. CASE \E k \in N \cap Caused' : idOf[k] = id
    BY <1>3, <2>3
  <2> QED
    BY <2>1, <2>2, <2>3
<1>7. SilentCaused'
  <2>1. SUFFICES ASSUME ~closed', NEW e \in ToSet(started') \ preparing',
                        e \notin ToSet(emitted') \cup failed'
                 PROVE  \E k \in Caused' \ {e} : idOf'[k] = idOf'[e]
    BY DEF SilentCaused
  <2>2. e \in 1..arrived /\ \E k \in Caused \ {e} : idOf[k] = idOf[e]
    BY <1>1, <1>2, <2>1 DEF SilentCaused
  <2> QED
    BY <1>1, <2>1, <2>2
<1> QED
  BY <1>4, <1>5, <1>6, <1>7 DEF EInv

\* The next event arrives, with an id of its own or of an earlier event.
LEMMA ArrivesKeeps == ASSUME EInv, NEW id \in EventIds, Arrives(id) PROVE EInv'
<1>1. /\ Accept \/ DropIncoming \/ DropOldest \/ Refuse
      /\ idOf' = Append(idOf, id) /\ attaching' = attaching
      /\ entries' = entries /\ live' = live /\ forgotten' = forgotten
  BY DEF Arrives, memory
<1>2. QInv /\ MemoryTypeOK /\ Bound
  BY DEF EInv
<1>3. QInv'
  BY <1>1, <1>2, QueueStep DEF Next
<1>4. /\ arrived' = arrived + 1 /\ closed' = closed /\ emitted' = emitted /\ failed' = failed
      /\ preparing \subseteq preparing'
      /\ ToSet(started') \ preparing' \subseteq ToSet(started) \ preparing
  <2>1. CASE DropIncoming \/ Refuse
    BY <2>1 DEF DropIncoming, Refuse
  <2>2. CASE Accept \/ DropOldest
    <3>1. /\ arrived' = arrived + 1 /\ closed' = closed /\ emitted' = emitted
          /\ failed' = failed
      BY <2>2 DEF Accept, DropOldest, outcomes
    <3>2. /\ config \in [inflight : InflightLimits, size : QueueSizes, policy : Policies]
          /\ started \in Seq(Events) /\ Sorted(queue) /\ queue \in Seq(Events)
          /\ Bounded /\ Cardinality(Inflight) \in Nat
      BY <1>2, Finite DEF QInv, TypeOK, InOrder
    <3>3. PICK q \in Seq(Events) : Sorted(q) /\ Drain(q, Cardinality(Inflight))
      <4>1. CASE Accept
        <5>1. Drain(Append(queue, arrived + 1), Cardinality(Inflight)) /\ arrived < MaxEvents
          BY <4>1 DEF Accept, Pushed
        <5>2. Append(queue, arrived + 1) \in Seq(Events) /\ Sorted(Append(queue, arrived + 1))
          BY <1>2, <3>2, <5>1, QueueGrows
        <5> QED
          BY <5>1, <5>2
      <4>2. CASE DropOldest
        <5>1. /\ Drain(Append(Tail(queue), arrived + 1), Cardinality(Inflight))
              /\ arrived < MaxEvents /\ Full /\ config.size > 0
          BY <4>2 DEF DropOldest, Pushed, Kept
        <5>2. Len(queue) # 0
          BY <1>2, <5>1, Finite DEF Full
        <5>3. /\ Tail(queue) \in Seq(Events) /\ Sorted(Tail(queue))
              /\ ToSet(Tail(queue)) \subseteq ToSet(queue)
          BY <3>2, <5>2, SortedTail
        <5>4. /\ Append(Tail(queue), arrived + 1) \in Seq(Events)
              /\ Sorted(Append(Tail(queue), arrived + 1))
          BY <1>2, <5>1, <5>3, QueueGrows
        <5> QED
          BY <5>1, <5>4
      <4> QED
        BY <2>2, <4>1, <4>2
    <3>4. Cardinality(Inflight) <= config.inflight
      BY <3>2 DEF Bounded
    <3>5. PICK F \in SUBSET Events :
             preparing' = preparing \cup F /\ ToSet(started') = ToSet(started) \cup F
      BY <3>2, <3>3, <3>4, DrainStarts
    <3> QED
      BY <3>1, <3>5
  <2> QED
    BY <1>1, <2>1, <2>2
<1>5. /\ idOf \in Seq(EventIds) /\ Len(idOf) = arrived /\ arrived \in Nat
      /\ attaching \subseteq preparing /\ entries \in Seq(EventIds)
      /\ live \in Seq(EventIds) /\ IsInjective(live) /\ forgotten \subseteq EventIds
  BY <1>2, Finite DEF MemoryTypeOK
<1>6. /\ idOf' \in Seq(EventIds) /\ Len(idOf') = arrived'
      /\ \A e \in 1..arrived : idOf'[e] = idOf[e]
  BY <1>1, <1>4, <1>5, ToSetAppend
<1>7. MemoryTypeOK'
  BY <1>1, <1>4, <1>5, <1>6 DEF MemoryTypeOK
<1>8. Bound'
  BY <1>1, <1>2 DEF Bound
<1>9. Passed' = Passed /\ Caused' = Caused
  BY <1>1, <1>4 DEF Passed, Caused
<1> DEFINE N == {}
<1>10. N \in SUBSET (1..arrived)
  OBVIOUS
<1> QED
  BY <1>1, <1>3, <1>4, <1>6, <1>7, <1>8, <1>9, <1>10, MemoryKeeps

\* The frame of an event is decoded.
LEMMA DecodedKeeps ==
    ASSUME EInv, NEW e \in 1..arrived, Duplicate(e) \/ Attaches(e) PROVE EInv'
<1>1. /\ QInv /\ MemoryTypeOK /\ Bound /\ LiveCaused
      /\ e \in preparing /\ e \notin attaching /\ idOf' = idOf
      /\ attaching \subseteq preparing /\ idOf \in Seq(EventIds) /\ Len(idOf) = arrived
      /\ ToSet(emitted) \cup failed \subseteq ToSet(started) \ preparing
      /\ closed \in BOOLEAN
  BY DEF EInv, QInv, InPlace, MemoryTypeOK, TypeOK, Duplicate, Attaches, Undecoded
<1>2. idOf[e] \in EventIds
  BY <1>1, ElementOfSeq
<1>3. FALSE \in BOOLEAN /\ e \in Events
  BY <1>1, Finite
<1>4. CASE Duplicate(e)
  <2>1. /\ TaskResolves(e, FALSE) /\ attaching' = attaching /\ entries' = entries
        /\ live' = live /\ forgotten' = forgotten /\ idOf[e] \in ToSet(live)
    BY <1>4 DEF Duplicate, memory, Seen
  <2>2. /\ preparing' = preparing \ {e} /\ emitted' = emitted /\ failed' = failed
        /\ arrived' = arrived /\ closed' = closed /\ started' = started
    BY <2>1 DEF TaskResolves
  <2>3. QInv'
    BY <1>1, <1>3, <2>1, QueueStep DEF Next
  <2>4. MemoryTypeOK'
    BY <1>1, <2>1, <2>2 DEF MemoryTypeOK
  <2>5. Bound'
    BY <1>1, <2>1 DEF Bound
  <2>6. Passed' = Passed /\ Caused' = Caused
    BY <2>1, <2>2 DEF Passed, Caused
  <2>7. e \notin Caused
    BY <1>1 DEF Caused, Passed
  <2>8. ASSUME ~closed PROVE \E k \in Caused \ {e} : idOf[k] = idOf[e]
    BY <1>1, <2>1, <2>7, <2>8 DEF LiveCaused
  <2> DEFINE N == {}
  <2>9. N \in SUBSET (1..arrived)
    OBVIOUS
  <2>10. ASSUME ~closed'
         PROVE  \A d \in ToSet(started') \ preparing' :
                    \/ d \in ToSet(started) \ preparing
                    \/ d \in ToSet(emitted') \cup failed'
                    \/ d \in 1..arrived /\ \E k \in Caused \ {d} : idOf[k] = idOf[d]
    BY <1>1, <2>2, <2>8, <2>10
  <2> QED
    BY <1>1, <2>1, <2>2, <2>3, <2>4, <2>5, <2>6, <2>9, <2>10, MemoryKeeps
<1>5. CASE Attaches(e)
  <2>1. Remember(idOf[e]) /\ idOf[e] \notin ToSet(live)
    BY <1>5 DEF Attaches, Seen
  <2>2. /\ entries' \in Seq(EventIds) /\ live' \in Seq(EventIds) /\ IsInjective(live')
        /\ forgotten' \subseteq EventIds /\ Bound'
        /\ forgotten \subseteq forgotten' /\ ToSet(live') \subseteq ToSet(live) \cup {idOf[e]}
        /\ ToSet(live) \cup {idOf[e]} \cup forgotten \subseteq ToSet(live') \cup forgotten'
    BY <1>1, <1>2, <2>1, Remembered
  <2>3. CASE closed
    <3>1. TaskResolves(e, FALSE) /\ attaching' = attaching
      BY <1>5, <2>3 DEF Attaches
    <3>2. /\ preparing' = preparing \ {e} /\ emitted' = emitted
          /\ arrived' = arrived /\ closed' = closed
      BY <3>1 DEF TaskResolves
    <3>3. QInv'
      BY <1>1, <1>3, <3>1, QueueStep DEF Next
    <3>4. MemoryTypeOK'
      BY <1>1, <2>2, <3>1, <3>2 DEF MemoryTypeOK
    <3>5. Passed' = Passed
      BY <3>1, <3>2 DEF Passed
    <3>6. closed'
      BY <2>3, <3>2
    <3> DEFINE N == {}
    <3>7. N \in SUBSET (1..arrived)
      OBVIOUS
    <3> QED
      BY <1>1, <2>2, <3>3, <3>4, <3>5, <3>6, <3>7, MemoryKeeps
  <2>4. CASE ~closed
    <3>1. attaching' = attaching \cup {e} /\ UNCHANGED vars
      BY <1>5, <2>4 DEF Attaches
    <3>2. /\ preparing' = preparing /\ emitted' = emitted /\ failed' = failed
          /\ arrived' = arrived /\ closed' = closed /\ started' = started
      BY <3>1 DEF vars, outcomes
    <3>3. QInv'
      BY <1>1, <3>1, QueueStep
    <3>4. MemoryTypeOK'
      BY <1>1, <2>2, <3>1, <3>2 DEF MemoryTypeOK
    <3>5. Passed' = Passed \cup {e} /\ Caused' = Caused \cup {e}
      BY <3>1, <3>2 DEF Passed, Caused
    <3> DEFINE N == {e}
    <3>6. N \in SUBSET (1..arrived) /\ \A d, f \in N : d = f
      OBVIOUS
    <3>7. \A d \in N : idOf[d] \notin ToSet(live) /\ idOf[d] \in ToSet(live') \cup forgotten'
      BY <2>1, <2>2
    <3>8. \A id \in ToSet(live') : id \in ToSet(live) \/ \E k \in N \cap Caused' : idOf[k] = id
      BY <2>2, <3>5
    <3> HIDE DEF N
    <3>9. Passed' \subseteq Passed \cup N
      BY <3>5 DEF N
    <3> QED
      BY <1>1, <2>2, <2>4, <3>2, <3>3, <3>4, <3>5, <3>6, <3>7, <3>8, <3>9, MemoryKeeps
  <2> QED
    BY <1>1, <2>3, <2>4
<1> QED
  BY <1>4, <1>5

\* The preparation of an event ends, with its item or with a failure.
LEMMA EndsKeeps ==
    ASSUME EInv, NEW e \in 1..arrived, Emits(e) \/ TaskFails(e) PROVE EInv'
<1>1. /\ QInv /\ MemoryTypeOK /\ Bound
      /\ e \in preparing /\ idOf' = idOf /\ attaching' = attaching \ {e}
      /\ entries' = entries /\ live' = live /\ forgotten' = forgotten
      /\ attaching \subseteq preparing /\ closed \in BOOLEAN /\ emitted \in Seq(Events)
  BY DEF EInv, QInv, MemoryTypeOK, TypeOK, Emits, TaskFails, TaskResolves, TaskRejects, memory
<1>2. TRUE \in BOOLEAN /\ e \in Events
  BY <1>1, Finite
<1>3. /\ preparing' = preparing \ {e} /\ arrived' = arrived /\ closed' = closed
      /\ started' = started
      /\ TaskResolves(e, TRUE) \/ TaskRejects(e)
  BY DEF Emits, TaskFails, TaskResolves, TaskRejects
<1>4. QInv'
  BY <1>1, <1>2, <1>3, QueueStep DEF Next
<1>5. MemoryTypeOK'
  BY <1>1, <1>3 DEF MemoryTypeOK
<1>6. Bound'
  BY <1>1 DEF Bound
<1>7. /\ ToSet(emitted') \subseteq ToSet(emitted) \cup (attaching \cap {e})
      /\ ToSet(emitted) \cup failed \subseteq ToSet(emitted') \cup failed'
      /\ ~closed => e \in ToSet(emitted') \cup failed'
  <2>1. CASE Emits(e)
    <3>1. e \in attaching /\ failed' = failed
      BY <2>1 DEF Emits, TaskResolves
    <3>2. ToSet(Append(emitted, e)) = ToSet(emitted) \cup {e}
      BY <1>1, <1>2, ToSetAppend
    <3>3. emitted' = IF closed THEN emitted ELSE Append(emitted, e)
      BY <2>1 DEF Emits, TaskResolves, MayEmit
    <3> QED
      BY <3>1, <3>2, <3>3
  <2>2. CASE TaskFails(e)
    BY <2>2 DEF TaskFails, TaskRejects, MayEmit
  <2> QED
    BY <2>1, <2>2
<1>8. Passed' \subseteq Passed
  BY <1>1, <1>7 DEF Passed
<1>9. ASSUME ~closed PROVE Caused \subseteq Caused'
  BY <1>1, <1>7, <1>9 DEF Passed, Caused
<1>10. \A d \in ToSet(started') \ preparing' : d \in ToSet(started) \ preparing \/ d = e
  BY <1>3
<1> DEFINE N == {}
<1>11. N \in SUBSET (1..arrived)
  OBVIOUS
<1> QED
  BY <1>1, <1>3, <1>4, <1>5, <1>6, <1>7, <1>8, <1>9, <1>10, <1>11, MemoryKeeps

\* The finally of a task starts the next event; the memory does not change.
LEMMA TaskFinallyKeeps == ASSUME EInv, NEW e \in 1..arrived, TaskFinally(e) PROVE EInv'
<1>1. /\ QInv /\ MemoryTypeOK /\ Bound /\ Finally(e)
      /\ idOf' = idOf /\ attaching' = attaching
      /\ entries' = entries /\ live' = live /\ forgotten' = forgotten
  BY DEF EInv, TaskFinally, memory
<1>2. /\ e \in Events /\ Cardinality(Inflight) \in Nat /\ IsFiniteSet(Inflight)
      /\ config.inflight \in Nat
  BY <1>1, Finite
<1>3. QInv'
  BY <1>1, <1>2, QueueStep DEF Next
<1>4. /\ arrived' = arrived /\ closed' = closed /\ emitted' = emitted /\ failed' = failed
  BY <1>1 DEF Finally, outcomes
<1>5. /\ preparing \subseteq preparing'
      /\ ToSet(started') \ preparing' \subseteq ToSet(started) \ preparing
  <2>1. CASE closed
    BY <1>1, <2>1 DEF Finally
  <2>2. CASE ~closed
    <3>1. /\ Drain(queue, Cardinality(Inflight \ {e})) /\ e \in Inflight
          /\ config \in [inflight : InflightLimits, size : QueueSizes, policy : Policies]
          /\ started \in Seq(Events) /\ Sorted(queue) /\ queue \in Seq(Events) /\ Bounded
      BY <1>1, <2>2 DEF Finally, InflightAfter, QInv, TypeOK, InOrder, Inflight
    <3>2. /\ IsFiniteSet(Inflight \ {e})
          /\ Cardinality(Inflight \ {e}) = Cardinality(Inflight) - 1
      BY <1>2, <3>1, FS_RemoveElement
    <3>3. Cardinality(Inflight \ {e}) \in Nat
      BY <3>2, FS_CardinalityType
    <3>4. Cardinality(Inflight) <= config.inflight
      BY <3>1 DEF Bounded
    <3>5. Cardinality(Inflight \ {e}) <= config.inflight
      BY <1>2, <3>2, <3>3, <3>4
    <3>6. PICK F \in SUBSET Events :
             preparing' = preparing \cup F /\ ToSet(started') = ToSet(started) \cup F
      BY <3>1, <3>3, <3>5, DrainStarts
    <3> QED
      BY <3>6
  <2> QED
    BY <2>1, <2>2
<1>6. MemoryTypeOK'
  BY <1>1, <1>4, <1>5 DEF MemoryTypeOK
<1>7. Bound'
  BY <1>1 DEF Bound
<1>8. Passed' = Passed /\ Caused' = Caused
  BY <1>1, <1>4 DEF Passed, Caused
<1> DEFINE N == {}
<1>9. N \in SUBSET (1..arrived)
  OBVIOUS
<1> QED
  BY <1>1, <1>3, <1>4, <1>5, <1>6, <1>7, <1>8, <1>9, MemoryKeeps

\* The oldest live id expires, or the trigger closes.
LEMMA OthersKeep == ASSUME EInv, EntryExpires \/ TriggerCloses PROVE EInv'
<1>1. /\ QInv /\ MemoryTypeOK /\ Bound /\ idOf' = idOf /\ attaching' = attaching
      /\ entries' = entries
  BY DEF EInv, EntryExpires, TriggerCloses, memory
<1>2. QInv'
  <2>1. Close \/ UNCHANGED vars
    BY DEF EntryExpires, TriggerCloses
  <2> QED
    BY <1>1, <2>1, QueueStep DEF Next
<1>3. /\ arrived' = arrived /\ emitted' = emitted /\ failed' = failed
      /\ preparing' = preparing /\ started' = started /\ (closed' = closed \/ closed')
  BY DEF EntryExpires, TriggerCloses, Close, vars, outcomes
<1>4. /\ live \in Seq(EventIds) /\ IsInjective(live) /\ forgotten \subseteq EventIds
      /\ closed \in BOOLEAN
  BY <1>1 DEF MemoryTypeOK, QInv, TypeOK
<1>5. /\ live' \in Seq(EventIds) /\ IsInjective(live') /\ forgotten' \subseteq EventIds
      /\ forgotten \subseteq forgotten' /\ ToSet(live') \subseteq ToSet(live)
      /\ ToSet(live) \cup forgotten \subseteq ToSet(live') \cup forgotten'
  <2>1. CASE EntryExpires
    <3>1. live' = Tail(live) /\ forgotten' = forgotten \cup {Head(live)} /\ live # <<>>
      BY <2>1 DEF EntryExpires
    <3>2. Len(live) # 0
      BY <1>4, <3>1, EmptySeq
    <3>3. /\ Tail(live) \in Seq(EventIds) /\ Head(live) \in EventIds
          /\ ToSet(live) = {Head(live)} \cup ToSet(Tail(live)) /\ IsInjective(Tail(live))
      BY <1>4, <3>2, TailSet
    <3> QED
      BY <1>4, <3>1, <3>3
  <2>2. CASE TriggerCloses
    BY <1>4, <2>2 DEF TriggerCloses, memory
  <2> QED
    BY <2>1, <2>2
<1>6. MemoryTypeOK'
  BY <1>1, <1>3, <1>5 DEF MemoryTypeOK
<1>7. Bound'
  BY <1>1, <1>5 DEF Bound
<1>8. Passed' = Passed /\ Caused' = Caused
  BY <1>1, <1>3 DEF Passed, Caused
<1> DEFINE N == {}
<1>9. N \in SUBSET (1..arrived)
  OBVIOUS
<1> QED
  BY <1>1, <1>2, <1>3, <1>5, <1>6, <1>7, <1>8, <1>9, MemoryKeeps

\* A trigger that was just activated.
LEMMA TriggerBegins == ASSUME TriggerInit PROVE EInv
<1>1. /\ Init /\ idOf = <<>> /\ attaching = {}
      /\ entries = <<>> /\ live = <<>> /\ forgotten = {}
      /\ arrived = 0 /\ emitted = <<>> /\ started = <<>> /\ failed = {} /\ preparing = {}
  BY DEF TriggerInit, Init
<1>2. QInv
  BY <1>1, QueueInit
<1>3. /\ \A S : <<>> \in Seq(S)
      /\ Len(<<>>) = 0 /\ DOMAIN <<>> = {} /\ ToSet(<<>>) = {} /\ IsInjective(<<>>)
  <2>1. <<>> \in Seq({}) /\ Len(<<>>) = 0
    BY EmptySeq
  <2>2. DOMAIN <<>> = {}
    BY <2>1, LenProperties
  <2> QED
    BY <2>1, <2>2, EmptySeq DEF ToSet, IsInjective
<1>4. MemoryTypeOK
  <2>1. /\ idOf \in Seq(EventIds) /\ entries \in Seq(EventIds) /\ live \in Seq(EventIds)
        /\ IsInjective(live)
    BY <1>1, <1>3, Zenon
  <2> QED
    BY <1>1, <1>3, <2>1 DEF MemoryTypeOK
<1>5. Bound
  BY <1>1, <1>3, TriggerEventsAssumption DEF Bound
<1>6. Passed = {} /\ ToSet(live) = {} /\ ToSet(started) = {}
  BY <1>1, <1>3 DEF Passed
<1> QED
  BY <1>2, <1>4, <1>5, <1>6 DEF EInv, PassedKnown, PassedOnce, LiveCaused, SilentCaused

\* Every handler of the trigger preserves its invariant.
LEMMA TriggerStep == ASSUME EInv, [TriggerNext]_tvars PROVE EInv'
<1>1. CASE \E id \in EventIds : Arrives(id)
  BY <1>1, ArrivesKeeps
<1>2. CASE \E e \in 1..arrived : Works(e)
  BY <1>2, DecodedKeeps, EndsKeeps, TaskFinallyKeeps DEF Works
<1>3. CASE EntryExpires \/ TriggerCloses
  BY <1>3, OthersKeep
<1>4. CASE UNCHANGED tvars
  <2>1. /\ UNCHANGED vars /\ idOf' = idOf /\ attaching' = attaching
        /\ entries' = entries /\ live' = live /\ forgotten' = forgotten
    BY <1>4 DEF tvars, memory
  <2>2. QInv'
    BY <2>1, QueueStep DEF EInv
  <2>3. /\ arrived' = arrived /\ emitted' = emitted /\ failed' = failed
        /\ preparing' = preparing /\ started' = started /\ closed' = closed
    BY <2>1 DEF vars, outcomes
  <2>4. MemoryTypeOK' /\ Bound'
    BY <2>1, <2>3 DEF EInv, MemoryTypeOK, Bound
  <2>5. Passed' = Passed /\ Caused' = Caused
    BY <2>1, <2>3 DEF Passed, Caused
  <2>6. PassedKnown' /\ PassedOnce'
    BY <2>1, <2>5 DEF EInv, PassedKnown, PassedOnce
  <2>7. LiveCaused' /\ SilentCaused'
    BY <2>1, <2>3, <2>5 DEF EInv, LiveCaused, SilentCaused
  <2> QED
    BY <2>2, <2>4, <2>6, <2>7 DEF EInv
<1> QED
  BY <1>1, <1>2, <1>3, <1>4 DEF TriggerNext

\* The invariant of the trigger holds in every state of its specification.
THEOREM TriggerInvariance == TriggerSpec => []EInv
<1>1. TriggerInit => EInv
  BY TriggerBegins
<1>2. EInv /\ [TriggerNext]_tvars => EInv'
  BY TriggerStep
<1> QED
  BY <1>1, <1>2, PTL DEF TriggerSpec

\* Each id has one fate while it is remembered: an item for it reaches the workflow again
\* only after the id was forgotten, also across sockets, and an event vanishes without an
\* item or an error only for another event of its id (createEventIdDedupe).
LEMMA OneFate == ASSUME EInv PROVE EachEventOnce
<1>1. /\ Bound /\ PassedOnce /\ SilentCaused /\ attaching \subseteq preparing
      /\ IsInjective(emitted)
  BY DEF EInv, QInv, InPlace, MemoryTypeOK
<1>2. ASSUME NEW i \in DOMAIN emitted, NEW j \in DOMAIN emitted, i # j,
             idOf[emitted[i]] = idOf[emitted[j]]
      PROVE  idOf[emitted[i]] \in forgotten
  <2>1. emitted[i] # emitted[j]
    BY <1>1, <1>2 DEF IsInjective
  <2>2. emitted[i] \in Passed /\ emitted[j] \in Passed
    BY DEF Passed, ToSet
  <2> QED
    BY <1>1, <1>2, <2>1, <2>2 DEF PassedOnce
<1>3. EmittedOncePerId
  BY <1>1, <1>2 DEF EmittedOncePerId, Bound
<1>4. ASSUME ~closed, NEW e \in ToSet(started) \ Inflight, e \notin ToSet(emitted) \cup failed
      PROVE  \E k \in (ToSet(emitted) \cup failed \cup preparing) \ {e} : idOf[k] = idOf[e]
  <2>1. PICK k \in Caused \ {e} : idOf[k] = idOf[e]
    BY <1>1, <1>4 DEF SilentCaused, Inflight
  <2> QED
    BY <1>1, <2>1 DEF Caused, Passed
<1>5. NothingSilent
  BY <1>4 DEF NothingSilent
<1> QED
  BY <1>3, <1>5 DEF EachEventOnce

\* Each event of a redelivering publisher has its one fate.
THEOREM EventsOnce == TriggerSpec => []EachEventOnce
<1>1. EInv => EachEventOnce
  BY OneFate
<1> QED
  BY <1>1, TriggerInvariance, PTL

--------------------------------------------------------------------------------
(* The connection.                                                         *)

\* A flow that connects or whose session is open: it may hold a socket.
Driving(f) == InLoop(f) \/ pc[f] \in {"open", "closing"}

\* The flag of the manager says whether a flow is connecting, and at most one flow drives
\* the trigger.
LoopFlag == loopActive <=> \E f \in Flows : InLoop(f)
OneDriving == \A f, g \in Flows : Driving(f) /\ Driving(g) => f = g

\* A reconnect timer is armed while nothing else drives the trigger, and exactly while
\* `reconnecting` says so, until the trigger is closed.
TimerAlone ==
    /\ timer => ~sessionClosed /\ reconnecting /\ \A f \in Flows : ~Driving(f)
    /\ ~sessionClosed /\ reconnecting => timer

\* The session of the node is the one flow that has opened one.
SessionOfFlow == \A f \in Flows : session = f <=> pc[f] \in {"open", "closing", "discarding"}

\* The first flow is the activation, which has ended before closeFunction can be called.
Stages ==
    /\ sessionClosed => ~InLoop(1)
    /\ \A f \in Flows : /\ pc[f] = "idle" <=> f > flows
                        /\ pc[f] = "open" => ~sessionClosed
                        /\ pc[f] \in {"closing", "discarding"} => sessionClosed

\* A flow that drives the trigger holds a socket, and no other does.
SocketsHeld ==
    \A f \in Flows :
        /\ link[f] # "none" <=> Driving(f) /\ pc[f] \notin {"login", "delay"}
        /\ link[f] = "down" => pc[f] \in {"decoding", "subscribing", "open"} \cup PlugErrors

\* A trigger that was told nothing is driven by something.
Driven == ~sessionClosed /\ reported = 0 => loopActive \/ timer \/ session # 0

\* Each flow but the first was started for a fault of its own, and so is the timer armed.
Unpaid == \E f \in Flows : pc[f] \in PlugErrors \/ link[f] = "down"
FaultsPaid ==
    flows + (IF timer THEN 1 ELSE 0) + (IF Unpaid THEN 1 ELSE 0) <= faults + 1

IInv ==
    /\ SessionTypeOK
    /\ LoopFlag
    /\ OneDriving
    /\ TimerAlone
    /\ SessionOfFlow
    /\ Stages
    /\ SocketsHeld
    /\ Driven
    /\ FaultsPaid

--------------------------------------------------------------------------------
Looping == {"login", "waiting", "decoding", "subscribing", "discarding", "delay"} \cup PlugErrors
Stays == {"open", "closing", "discarding"}

\* What a step does that moves flow f to p, its socket to l: what becomes of the session and
\* of the loop, where a flow may go, what becomes of the timer, and the counters.
FlowMoves(f, p, l) ==
    /\ Driving(f)
    /\ pc' = [pc EXCEPT ![f] = p] /\ link' = [link EXCEPT ![f] = l]
    /\ flows' = flows /\ sessionClosed' \in BOOLEAN
    /\ session' = IF p \in Stays THEN f ELSE 0
    /\ loopActive' \in BOOLEAN /\ (loopActive' <=> p \in Looping)

FlowAllowed(f, p, l) ==
    /\ p \in Looping \cup {"open", "closing", "ended", "failed"}
    /\ l \in {"none", "up", "down"}
    /\ sessionClosed' /\ f = 1 => p \notin Looping
    /\ p = "open" => ~sessionClosed'
    /\ p \in {"closing", "discarding"} => sessionClosed'
    /\ l # "none" <=> p \in (Looping \cup {"open", "closing"}) \ {"login", "delay"}
    /\ l = "down" => p \in {"decoding", "subscribing", "open"} \cup PlugErrors

FlowDriven(p) ==
    /\ timer' \in BOOLEAN /\ reconnecting' \in BOOLEAN
    /\ timer' => ~sessionClosed' /\ reconnecting' /\ p \in {"ended", "failed"}
    /\ ~sessionClosed' /\ reconnecting' => timer'
    /\ ~sessionClosed' /\ reported' = 0 => p \in Looping \cup {"open"} \/ timer'

FlowCounts(p, l) ==
    /\ attempts' \in Nat /\ (MaxAttempts > 0 => attempts' <= MaxAttempts)
    /\ failures' \in Nat /\ reported' \in Nat /\ faults' \in 0..MaxFaults
    /\ flows + (IF timer' THEN 1 ELSE 0)
          + (IF p \in PlugErrors \/ l = "down" THEN 1 ELSE 0) <= faults' + 1

FlowStep(f, p, l) == FlowMoves(f, p, l) /\ FlowAllowed(f, p, l) /\ FlowDriven(p) /\ FlowCounts(p, l)

\* What the invariant says of a flow that drives the trigger: it is the only one.
LEMMA Alone ==
    ASSUME IInv, NEW f \in Flows, Driving(f)
    PROVE  /\ \A g \in Flows \ {f} : /\ ~Driving(g) /\ ~InLoop(g) /\ pc[g] \notin Stays
                                     /\ pc[g] \notin PlugErrors /\ link[g] = "none"
           /\ ~timer /\ f \in 1..flows
           /\ session = IF pc[f] \in Stays THEN f ELSE 0
           /\ loopActive = InLoop(f)
           /\ ~sessionClosed => ~reconnecting
           /\ sessionClosed /\ InLoop(f) => f # 1
           /\ Unpaid <=> pc[f] \in PlugErrors \/ link[f] = "down"
<1>1. \A g \in Flows \ {f} : ~Driving(g)
  BY DEF IInv, OneDriving
<1>2. \A g \in Flows \ {f} : /\ ~InLoop(g) /\ pc[g] \notin Stays
                             /\ pc[g] \notin PlugErrors /\ link[g] = "none"
  BY <1>1 DEF Driving, InLoop, Stays, IInv, SocketsHeld
<1>3. ~timer
  BY DEF IInv, TimerAlone
<1>4. f \in 1..flows
  <2>1. pc[f] # "idle" /\ flows \in Flows
    BY DEF Driving, InLoop, PlugErrors, IInv, SessionTypeOK
  <2> QED
    BY <2>1, TriggerAssumption DEF IInv, Stages, Flows
<1>5. session = IF pc[f] \in Stays THEN f ELSE 0
  <2>1. CASE pc[f] \in Stays
    BY <2>1 DEF Stays, IInv, SessionOfFlow
  <2>2. CASE pc[f] \notin Stays
    <3>1. \A g \in Flows : session # g
      BY <1>2, <2>2 DEF Stays, IInv, SessionOfFlow
    <3>2. session \in 0..flows /\ flows \in Flows
      BY DEF IInv, SessionTypeOK
    <3> QED
      BY <2>2, <3>1, <3>2, TriggerAssumption DEF Flows
  <2> QED
    BY <2>1, <2>2
<1>6. loopActive = InLoop(f)
  <2>1. loopActive \in BOOLEAN /\ InLoop(f) \in BOOLEAN
    BY DEF IInv, SessionTypeOK, InLoop
  <2>2. loopActive <=> InLoop(f)
    BY <1>2 DEF IInv, LoopFlag
  <2> QED
    BY <2>1, <2>2
<1>7. ~sessionClosed => ~reconnecting
  BY <1>3 DEF IInv, TimerAlone
<1>8. sessionClosed /\ InLoop(f) => f # 1
  BY DEF IInv, Stages
<1>9. Unpaid <=> pc[f] \in PlugErrors \/ link[f] = "down"
  BY <1>2 DEF Unpaid
<1> QED
  BY <1>1, <1>2, <1>3, <1>4, <1>5, <1>6, <1>7, <1>8, <1>9

\* A step of one flow keeps the invariant.
LEMMA FlowStepKeeps ==
    ASSUME IInv, NEW f \in Flows, NEW p, NEW l, FlowStep(f, p, l) PROVE IInv'
<1>1. /\ pc \in [Flows -> {"idle", "login", "waiting", "decoding", "subscribing", "delay", "open",
                           "closing", "discarding", "ended", "failed"} \cup PlugErrors]
      /\ link \in [Flows -> {"none", "up", "down"}]
      /\ flows \in Flows /\ session \in 0..flows /\ sessionClosed \in BOOLEAN
  BY DEF IInv, SessionTypeOK
<1>2. /\ \A g \in Flows \ {f} : /\ ~Driving(g) /\ ~InLoop(g) /\ pc[g] \notin Stays
                                /\ pc[g] \notin PlugErrors /\ link[g] = "none"
      /\ f \in 1..flows
  BY Alone DEF FlowStep, FlowMoves, FlowAllowed, FlowDriven, FlowCounts
<1>3. /\ pc'[f] = p /\ link'[f] = l
      /\ \A g \in Flows \ {f} : pc'[g] = pc[g] /\ link'[g] = link[g]
      /\ flows' = flows /\ sessionClosed' \in BOOLEAN
  BY <1>1 DEF FlowStep, FlowMoves, FlowAllowed, FlowDriven, FlowCounts
<1>4. \A g \in Flows \ {f} : ~Driving(g)' /\ ~InLoop(g)'
  BY <1>2, <1>3 DEF Driving, InLoop
<1>5. /\ InLoop(f)' <=> p \in Looping
      /\ Driving(f)' <=> p \in Looping \cup {"open", "closing"}
  BY <1>3 DEF InLoop, Driving, Looping
<1>6. SessionTypeOK'
  <2>1. p \in {"idle", "login", "waiting", "decoding", "subscribing", "delay", "open",
               "closing", "discarding", "ended", "failed"} \cup PlugErrors
    BY DEF FlowStep, FlowMoves, FlowAllowed, FlowDriven, FlowCounts, Looping
  <2>2. /\ pc' \in [Flows -> {"idle", "login", "waiting", "decoding", "subscribing", "delay",
                              "open", "closing", "discarding", "ended", "failed"} \cup PlugErrors]
        /\ link' \in [Flows -> {"none", "up", "down"}]
    BY <1>1, <2>1 DEF FlowStep, FlowMoves, FlowAllowed, FlowDriven, FlowCounts
  <2>3. session' \in 0..flows'
    BY <1>1, <1>2, <1>3, TriggerAssumption DEF FlowStep, FlowMoves, FlowAllowed, FlowDriven, FlowCounts, Flows
  <2>4. loopActive' \in BOOLEAN
    BY DEF FlowStep, FlowMoves, FlowAllowed, FlowDriven, FlowCounts
  <2> QED
    BY <1>1, <1>3, <2>2, <2>3, <2>4 DEF FlowStep, FlowMoves, FlowAllowed, FlowDriven, FlowCounts, SessionTypeOK
<1>7. LoopFlag' /\ OneDriving'
  BY <1>3, <1>4, <1>5 DEF FlowStep, FlowMoves, FlowAllowed, FlowDriven, FlowCounts, LoopFlag, OneDriving, Flows
<1>8. TimerAlone'
  <2>1. p \in {"ended", "failed"} => p \notin Looping \cup {"open", "closing"}
    BY DEF Looping, PlugErrors
  <2> QED
    BY <1>3, <1>4, <1>5, <2>1 DEF FlowStep, FlowMoves, FlowAllowed, FlowDriven, FlowCounts, TimerAlone, Flows
<1>9. SessionOfFlow'
  BY <1>2, <1>3, TriggerAssumption DEF FlowStep, FlowMoves, FlowAllowed, FlowDriven, FlowCounts, SessionOfFlow, Stays, Flows
<1>10. Stages'
  <2>1. sessionClosed' => ~InLoop(1)'
    <3>1. 1 \in Flows
      BY TriggerAssumption DEF Flows
    <3> QED
      BY <1>4, <1>5, <3>1 DEF FlowStep, FlowMoves, FlowAllowed, FlowDriven, FlowCounts
  <2>2. p # "idle"
    BY DEF FlowStep, FlowMoves, FlowAllowed, FlowDriven, FlowCounts, Looping, PlugErrors
  <2>3. ASSUME NEW g \in Flows
        PROVE  /\ pc'[g] = "idle" <=> g > flows
               /\ pc'[g] = "open" => ~sessionClosed'
               /\ pc'[g] \in {"closing", "discarding"} => sessionClosed'
    <3>1. CASE g = f
      BY <1>1, <1>2, <1>3, <2>2, <3>1 DEF FlowStep, FlowMoves, FlowAllowed, FlowDriven, FlowCounts, Flows
    <3>2. CASE g # f
      BY <1>2, <1>3, <3>2 DEF IInv, Stages, Stays
    <3> QED
      BY <3>1, <3>2
  <2> QED
    BY <1>3, <2>1, <2>3 DEF Stages, Flows
<1>11. SocketsHeld'
  <2>1. ASSUME NEW g \in Flows
        PROVE  /\ link'[g] # "none" <=> Driving(g)' /\ pc'[g] \notin {"login", "delay"}
               /\ link'[g] = "down" => pc'[g] \in {"decoding", "subscribing", "open"} \cup PlugErrors
    <3>1. CASE g = f
      BY <1>3, <1>5, <3>1 DEF FlowStep, FlowMoves, FlowAllowed, FlowDriven, FlowCounts
    <3>2. CASE g # f
      BY <1>2, <1>3, <1>4, <3>2
    <3> QED
      BY <3>1, <3>2
  <2> QED
    BY <2>1 DEF SocketsHeld, Flows
<1>12. Driven'
  <2>1. p \in {"open"} => session' = f /\ f # 0
    BY <1>2, TriggerAssumption DEF FlowStep, FlowMoves, FlowAllowed, FlowDriven, FlowCounts, Stays, Flows
  <2>2. p \in Looping => loopActive'
    BY DEF FlowStep, FlowMoves, FlowAllowed, FlowDriven, FlowCounts
  <2>3. ~sessionClosed' /\ reported' = 0 => p \in Looping \/ p = "open" \/ timer'
    BY DEF FlowStep, FlowMoves, FlowAllowed, FlowDriven, FlowCounts
  <2> QED
    BY <1>3, <2>1, <2>2, <2>3 DEF Driven
<1>13. FaultsPaid'
  <2>1. Unpaid' <=> p \in PlugErrors \/ l = "down"
    BY <1>2, <1>3 DEF Unpaid, Flows
  <2> QED
    BY <1>3, <2>1 DEF FlowStep, FlowMoves, FlowAllowed, FlowDriven, FlowCounts, FaultsPaid
<1> QED
  BY <1>6, <1>7, <1>8, <1>9, <1>10, <1>11, <1>12, <1>13 DEF IInv

\* The catch of connectWithRetry: the loop goes on after a delay, or hands over to the
\* timer or to the workflow.
LEMMA ConnectFailsEffect ==
    ASSUME IInv, NEW f \in Flows, InLoop(f), NEW kind \in Kinds, ConnectFails(f, kind)
    PROVE  \E p \in {"failed", "ended", "delay"} :
              /\ pc' = [pc EXCEPT ![f] = p]
              /\ loopActive' \in BOOLEAN /\ (loopActive' <=> p = "delay")
              /\ timer' \in BOOLEAN /\ reconnecting' \in BOOLEAN
              /\ timer' => ~sessionClosed /\ reconnecting' /\ p # "delay"
              /\ ~sessionClosed /\ reconnecting' => timer'
              /\ ~sessionClosed /\ reported' = 0 => p = "delay" \/ timer'
              /\ sessionClosed => reported' = reported /\ p # "delay"
              /\ attempts' \in Nat /\ (MaxAttempts > 0 => attempts' <= MaxAttempts)
              /\ failures' \in Nat /\ reported' \in Nat
<1>1. /\ ~timer /\ loopActive = TRUE /\ (~sessionClosed => ~reconnecting) /\ (sessionClosed => f # 1)
  <2>1. Driving(f)
    BY DEF Driving
  <2> QED
    BY <2>1, Alone DEF InLoop
<1>2. /\ timer \in BOOLEAN /\ reconnecting \in BOOLEAN /\ sessionClosed \in BOOLEAN
      /\ attempts \in Nat /\ failures \in Nat /\ reported \in Nat
      /\ (MaxAttempts > 0 => attempts <= MaxAttempts)
  BY DEF IInv, SessionTypeOK
<1>3. ASSUME NEW k \in Kinds \cup {"circuit"}, FlowThrows(f, k), k = "circuit" => ~sessionClosed
      PROVE  \E p \in {"failed", "ended"} :
                /\ pc' = [pc EXCEPT ![f] = p]
                /\ loopActive' = FALSE
                /\ timer' \in BOOLEAN /\ reconnecting' \in BOOLEAN
                /\ timer' => ~sessionClosed /\ reconnecting'
                /\ ~sessionClosed /\ reconnecting' => timer'
                /\ ~sessionClosed /\ reported' = 0 => timer'
                /\ sessionClosed => reported' = reported
                /\ reported' \in Nat
  <2>1. CASE f = 1 \/ k = "circuit"
    <3>1. /\ ~sessionClosed /\ timer' = timer /\ reconnecting' = reconnecting /\ reported' = reported + 1
          /\ loopActive' = FALSE
          /\ pc' = [pc EXCEPT ![f] = IF f = 1 THEN "failed" ELSE "ended"]
      BY <1>1, <1>3, <2>1 DEF FlowThrows
    <3>2. reported' \in Nat /\ reported' # 0
      BY <1>2, <3>1
    <3> QED
      BY <1>1, <1>2, <3>1, <3>2
  <2>2. CASE ~(f = 1 \/ k = "circuit") /\ Suppressed(FALSE)
    <3>1. /\ timer' = timer /\ reconnecting' = reconnecting /\ reported' = reported
          /\ loopActive' = FALSE
          /\ pc' = [pc EXCEPT ![f] = IF f = 1 THEN "failed" ELSE "ended"]
      BY <1>3, <2>2 DEF FlowThrows
    <3>2. sessionClosed
      BY <1>1, <2>2 DEF Suppressed
    <3> QED
      BY <1>1, <1>2, <3>1, <3>2
  <2>3. CASE ~(f = 1 \/ k = "circuit") /\ ~Suppressed(FALSE)
    <3>1. /\ ScheduleReconnect(IF k = "unknown" THEN "retryable" ELSE k) /\ loopActive' = FALSE
          /\ pc' = [pc EXCEPT ![f] = IF f = 1 THEN "failed" ELSE "ended"]
      BY <1>3, <2>3 DEF FlowThrows
    <3>2. ~sessionClosed
      BY <2>3 DEF Suppressed
    <3>3. \/ timer' = timer /\ reconnecting' = FALSE /\ reported' = reported + 1
          \/ timer' = TRUE /\ reconnecting' = TRUE /\ reported' = reported
      BY <3>1 DEF ScheduleReconnect
    <3>4. reported' \in Nat /\ (reported' = reported + 1 => reported' # 0)
      BY <1>2, <3>3
    <3>5. /\ timer' \in BOOLEAN /\ reconnecting' \in BOOLEAN
          /\ timer' => ~sessionClosed /\ reconnecting'
          /\ ~sessionClosed /\ reconnecting' => timer'
          /\ ~sessionClosed /\ reported' = 0 => timer'
      <4>1. CASE timer' = timer /\ reconnecting' = FALSE /\ reported' = reported + 1
        BY <1>1, <1>2, <3>4, <4>1
      <4>2. CASE timer' = TRUE /\ reconnecting' = TRUE
        BY <3>2, <4>2
      <4> QED
        BY <3>3, <4>1, <4>2
    <3> QED
      BY <3>1, <3>2, <3>4, <3>5
  <2> QED
    BY <2>1, <2>2, <2>3
<1>4. CASE GivesUp(kind)
  <2>1. FlowThrows(f, kind) /\ attempts' = attempts /\ failures' = failures
    BY <1>4 DEF ConnectFails
  <2>2. kind # "circuit"
    BY DEF Kinds, PlugErrors
  <2> QED
    BY <1>2, <1>3, <2>1, <2>2
<1>5. CASE ~GivesUp(kind) /\ CircuitOpens
  <2>1. /\ FlowThrows(f, "circuit") /\ attempts' = attempts
        /\ failures' = failures + (IF f = 1 THEN 1 ELSE 2)
    BY <1>5 DEF ConnectFails
  <2>2. failures' \in Nat
    BY <1>2, <2>1
  <2>3. ~sessionClosed
    BY <1>5 DEF GivesUp
  <2> QED
    BY <1>2, <1>3, <2>1, <2>2, <2>3
<1>6. CASE ~GivesUp(kind) /\ ~CircuitOpens
  <2>1. /\ pc' = [pc EXCEPT ![f] = "delay"]
        /\ attempts' = attempts + 1
        /\ failures' = (IF MaxFailures > 0 THEN failures + 1 ELSE failures)
        /\ timer' = timer /\ reconnecting' = reconnecting /\ loopActive' = loopActive
        /\ reported' = reported
    BY <1>6 DEF ConnectFails
  <2>2. failures' \in Nat /\ attempts' \in Nat
    BY <1>2, <2>1
  <2>3. ~sessionClosed /\ ~(MaxAttempts > 0 /\ attempts >= MaxAttempts)
    BY <1>6 DEF GivesUp, Exhausted
  <2>4. MaxAttempts > 0 => attempts' <= MaxAttempts
    BY <1>2, <2>1, <2>3, TriggerAssumption
  <2> QED
    BY <1>1, <1>2, <2>1, <2>2, <2>3, <2>4
<1> QED
  BY <1>4, <1>5, <1>6

\* What two of the counts come to, when the fault that ended a flow is counted.
LEMMA CountsFit ==
    ASSUME NEW n \in Nat, NEW m \in Nat, NEW t \in {0, 1}, NEW u \in {0, 1},
           \/ n <= m /\ u = 0
           \/ n + u <= m + 1 /\ t = 0
    PROVE  n + t + u <= m + 1
OBVIOUS

\* Two counters that grow together keep their order.
LEMMA Bump == ASSUME NEW n \in Nat, NEW m \in Nat, n <= m PROVE n + 1 <= m + 1
OBVIOUS

\* A flow whose connection failed gives up its socket.
LEMMA ConnectFailsKeeps ==
    ASSUME IInv, NEW f \in Flows, InLoop(f), pc[f] # "discarding", NEW kind \in Kinds,
           ConnectFails(f, kind), link' = Dropped(link, f),
           UNCHANGED <<flows, session, sessionClosed>>,
           faults' \in 0..MaxFaults, flows <= faults'
    PROVE  IInv'
<1>1. PICK p \in {"failed", "ended", "delay"} :
              /\ pc' = [pc EXCEPT ![f] = p]
              /\ loopActive' \in BOOLEAN /\ (loopActive' <=> p = "delay")
              /\ timer' \in BOOLEAN /\ reconnecting' \in BOOLEAN
              /\ timer' => ~sessionClosed /\ reconnecting' /\ p # "delay"
              /\ ~sessionClosed /\ reconnecting' => timer'
              /\ ~sessionClosed /\ reported' = 0 => p = "delay" \/ timer'
              /\ sessionClosed => reported' = reported /\ p # "delay"
              /\ attempts' \in Nat /\ (MaxAttempts > 0 => attempts' <= MaxAttempts)
              /\ failures' \in Nat /\ reported' \in Nat
  BY ConnectFailsEffect
<1>2. Driving(f) /\ session = 0 /\ flows \in Nat /\ sessionClosed \in BOOLEAN /\ sessionClosed' \in BOOLEAN
  <2>1. Driving(f) /\ pc[f] \notin Stays
    BY DEF Driving, InLoop, Stays, PlugErrors
  <2> QED
    BY <2>1, Alone DEF IInv, SessionTypeOK, Flows
<1>3. /\ p \notin Stays /\ (p \in Looping <=> p = "delay") /\ p \notin PlugErrors
      /\ p \in Looping \cup {"open", "closing", "ended", "failed"}
  BY DEF Looping, Stays, PlugErrors
<1>4. loopActive' \in BOOLEAN /\ (loopActive' <=> p \in Looping)
  BY <1>1, <1>3
<1>5. FlowStep(f, p, "none")
  <2>1. FlowMoves(f, p, "none")
    BY <1>1, <1>2, <1>3, <1>4 DEF FlowMoves, Dropped
  <2>2. FlowAllowed(f, p, "none")
    BY <1>1, <1>3 DEF FlowAllowed
  <2>3. FlowDriven(p)
    BY <1>1, <1>3 DEF FlowDriven
  <2>4. FlowCounts(p, "none")
    <3> DEFINE t == IF timer' THEN 1 ELSE 0
    <3> DEFINE u == IF p \in PlugErrors \/ "none" = "down" THEN 1 ELSE 0
    <3>1. t \in {0, 1}
      OBVIOUS
    <3>2. u = 0
      BY <1>3
    <3>3. faults' \in Nat
      BY TriggerAssumption
    <3> HIDE DEF t, u
    <3>4. flows + t + u <= faults' + 1
      BY <1>2, <3>1, <3>2, <3>3, CountsFit
    <3>5. flows + (IF timer' THEN 1 ELSE 0)
             + (IF p \in PlugErrors \/ "none" = "down" THEN 1 ELSE 0) <= faults' + 1
      BY <3>4 DEF t, u
    <3>6. /\ attempts' \in Nat /\ (MaxAttempts > 0 => attempts' <= MaxAttempts)
          /\ failures' \in Nat /\ reported' \in Nat /\ faults' \in 0..MaxFaults
      BY <1>1
    <3> QED
      BY <3>5, <3>6 DEF FlowCounts
  <2> QED
    BY <2>1, <2>2, <2>3, <2>4 DEF FlowStep
<1> QED
  BY <1>5, FlowStepKeeps

\* A flow goes on with its connection.
LEMMA LoopStepKeeps ==
    ASSUME IInv, NEW f \in Flows, InLoop(f), pc[f] # "discarding",
           NEW p \in Looping \ {"discarding"}, NEW l \in {"none", "up", "down"},
           pc' = [pc EXCEPT ![f] = p], link' = [link EXCEPT ![f] = l],
           UNCHANGED <<flows, session, manager, sessionClosed, reported>>,
           l # "none" <=> p \notin {"login", "delay"},
           l = "down" => p \in {"decoding", "subscribing"} \cup PlugErrors,
           faults' \in 0..MaxFaults,
           flows + (IF p \in PlugErrors \/ l = "down" THEN 1 ELSE 0) <= faults' + 1
    PROVE  IInv'
<1>1. /\ Driving(f) /\ session = 0 /\ ~timer /\ loopActive = TRUE
      /\ (~sessionClosed => ~reconnecting) /\ (sessionClosed => f # 1)
  <2>1. Driving(f) /\ pc[f] \notin Stays
    BY DEF Driving, InLoop, Stays, PlugErrors
  <2> QED
    BY <2>1, Alone DEF InLoop
<1>2. /\ p \notin Stays /\ p \in Looping /\ p \notin {"open", "closing", "ended", "failed"}
  BY DEF Looping, Stays, PlugErrors
<1>3. /\ flows' = flows /\ sessionClosed' = sessionClosed /\ session' = session /\ loopActive' = TRUE
      /\ timer' = FALSE /\ reconnecting' = reconnecting /\ reported' = reported
      /\ attempts' = attempts /\ failures' = failures
  BY <1>1 DEF manager, counters, IInv, SessionTypeOK
<1>4. /\ attempts' \in Nat /\ (MaxAttempts > 0 => attempts' <= MaxAttempts)
      /\ failures' \in Nat /\ reported' \in Nat /\ reconnecting' \in BOOLEAN /\ flows \in Nat
      /\ sessionClosed \in BOOLEAN /\ sessionClosed' \in BOOLEAN
  BY <1>3 DEF IInv, SessionTypeOK, Flows
<1>5. FlowStep(f, p, l)
  <2>1. FlowMoves(f, p, l)
    BY <1>1, <1>2, <1>3, <1>4 DEF FlowMoves
  <2>2. FlowAllowed(f, p, l)
    <3>1. p = "open" => ~sessionClosed
      BY <1>2
    <3>2. p \in {"closing", "discarding"} => sessionClosed
      BY <1>2
    <3>3. sessionClosed /\ f = 1 => p \notin Looping
      BY <1>1
    <3> QED
      BY <1>2, <3>1, <3>2, <3>3 DEF FlowAllowed
  <2>3. FlowDriven(p)
    <3>1. (sessionClosed' <=> sessionClosed) /\ (reconnecting' <=> reconnecting)
      <4>1. reconnecting \in BOOLEAN
        BY DEF IInv, SessionTypeOK
      <4> QED
        BY <1>3, <1>4, <4>1
    <3>2. timer' \in BOOLEAN
      BY <1>3, Zenon
    <3>3. ~timer'
      BY <1>3, <3>2
    <3> QED
      BY <1>1, <1>2, <1>4, <3>1, <3>2, <3>3 DEF FlowDriven
  <2>4. FlowCounts(p, l)
    <3> DEFINE t == IF timer' THEN 1 ELSE 0
    <3> DEFINE u == IF p \in PlugErrors \/ l = "down" THEN 1 ELSE 0
    <3>1. t = 0
      BY <1>3
    <3>2. u \in {0, 1} /\ flows + u <= faults' + 1
      OBVIOUS
    <3>3. faults' \in Nat
      BY TriggerAssumption
    <3> HIDE DEF t, u
    <3>4. flows + t + u <= faults' + 1
      BY <1>4, <3>1, <3>2, <3>3, CountsFit
    <3>5. flows + (IF timer' THEN 1 ELSE 0)
             + (IF p \in PlugErrors \/ l = "down" THEN 1 ELSE 0) <= faults' + 1
      BY <3>4 DEF t, u
    <3> QED
      BY <1>4, <3>5 DEF FlowCounts
  <2> QED
    BY <2>1, <2>2, <2>3, <2>4 DEF FlowStep
<1> QED
  BY <1>5, FlowStepKeeps

\* A connection is made, and its session kept unless the trigger was closed.
LEMMA StartedKeeps ==
    ASSUME IInv, NEW f \in Flows, pc[f] \in {"decoding", "subscribing"}, Started(f),
           UNCHANGED <<flows, sessionClosed, faults>>
    PROVE  IInv'
<1>1. InLoop(f) /\ Driving(f) /\ pc[f] \notin Stays /\ pc[f] \notin PlugErrors
  BY DEF InLoop, Driving, Stays, PlugErrors
<1>2. /\ session = 0 /\ ~timer /\ loopActive = TRUE
      /\ (~sessionClosed => ~reconnecting) /\ (sessionClosed => f # 1)
      /\ Unpaid <=> link[f] = "down"
  BY <1>1, Alone
<1>3. /\ link \in [Flows -> {"none", "up", "down"}] /\ flows \in Nat /\ reported \in Nat
      /\ link[f] # "none"
      /\ attempts \in Nat /\ failures \in Nat /\ faults \in 0..MaxFaults
      /\ (MaxAttempts > 0 => attempts <= MaxAttempts) /\ reconnecting \in BOOLEAN
      /\ timer = FALSE /\ sessionClosed \in BOOLEAN /\ sessionClosed' \in BOOLEAN
  BY <1>1, <1>2 DEF IInv, SessionTypeOK, Flows, SocketsHeld
<1>4. flows + (IF link[f] = "down" THEN 1 ELSE 0) <= faults + 1
  BY <1>2, <1>3 DEF IInv, FaultsPaid
<1>5. CASE Keeps
  <2>1. /\ session' = f /\ pc' = [pc EXCEPT ![f] = "open"] /\ link' = link
        /\ attempts' = 0 /\ failures' = 0 /\ loopActive' = FALSE
        /\ timer' = FALSE /\ reconnecting' = reconnecting /\ reported' = reported
        /\ flows' = flows /\ sessionClosed' = sessionClosed /\ faults' = faults /\ ~sessionClosed
    BY <1>3, <1>5 DEF Started, ConnectResolves, Keeps
  <2>2. link' = [link EXCEPT ![f] = link[f]]
    BY <1>3, <2>1
  <2>3. FlowStep(f, "open", link[f])
    <3>1. "open" \in Stays /\ "open" \notin Looping /\ "open" \notin PlugErrors
      BY DEF Stays, Looping, PlugErrors
    <3>2. loopActive' \in BOOLEAN /\ (loopActive' <=> "open" \in Looping)
      BY <2>1, <3>1
    <3>3. link[f] \in {"up", "down"}
      BY <1>3
    <3>4. FlowMoves(f, "open", link[f])
      BY <1>1, <1>3, <2>1, <2>2, <3>1, <3>2 DEF FlowMoves
    <3>5. FlowAllowed(f, "open", link[f])
      BY <2>1, <3>1, <3>3 DEF FlowAllowed
    <3>6. FlowDriven("open")
      BY <1>2, <1>3, <2>1, <3>1 DEF FlowDriven
    <3>7. FlowCounts("open", link[f])
      BY <1>3, <1>4, <2>1, <3>1, TriggerAssumption DEF FlowCounts
    <3> QED
      BY <3>4, <3>5, <3>6, <3>7 DEF FlowStep
  <2> QED
    BY <2>3, FlowStepKeeps
<1>6. CASE ~Keeps /\ Subscribes /\ link[f] = "up"
  <2>1. /\ session' = f /\ pc' = [pc EXCEPT ![f] = "discarding"] /\ link' = link
        /\ UNCHANGED <<manager, reported>>
        /\ flows' = flows /\ sessionClosed' = sessionClosed /\ faults' = faults /\ sessionClosed
    BY <1>6 DEF Started, Keeps
  <2>2. link' = [link EXCEPT ![f] = "up"]
    BY <1>3, <1>6, <2>1
  <2>3. FlowStep(f, "discarding", "up")
    <3>1. "discarding" \in Stays /\ "discarding" \in Looping /\ "discarding" \notin PlugErrors
      BY DEF Stays, Looping, PlugErrors
    <3>2. /\ attempts' = attempts /\ failures' = failures /\ loopActive' = TRUE
          /\ timer' = FALSE /\ reconnecting' = reconnecting /\ reported' = reported
      BY <1>2, <1>3, <2>1 DEF manager, counters
    <3>3. loopActive' \in BOOLEAN /\ (loopActive' <=> "discarding" \in Looping)
      BY <3>1, <3>2
    <3>4. FlowMoves(f, "discarding", "up")
      BY <1>1, <1>3, <2>1, <2>2, <3>1, <3>3 DEF FlowMoves
    <3>5. FlowAllowed(f, "discarding", "up")
      BY <1>2, <2>1, <3>1 DEF FlowAllowed
    <3>6. FlowDriven("discarding")
      <4>0. timer' \in BOOLEAN
        BY <2>1, <3>2, Zenon
      <4>1. ~timer'
        BY <2>1, <3>2, <4>0
      <4>3. sessionClosed'
        BY <1>3, <2>1
      <4>2. reconnecting' \in BOOLEAN
        BY <1>3, <3>2, Zenon
      <4> QED
        BY <4>0, <4>1, <4>2, <4>3 DEF FlowDriven
    <3>7. FlowCounts("discarding", "up")
      BY <1>3, <1>4, <2>1, <3>1, <3>2 DEF FlowCounts
    <3> QED
      BY <3>4, <3>5, <3>6, <3>7 DEF FlowStep
  <2> QED
    BY <2>3, FlowStepKeeps
<1>7. CASE ~Keeps /\ ~(Subscribes /\ link[f] = "up")
  <2>1. /\ session' = 0 /\ pc' = [pc EXCEPT ![f] = "ended"] /\ link' = [link EXCEPT ![f] = "none"]
        /\ attempts' = 0 /\ failures' = 0 /\ loopActive' = FALSE
        /\ timer' = FALSE /\ reconnecting' = reconnecting /\ reported' = reported
        /\ flows' = flows /\ sessionClosed' = sessionClosed /\ faults' = faults /\ sessionClosed
    BY <1>2, <1>3, <1>7 DEF Started, ConnectResolves, Keeps, Dropped
  <2>2. FlowStep(f, "ended", "none")
    <3>1. "ended" \notin Stays /\ "ended" \notin Looping /\ "ended" \notin PlugErrors
      BY DEF Stays, Looping, PlugErrors
    <3>2. loopActive' \in BOOLEAN /\ (loopActive' <=> "ended" \in Looping)
      BY <2>1, <3>1
    <3>4. FlowMoves(f, "ended", "none")
      BY <1>1, <1>3, <2>1, <3>1, <3>2 DEF FlowMoves
    <3>5. FlowAllowed(f, "ended", "none")
      BY <3>1 DEF FlowAllowed
    <3>6. FlowDriven("ended")
      <4>0. timer' \in BOOLEAN
        BY <2>1, Zenon
      <4>1. ~timer'
        BY <2>1, <4>0
      <4>3. sessionClosed'
        BY <1>3, <2>1
      <4>2. reconnecting' \in BOOLEAN
        BY <1>3, <2>1, Zenon
      <4> QED
        BY <4>0, <4>1, <4>2, <4>3 DEF FlowDriven
    <3>7. FlowCounts("ended", "none")
      BY <1>3, <1>4, <2>1, <3>1, TriggerAssumption DEF FlowCounts
    <3> QED
      BY <3>4, <3>5, <3>6, <3>7 DEF FlowStep
  <2> QED
    BY <2>2, FlowStepKeeps
<1> QED
  BY <1>5, <1>6, <1>7

--------------------------------------------------------------------------------
(* The steps of a flow that connects                                       *)

\* What is known of the flow that connects.
LEMMA Connecting ==
    ASSUME IInv, NEW f \in Flows, Driving(f)
    PROVE  /\ link \in [Flows -> {"none", "up", "down"}] /\ pc \in [Flows -> Looping \cup
                 {"idle", "open", "closing", "ended", "failed"}]
           /\ flows \in Nat /\ faults \in Nat /\ faults \in 0..MaxFaults
           /\ flows <= faults + 1
           /\ pc[f] \in PlugErrors \/ link[f] = "down" => flows <= faults
           /\ link[f] # "none" <=> pc[f] \notin {"login", "delay"}
           /\ link = [link EXCEPT ![f] = link[f]]
           /\ Fault => faults' \in 0..MaxFaults /\ faults' = faults + 1
<1>1. /\ link \in [Flows -> {"none", "up", "down"}] /\ pc \in [Flows -> Looping \cup
             {"idle", "open", "closing", "ended", "failed"}]
      /\ flows \in Nat /\ faults \in Nat /\ faults \in 0..MaxFaults
  BY TriggerAssumption DEF IInv, SessionTypeOK, Looping, Flows
<1>2. /\ ~timer
      /\ Unpaid <=> pc[f] \in PlugErrors \/ link[f] = "down"
  BY Alone
<1>3. flows <= faults + 1 /\ (Unpaid => flows <= faults)
  BY <1>1, <1>2 DEF IInv, FaultsPaid
<1>4. link[f] # "none" <=> pc[f] \notin {"login", "delay"}
  BY DEF IInv, SocketsHeld
<1>5. Fault => faults' \in 0..MaxFaults /\ faults' = faults + 1
  BY <1>1, TriggerAssumption DEF Fault
<1> QED
  BY <1>1, <1>2, <1>3, <1>4, <1>5

\* A delay that ends, a socket that opens, a ready frame that comes.
LEMMA WaitsKeep ==
    ASSUME IInv, NEW f \in Flows,
           DelayEnds(f) \/ OpensSocket(f) \/ ReadyArrives(f) \/ LostWhileDecoding(f)
    PROVE  IInv'
<1>1. InLoop(f) /\ pc[f] # "discarding" /\ Driving(f)
  BY DEF DelayEnds, OpensSocket, ReadyArrives, LostWhileDecoding, InLoop, Driving
<1>2. /\ link \in [Flows -> {"none", "up", "down"}] /\ pc \in [Flows -> Looping \cup
             {"idle", "open", "closing", "ended", "failed"}]
      /\ flows \in Nat /\ faults \in Nat /\ faults \in 0..MaxFaults
      /\ flows <= faults + 1
      /\ pc[f] \in PlugErrors \/ link[f] = "down" => flows <= faults
      /\ link[f] # "none" <=> pc[f] \notin {"login", "delay"}
      /\ link = [link EXCEPT ![f] = link[f]]
      /\ Fault => faults' \in 0..MaxFaults /\ faults' = faults + 1
  BY <1>1, Connecting
<1>3. /\ {"login", "waiting", "decoding"} \subseteq Looping \ {"discarding"}
      /\ \A p \in {"login", "waiting", "decoding"} : p \notin PlugErrors
  BY DEF Looping, PlugErrors
<1>4. CASE DelayEnds(f)
  <2>1. link[f] = "none" /\ pc' = [pc EXCEPT ![f] = "login"]
        /\ link' = [link EXCEPT ![f] = "none"]
        /\ UNCHANGED <<flows, session, manager, sessionClosed, reported, faults>>
    BY <1>2, <1>4 DEF DelayEnds
  <2>2. /\ flows + (IF "login" \in PlugErrors \/ "none" = "down" THEN 1 ELSE 0) <= faults' + 1
        /\ faults' \in 0..MaxFaults
    BY <1>2, <1>3, <2>1
  <2> QED
    BY <1>1, <1>2, <1>3, <2>1, <2>2, LoopStepKeeps
<1>5. CASE OpensSocket(f)
  <2>1. pc' = [pc EXCEPT ![f] = "waiting"] /\ link' = [link EXCEPT ![f] = "up"]
        /\ UNCHANGED <<flows, session, manager, sessionClosed, reported, faults>>
    BY <1>5 DEF OpensSocket
  <2>2. /\ flows + (IF "waiting" \in PlugErrors \/ "up" = "down" THEN 1 ELSE 0) <= faults' + 1
        /\ faults' \in 0..MaxFaults
    BY <1>2, <1>3, <2>1
  <2> QED
    BY <1>1, <1>2, <1>3, <2>1, <2>2, LoopStepKeeps
<1>6. CASE ReadyArrives(f)
  <2>1. pc' = [pc EXCEPT ![f] = "decoding"] /\ link' = [link EXCEPT ![f] = link[f]]
        /\ UNCHANGED <<flows, session, manager, sessionClosed, reported, faults>>
        /\ link[f] \in {"up", "down"}
    BY <1>2, <1>6 DEF ReadyArrives
  <2>2. /\ flows + (IF "decoding" \in PlugErrors \/ link[f] = "down" THEN 1 ELSE 0) <= faults' + 1
        /\ faults' \in 0..MaxFaults
    BY <1>2, <1>3, <2>1
  <2> QED
    BY <1>1, <1>2, <1>3, <2>1, <2>2, LoopStepKeeps
<1>7. CASE LostWhileDecoding(f)
  <2>1. pc' = [pc EXCEPT ![f] = "decoding"] /\ link' = [link EXCEPT ![f] = "down"]
        /\ UNCHANGED <<flows, session, manager, sessionClosed, reported>>
        /\ faults' \in 0..MaxFaults /\ faults' = faults + 1
    BY <1>2, <1>7 DEF LostWhileDecoding
  <2>2. /\ flows + (IF "decoding" \in PlugErrors \/ "down" = "down" THEN 1 ELSE 0) <= faults' + 1
        /\ faults' \in 0..MaxFaults
    BY <1>2, <1>3, <2>1
  <2> QED
    BY <1>1, <1>2, <1>3, <2>1, <2>2, LoopStepKeeps
<1> QED
  BY <1>4, <1>5, <1>6, <1>7

\* A login that fails, a ready frame that fails, a session cleaned up: the session runner
\* renews the session, or the catch of connectWithRetry decides.
LEMMA FailuresKeep ==
    ASSUME IInv, NEW f \in Flows, NEW kind \in Kinds, NEW renewed \in BOOLEAN,
           \/ kind \in PlugErrors /\ LoginFails(f, kind)
           \/ ReadyFails(f, kind, renewed)
           \/ CleanedUp(f, renewed)
    PROVE  IInv'
<1>1. InLoop(f) /\ pc[f] # "discarding" /\ Driving(f)
  BY DEF LoginFails, ReadyFails, CleanedUp, InLoop, Driving, PlugErrors
<1>2. /\ link \in [Flows -> {"none", "up", "down"}] /\ pc \in [Flows -> Looping \cup
             {"idle", "open", "closing", "ended", "failed"}]
      /\ flows \in Nat /\ faults \in Nat /\ faults \in 0..MaxFaults
      /\ flows <= faults + 1
      /\ pc[f] \in PlugErrors \/ link[f] = "down" => flows <= faults
      /\ link[f] # "none" <=> pc[f] \notin {"login", "delay"}
      /\ link = [link EXCEPT ![f] = link[f]]
      /\ Fault => faults' \in 0..MaxFaults /\ faults' = faults + 1
  BY <1>1, Connecting
<1>3. "login" \in Looping \ {"discarding"} /\ "login" \notin PlugErrors
  BY DEF Looping, PlugErrors
<1>4. CASE kind \in PlugErrors /\ LoginFails(f, kind)
  <2>1. /\ ConnectFails(f, kind) /\ link' = Dropped(link, f)
        /\ UNCHANGED <<flows, session, sessionClosed>>
        /\ faults' \in 0..MaxFaults /\ faults' = faults + 1
    BY <1>2, <1>4 DEF LoginFails, Dropped
  <2>2. flows <= faults'
    BY <1>2, <2>1
  <2> QED
    BY <1>1, <2>1, <2>2, ConnectFailsKeeps
<1>5. CASE ReadyFails(f, kind, renewed)
  <2>1. /\ link' = Dropped(link, f) /\ UNCHANGED <<flows, session, sessionClosed>>
        /\ faults' \in 0..MaxFaults /\ faults' = faults + 1
    BY <1>2, <1>5 DEF ReadyFails
  <2>2. flows <= faults'
    BY <1>2, <2>1
  <2>3. CASE renewed
    <3>1. pc' = [pc EXCEPT ![f] = "login"] /\ UNCHANGED <<manager, reported>>
      BY <1>5, <2>3 DEF ReadyFails
    <3>2. flows + (IF "login" \in PlugErrors \/ "none" = "down" THEN 1 ELSE 0) <= faults' + 1
      BY <1>2, <1>3, <2>1
    <3> QED
      BY <1>1, <1>3, <2>1, <3>1, <3>2, LoopStepKeeps DEF Dropped
  <2>4. CASE ~renewed
    <3>1. ConnectFails(f, kind)
      BY <1>5, <2>4 DEF ReadyFails
    <3> QED
      BY <1>1, <2>1, <2>2, <3>1, ConnectFailsKeeps
  <2> QED
    BY <2>3, <2>4
<1>6. CASE CleanedUp(f, renewed)
  <2>1. /\ link' = Dropped(link, f) /\ UNCHANGED <<flows, session, sessionClosed>>
        /\ faults' \in 0..MaxFaults /\ faults' = faults /\ pc[f] \in PlugErrors
    BY <1>2, <1>6 DEF CleanedUp
  <2>2. flows <= faults' /\ pc[f] \in Kinds
    BY <1>2, <2>1 DEF Kinds
  <2>3. CASE renewed
    <3>1. pc' = [pc EXCEPT ![f] = "login"] /\ UNCHANGED <<manager, reported>>
      BY <1>6, <2>3 DEF CleanedUp
    <3>2. flows + (IF "login" \in PlugErrors \/ "none" = "down" THEN 1 ELSE 0) <= faults' + 1
      BY <1>2, <1>3, <2>1
    <3> QED
      BY <1>1, <1>3, <2>1, <3>1, <3>2, LoopStepKeeps DEF Dropped
  <2>4. CASE ~renewed
    <3>1. ConnectFails(f, pc[f])
      BY <1>6, <2>4 DEF CleanedUp
    <3> QED
      BY <1>1, <2>1, <2>2, <3>1, ConnectFailsKeeps
  <2> QED
    BY <2>3, <2>4
<1> QED
  BY <1>4, <1>5, <1>6

\* The subscriptions of a session: made, failed, or failed by an error of the socket, which
\* reaches handleRuntimeError while the loop still runs and is left to it.
LEMMA SubscriptionsKeep ==
    ASSUME IInv, NEW f \in Flows, NEW kind \in PlugErrors,
           \/ Decoded(f) \/ Subscribed(f)
           \/ SubscribeFails(f, kind) \/ SubscribingNotified(f, kind)
    PROVE  IInv'
<1>1. /\ InLoop(f) /\ pc[f] # "discarding" /\ Driving(f)
      /\ pc[f] \in {"decoding", "subscribing"}
  BY DEF Decoded, Subscribed, SubscribeFails, SubscribingNotified, InLoop, Driving
<1>2. /\ link \in [Flows -> {"none", "up", "down"}] /\ pc \in [Flows -> Looping \cup
             {"idle", "open", "closing", "ended", "failed"}]
      /\ flows \in Nat /\ faults \in Nat /\ faults \in 0..MaxFaults
      /\ flows <= faults + 1
      /\ pc[f] \in PlugErrors \/ link[f] = "down" => flows <= faults
      /\ link[f] # "none" <=> pc[f] \notin {"login", "delay"}
      /\ link = [link EXCEPT ![f] = link[f]]
      /\ Fault => faults' \in 0..MaxFaults /\ faults' = faults + 1
  BY <1>1, Connecting
<1>3. /\ link[f] \in {"up", "down"} /\ kind \in Looping \ {"discarding"}
      /\ "subscribing" \in Looping \ {"discarding"} /\ "subscribing" \notin PlugErrors
      /\ kind \notin {"login", "delay"}
  BY <1>1, <1>2 DEF Looping, PlugErrors
<1>4. CASE Decoded(f) /\ Subscribes
  <2>1. pc' = [pc EXCEPT ![f] = "subscribing"] /\ link' = [link EXCEPT ![f] = link[f]]
        /\ UNCHANGED <<flows, session, manager, sessionClosed, reported, faults>>
    BY <1>2, <1>4 DEF Decoded
  <2>2. /\ flows + (IF "subscribing" \in PlugErrors \/ link[f] = "down" THEN 1 ELSE 0) <= faults' + 1
        /\ faults' \in 0..MaxFaults
    BY <1>2, <1>3, <2>1
  <2> QED
    BY <1>1, <1>2, <1>3, <2>1, <2>2, LoopStepKeeps
<1>5. CASE Decoded(f) /\ ~Subscribes
  BY <1>1, <1>5, StartedKeeps DEF Decoded
<1>6. CASE Subscribed(f)
  BY <1>1, <1>6, StartedKeeps DEF Subscribed
<1>7. CASE SubscribeFails(f, kind)
  <2>1. pc' = [pc EXCEPT ![f] = kind] /\ link' = [link EXCEPT ![f] = link[f]]
        /\ UNCHANGED <<flows, session, manager, sessionClosed, reported>>
        /\ IF link[f] = "up" THEN Fault ELSE faults' = faults
    BY <1>2, <1>7 DEF SubscribeFails
  <2>2. faults' \in Nat /\ faults' \in 0..MaxFaults /\ flows <= faults'
    BY <1>2, <1>3, <2>1
  <2>3. flows + (IF kind \in PlugErrors \/ link[f] = "down" THEN 1 ELSE 0) <= faults' + 1
    <3>1. flows + 1 <= faults' + 1
      BY <1>2, <2>2, Bump
    <3> QED
      BY <3>1, kind \in PlugErrors
  <2> QED
    BY <1>1, <1>3, <2>1, <2>2, <2>3, LoopStepKeeps
<1>8. CASE SubscribingNotified(f, kind)
  <2>1. loopActive = TRUE
    BY <1>1, Alone DEF InLoop
  <2>2. /\ pc' = [pc EXCEPT ![f] = kind] /\ link' = [link EXCEPT ![f] = link[f]]
        /\ UNCHANGED <<flows, session, timer, reconnecting, reported, counters, loopActive, sessionClosed>>
        /\ faults' \in 0..MaxFaults /\ faults' = faults + 1
    BY <1>2, <1>8, <2>1 DEF SubscribingNotified, RuntimeError, Suppressed
  <2>3. UNCHANGED <<flows, session, manager, sessionClosed, reported>>
    BY <2>2 DEF manager
  <2>4. flows + (IF kind \in PlugErrors \/ link[f] = "down" THEN 1 ELSE 0) <= faults' + 1
    BY <1>2, <2>2
  <2> QED
    BY <1>1, <1>3, <2>2, <2>3, <2>4, LoopStepKeeps
<1> QED
  BY <1>4, <1>5, <1>6, <1>7, <1>8

--------------------------------------------------------------------------------
(* The end of a flow or of a session                                       *)

\* What remains of a closed trigger ends without starting anything.
LEMMA EndsKeep ==
    ASSUME IInv, NEW f \in Flows, CallbackSkips(f) \/ Discarded(f) \/ SessionClosed(f)
    PROVE  IInv'
<1>1. Driving(f) /\ sessionClosed
  BY DEF CallbackSkips, SkipsConnect, Discarded, SessionClosed, Driving, InLoop, IInv, Stages
<1>2. /\ link \in [Flows -> {"none", "up", "down"}] /\ flows \in Nat
      /\ faults \in 0..MaxFaults /\ faults \in Nat /\ flows <= faults + 1
      /\ link[f] # "none" <=> pc[f] \notin {"login", "delay"}
      /\ link = [link EXCEPT ![f] = link[f]]
  BY <1>1, Connecting
<1>3. /\ ~timer /\ session = (IF pc[f] \in Stays THEN f ELSE 0)
      /\ loopActive = InLoop(f)
  BY <1>1, Alone
<1>4. /\ timer = FALSE /\ reconnecting \in BOOLEAN /\ sessionClosed = TRUE /\ reported \in Nat
      /\ attempts \in Nat /\ failures \in Nat /\ (MaxAttempts > 0 => attempts <= MaxAttempts)
  BY <1>1, <1>3 DEF IInv, SessionTypeOK
<1>5. /\ pc' = [pc EXCEPT ![f] = "ended"] /\ link' = [link EXCEPT ![f] = "none"]
      /\ session' = 0 /\ loopActive' = FALSE /\ flows' = flows /\ sessionClosed' = TRUE
      /\ timer' = FALSE /\ reconnecting' = reconnecting /\ reported' = reported /\ faults' = faults
      /\ attempts' \in {attempts, 0} /\ failures' \in {failures, 0}
  <2>1. CASE CallbackSkips(f)
    BY <1>2, <1>3, <1>4, <2>1 DEF CallbackSkips, ConnectResolves, Stays
  <2>2. CASE Discarded(f)
    BY <1>4, <2>2 DEF Discarded, ConnectResolves, Dropped
  <2>3. CASE SessionClosed(f)
    <3>1. loopActive = FALSE
      <4>1. ~InLoop(f)
        BY <2>3 DEF SessionClosed, InLoop, PlugErrors
      <4>2. loopActive \in BOOLEAN
        BY DEF IInv, SessionTypeOK
      <4>3. ~loopActive
        BY <1>3, <4>1, Zenon
      <4> QED
        BY <4>2, <4>3
    <3>2. UNCHANGED <<attempts, failures, timer, reconnecting, loopActive, sessionClosed>>
      BY <2>3 DEF SessionClosed, manager, counters
    <3> QED
      BY <1>4, <2>3, <3>1, <3>2 DEF SessionClosed, Dropped
  <2> QED
    BY <2>1, <2>2, <2>3
<1>6. "ended" \notin Stays /\ "ended" \notin Looping /\ "ended" \notin PlugErrors
  BY DEF Stays, Looping, PlugErrors
<1>7. FlowMoves(f, "ended", "none")
  BY <1>1, <1>5, <1>6 DEF FlowMoves
<1>8. FlowAllowed(f, "ended", "none")
  BY <1>6 DEF FlowAllowed
<1>9. FlowDriven("ended")
  <2>1. timer' \in BOOLEAN /\ reconnecting' \in BOOLEAN /\ sessionClosed' \in BOOLEAN
    BY <1>4, <1>5, Zenon
  <2>2. ~timer' /\ sessionClosed'
    BY <1>5, <2>1
  <2> QED
    BY <2>1, <2>2 DEF FlowDriven
<1>10. FlowCounts("ended", "none")
  BY <1>2, <1>4, <1>5, <1>6, TriggerAssumption DEF FlowCounts
<1> QED
  BY <1>7, <1>8, <1>9, <1>10, FlowStepKeeps DEF FlowStep

\* An error of the open session closes it, and a reconnect is scheduled or the workflow told.
LEMMA SessionErrorKeeps ==
    ASSUME IInv, NEW f \in Flows, NEW kind \in PlugErrors, NEW isLost \in BOOLEAN,
           SessionError(f, kind, isLost)
    PROVE  IInv'
<1>1. Driving(f) /\ pc[f] = "open" /\ ~sessionClosed /\ f # 0
  BY DEF SessionError, Driving, IInv, Stages, Flows
<1>2. /\ link \in [Flows -> {"none", "up", "down"}] /\ flows \in Nat
      /\ faults \in 0..MaxFaults /\ faults \in Nat /\ flows <= faults + 1
      /\ Fault => faults' \in 0..MaxFaults /\ faults' = faults + 1
  BY <1>1, Connecting
<1>3. /\ ~timer /\ session = (IF pc[f] \in Stays THEN f ELSE 0) /\ ~reconnecting
      /\ loopActive = InLoop(f)
  BY <1>1, Alone
<1>4. /\ timer = FALSE /\ reported \in Nat /\ session = f /\ loopActive = FALSE
      /\ attempts \in Nat /\ failures \in Nat /\ (MaxAttempts > 0 => attempts <= MaxAttempts)
      /\ sessionClosed \in BOOLEAN
  BY <1>1, <1>3 DEF IInv, SessionTypeOK, Stays, InLoop, PlugErrors
<1>5. ~Suppressed(loopActive)
  BY <1>1, <1>3, <1>4 DEF Suppressed
<1>6. /\ pc' = [pc EXCEPT ![f] = "ended"] /\ link' = [link EXCEPT ![f] = "none"]
      /\ session' = 0 /\ loopActive' = FALSE /\ flows' = flows /\ sessionClosed' = sessionClosed
      /\ attempts' = attempts /\ failures' = failures
      /\ faults' \in 0..MaxFaults /\ faults' = faults + 1
      /\ ScheduleReconnect(kind)
  <2>1. CASE isLost
    BY <1>1, <1>2, <1>4, <1>5, <2>1 DEF SessionError, RuntimeError, Dropped, counters
  <2>2. CASE ~isLost
    BY <1>1, <1>2, <1>4, <1>5, <2>2 DEF SessionError, RuntimeError, Dropped, counters
  <2> QED
    BY <2>1, <2>2
<1>7. \/ timer' = timer /\ reconnecting' = FALSE /\ reported' = reported + 1
      \/ timer' = TRUE /\ reconnecting' = TRUE /\ reported' = reported
  BY <1>6 DEF ScheduleReconnect
<1>8. "ended" \notin Stays /\ "ended" \notin Looping /\ "ended" \notin PlugErrors
  BY DEF Stays, Looping, PlugErrors
<1>9. FlowMoves(f, "ended", "none")
  BY <1>1, <1>4, <1>6, <1>8 DEF FlowMoves
<1>10. FlowAllowed(f, "ended", "none")
  BY <1>8 DEF FlowAllowed
<1>11. FlowDriven("ended") /\ reported' \in Nat
  <2>1. sessionClosed' \in BOOLEAN
    BY <1>4, <1>6, Zenon
  <2>2. ~sessionClosed'
    BY <1>1, <1>4, <1>6
  <2>3. CASE timer' = timer /\ reconnecting' = FALSE /\ reported' = reported + 1
    <3>1. reported' \in Nat /\ reported' # 0
      BY <1>4, <2>3
    <3> QED
      BY <1>4, <2>1, <2>2, <2>3, <3>1 DEF FlowDriven
  <2>4. CASE timer' = TRUE /\ reconnecting' = TRUE /\ reported' = reported
    BY <1>4, <2>1, <2>2, <2>4 DEF FlowDriven
  <2> QED
    BY <1>7, <2>3, <2>4
<1>12. FlowCounts("ended", "none")
  <2> DEFINE t == IF timer' THEN 1 ELSE 0
  <2> DEFINE u == IF "ended" \in PlugErrors \/ "none" = "down" THEN 1 ELSE 0
  <2>1. t \in {0, 1} /\ u = 0 /\ faults' \in Nat /\ flows <= faults'
    BY <1>2, <1>6, <1>8
  <2> HIDE DEF t, u
  <2>2. flows + t + u <= faults' + 1
    BY <1>2, <2>1, CountsFit
  <2>3. flows + (IF timer' THEN 1 ELSE 0)
           + (IF "ended" \in PlugErrors \/ "none" = "down" THEN 1 ELSE 0) <= faults' + 1
    BY <2>2 DEF t, u
  <2> QED
    BY <1>4, <1>6, <1>11, <2>3 DEF FlowCounts
<1> QED
  BY <1>9, <1>10, <1>11, <1>12, FlowStepKeeps DEF FlowStep

\* closeFunction, with a session to close or without one.
LEMMA CloseFunctionKeeps ==
    ASSUME IInv, CloseFunction PROVE IInv'
<1>1. /\ ~sessionClosed /\ sessionClosed' = TRUE /\ timer' = FALSE /\ flows' = flows
      /\ UNCHANGED <<attempts, failures, reconnecting, loopActive, reported, faults>>
      /\ pc[1] \in {"open", "ended"}
  BY DEF CloseFunction, TimerAfterClose, counters
<1>2. /\ pc \in [Flows -> {"idle", "login", "waiting", "decoding", "subscribing", "delay", "open",
                           "closing", "discarding", "ended", "failed"} \cup PlugErrors]
      /\ link \in [Flows -> {"none", "up", "down"}]
      /\ flows \in Flows /\ session \in 0..flows
      /\ attempts \in Nat /\ failures \in Nat /\ (MaxAttempts > 0 => attempts <= MaxAttempts)
      /\ reconnecting \in BOOLEAN /\ loopActive \in BOOLEAN /\ reported \in Nat
      /\ faults \in 0..MaxFaults
  BY DEF IInv, SessionTypeOK
<1>3. CASE session = 0
  <2>1. pc' = pc /\ link' = link /\ session' = session
    BY <1>3 DEF CloseFunction
  <2>2. \A f \in Flows : (InLoop(f)' <=> InLoop(f)) /\ (Driving(f)' <=> Driving(f))
    BY <2>1 DEF InLoop, Driving
  <2>3. SessionTypeOK'
    BY <1>1, <1>2, <2>1 DEF SessionTypeOK
  <2>4. LoopFlag' /\ OneDriving'
    BY <1>1, <1>2, <2>2 DEF IInv, LoopFlag, OneDriving, Flows
  <2>5. TimerAlone' /\ Driven'
    BY <1>1 DEF TimerAlone, Driven
  <2>6. SessionOfFlow'
    BY <2>1 DEF IInv, SessionOfFlow, Flows
  <2>7. Stages'
    <3>1. ~InLoop(1)'
      BY <1>1, <2>1 DEF InLoop, PlugErrors
    <3>2. \A f \in Flows : /\ pc'[f] = "idle" <=> f > flows'
                           /\ pc'[f] # "open"
      BY <1>1, <1>3, <2>1 DEF IInv, Stages, SessionOfFlow, Flows
    <3>3. sessionClosed' /\ flows' = flows
      BY <1>1, Zenon
    <3> QED
      BY <3>1, <3>2, <3>3 DEF Stages, Flows
  <2>8. SocketsHeld'
    BY <2>1, <2>2 DEF IInv, SocketsHeld, Flows
  <2>9. FaultsPaid'
    <3>1. Unpaid' <=> Unpaid
      BY <2>1 DEF Unpaid, Flows
    <3>2. flows + (IF Unpaid THEN 1 ELSE 0) <= faults + 1
      <4>1. flows \in Nat /\ faults \in Nat
        BY <1>2, TriggerAssumption DEF Flows
      <4> DEFINE t == IF timer THEN 1 ELSE 0
      <4> DEFINE u == IF Unpaid THEN 1 ELSE 0
      <4>2. t \in {0, 1} /\ u \in {0, 1} /\ flows + t + u <= faults + 1
        BY DEF IInv, FaultsPaid
      <4> HIDE DEF t, u
      <4>3. flows + u <= faults + 1
        BY <4>1, <4>2
      <4> QED
        BY <4>3 DEF u
    <3>3. flows' = flows /\ faults' = faults /\ ~timer' /\ flows \in Nat
      BY <1>1, <1>2, TriggerAssumption DEF Flows
    <3> QED
      BY <3>1, <3>2, <3>3 DEF FaultsPaid
  <2> QED
    BY <2>3, <2>4, <2>5, <2>6, <2>7, <2>8, <2>9 DEF IInv
<1>4. CASE session # 0
  <2> DEFINE f == session
  <2>1. f \in Flows /\ f # 0
    BY <1>2, <1>4, TriggerAssumption DEF Flows
  <2>2. pc[f] = "open" /\ Driving(f)
    BY <1>1, <2>1 DEF IInv, SessionOfFlow, Stages, Driving
  <2>3. /\ flows \in Nat /\ faults \in Nat /\ flows <= faults + 1
        /\ link = [link EXCEPT ![f] = link[f]]
    BY <2>1, <2>2, Connecting
  <2>4. loopActive' \in BOOLEAN /\ ~loopActive'
    <3>1. ~InLoop(f)
      BY <2>2 DEF InLoop, PlugErrors
    <3>2. ~loopActive
      BY <2>1, <2>2, <3>1, Alone, Zenon
    <3> QED
      BY <1>1, <1>2, <3>2
  <2>5. timer' \in BOOLEAN /\ ~timer' /\ sessionClosed' \in BOOLEAN /\ sessionClosed' /\ reconnecting' \in BOOLEAN
    BY <1>1, <1>2
  <2>6. /\ "closing" \notin Looping /\ "closing" \notin PlugErrors /\ "closing" \in Stays
        /\ "ended" \notin Looping /\ "ended" \notin PlugErrors /\ "ended" \notin Stays
    BY DEF Stays, Looping, PlugErrors
  <2>7. /\ attempts' \in Nat /\ failures' \in Nat /\ (MaxAttempts > 0 => attempts' <= MaxAttempts)
        /\ reported' \in Nat /\ faults' \in 0..MaxFaults /\ faults' = faults
    BY <1>1, <1>2
  <2>8. CASE Subscribes /\ link[f] = "up"
    <3>1. pc' = [pc EXCEPT ![f] = "closing"] /\ link' = [link EXCEPT ![f] = "up"] /\ session' = f
      BY <1>4, <2>3, <2>8 DEF CloseFunction
    <3>2. FlowMoves(f, "closing", "up") /\ FlowAllowed(f, "closing", "up")
      BY <1>1, <2>2, <2>4, <2>5, <2>6, <3>1 DEF FlowMoves, FlowAllowed
    <3>3. FlowDriven("closing")
      BY <2>5 DEF FlowDriven
    <3>4. FlowCounts("closing", "up")
      BY <2>3, <2>5, <2>6, <2>7 DEF FlowCounts
    <3> QED
      BY <2>1, <3>2, <3>3, <3>4, FlowStepKeeps DEF FlowStep
  <2>9. CASE ~(Subscribes /\ link[f] = "up")
    <3>1. pc' = [pc EXCEPT ![f] = "ended"] /\ link' = [link EXCEPT ![f] = "none"] /\ session' = 0
      BY <1>4, <2>9 DEF CloseFunction, Dropped
    <3>2. FlowMoves(f, "ended", "none") /\ FlowAllowed(f, "ended", "none")
      BY <1>1, <2>2, <2>4, <2>5, <2>6, <3>1 DEF FlowMoves, FlowAllowed
    <3>3. FlowDriven("ended")
      BY <2>5 DEF FlowDriven
    <3>4. FlowCounts("ended", "none")
      BY <2>3, <2>5, <2>6, <2>7 DEF FlowCounts
    <3> QED
      BY <2>1, <3>2, <3>3, <3>4, FlowStepKeeps DEF FlowStep
  <2> QED
    BY <2>8, <2>9
<1> QED
  BY <1>3, <1>4

--------------------------------------------------------------------------------
(* The timers                                                              *)

\* The reconnect timer starts the one flow that drives the trigger, and there is a flow left.
LEMMA TimerKeeps ==
    ASSUME IInv, TimerFires PROVE IInv'
<1>1. /\ timer /\ ~sessionClosed /\ \A f \in Flows : ~Driving(f) /\ ~InLoop(f)
  BY DEF TimerFires, IInv, TimerAlone, Driving
<1>2. /\ pc \in [Flows -> {"idle", "login", "waiting", "decoding", "subscribing", "delay", "open",
                           "closing", "discarding", "ended", "failed"} \cup PlugErrors]
      /\ link \in [Flows -> {"none", "up", "down"}]
      /\ flows \in Flows /\ session \in 0..flows
      /\ attempts \in Nat /\ failures \in Nat /\ (MaxAttempts > 0 => attempts <= MaxAttempts)
      /\ sessionClosed \in BOOLEAN /\ reported \in Nat /\ faults \in 0..MaxFaults
  BY DEF IInv, SessionTypeOK
<1>3. flows \in Nat /\ faults \in Nat /\ faults <= MaxFaults /\ flows + 1 \in Nat /\ flows >= 1
  BY <1>2, TriggerAssumption DEF Flows
<1>4. \A f \in Flows : link[f] = "none" /\ pc[f] \notin PlugErrors /\ pc[f] \notin Stays
  BY <1>1, <1>2 DEF IInv, SocketsHeld, Driving, InLoop, Stays
<1>5. ~Unpaid
  BY <1>4 DEF Unpaid
<1>6. flows + 1 <= faults + 1
  BY <1>1, <1>3, <1>5 DEF IInv, FaultsPaid
<1>7. PICK n \in Flows : n = flows + 1
  BY <1>3, <1>6, TriggerAssumption DEF Flows
<1>8. /\ flows' = n /\ pc' = [pc EXCEPT ![n] = "login"] /\ timer' = FALSE /\ reconnecting' = FALSE
      /\ loopActive' = TRUE
      /\ UNCHANGED <<link, session, attempts, failures, sessionClosed, reported, faults>>
  BY <1>7 DEF TimerFires, ReconnectingAfterTimer, counters
<1>9. /\ pc'[n] = "login" /\ \A f \in Flows \ {n} : pc'[f] = pc[f]
  BY <1>2, <1>7, <1>8
<1>10. /\ InLoop(n)' /\ Driving(n)' /\ \A f \in Flows \ {n} : ~InLoop(f)' /\ ~Driving(f)'
  BY <1>1, <1>9 DEF InLoop, Driving
<1>11. session = 0
  BY <1>2, <1>3, <1>4, TriggerAssumption DEF IInv, SessionOfFlow, Stays, Flows
<1>12. SessionTypeOK'
  <2>1. pc' \in [Flows -> {"idle", "login", "waiting", "decoding", "subscribing", "delay", "open",
                           "closing", "discarding", "ended", "failed"} \cup PlugErrors]
    BY <1>2, <1>8
  <2>2. session' \in 0..flows'
    BY <1>3, <1>7, <1>8, <1>11
  <2> QED
    BY <1>2, <1>7, <1>8, <2>1, <2>2 DEF SessionTypeOK
<1>13. LoopFlag' /\ OneDriving'
  BY <1>7, <1>8, <1>10 DEF LoopFlag, OneDriving, Flows
<1>14. TimerAlone' /\ Driven'
  BY <1>8 DEF TimerAlone, Driven
<1>15. SessionOfFlow'
  <2>1. \A f \in Flows : f # 0 /\ pc'[f] \notin {"open", "closing", "discarding"}
    BY <1>4, <1>9, TriggerAssumption DEF Stays, Flows
  <2>2. session' = 0
    BY <1>8, <1>11
  <2> QED
    BY <2>1, <2>2 DEF SessionOfFlow, Flows
<1>16. Stages'
  <2>1. \A f \in Flows : /\ pc'[f] = "idle" <=> f > n
                         /\ pc'[f] \notin {"open", "closing", "discarding"}
    <3>1. \A f \in Flows : (pc[f] = "idle" <=> f > flows) /\ f \in Nat
      BY TriggerAssumption DEF IInv, Stages, Flows
    <3>2. \A f \in Flows \ {n} : f > flows <=> f > n
      BY <1>3, <1>7, <3>1
    <3> QED
      BY <1>3, <1>4, <1>7, <1>9, <3>1, <3>2 DEF Stays
  <2>2. ~sessionClosed'
    BY <1>1, <1>2, <1>8
  <2> QED
    BY <1>8, <2>1, <2>2 DEF Stages, Flows
<1>17. SocketsHeld'
  <2>1. \A f \in Flows : link'[f] = "none" /\ (Driving(f)' => pc'[f] = "login")
    BY <1>4, <1>8, <1>9, <1>10
  <2> QED
    BY <2>1 DEF SocketsHeld, Flows
<1>18. FaultsPaid'
  <2>1. ~Unpaid'
    <3>1. "login" \notin PlugErrors
      BY DEF PlugErrors
    <3> QED
      BY <1>4, <1>8, <1>9, <3>1 DEF Unpaid, Flows
  <2>2. flows' = n /\ faults' = faults /\ ~timer'
    BY <1>8
  <2> QED
    BY <1>3, <1>6, <1>7, <2>1, <2>2 DEF FaultsPaid
<1> QED
  BY <1>12, <1>13, <1>14, <1>15, <1>16, <1>17, <1>18 DEF IInv

\* A failure that leaves the window, or a step of something else, changes nothing the
\* invariant is about.
LEMMA RestKeeps ==
    ASSUME IInv, WindowPasses \/ UNCHANGED sessionVars PROVE IInv'
<1>1. UNCHANGED <<pc, link, flows, session, attempts, timer, reconnecting, loopActive,
                  sessionClosed, reported, faults>>
  BY DEF WindowPasses, sessionVars, manager, counters
<1>2. failures' \in Nat
  BY DEF IInv, SessionTypeOK, WindowPasses, sessionVars, manager, counters
<1>3. \A f \in Flows : (InLoop(f)' <=> InLoop(f)) /\ (Driving(f)' <=> Driving(f))
  BY <1>1 DEF InLoop, Driving
<1>4. SessionTypeOK'
  BY <1>1, <1>2 DEF IInv, SessionTypeOK
<1>5. LoopFlag' /\ OneDriving' /\ TimerAlone' /\ SessionOfFlow' /\ Stages' /\ SocketsHeld' /\ Driven'
  <2>1. LoopFlag' /\ OneDriving'
    BY <1>1, <1>3 DEF IInv, SessionTypeOK, LoopFlag, OneDriving, Flows
  <2>2. TimerAlone' /\ Driven'
    BY <1>1, <1>3 DEF IInv, SessionTypeOK, TimerAlone, Driven, Flows
  <2>3. SessionOfFlow' /\ SocketsHeld'
    BY <1>1, <1>3 DEF IInv, SessionOfFlow, SocketsHeld, Flows
  <2>4. Stages'
    <3>1. 1 \in Flows
      BY TriggerAssumption DEF Flows
    <3> QED
      BY <1>1, <1>3, <3>1 DEF IInv, SessionTypeOK, Stages, Flows
  <2> QED
    BY <2>1, <2>2, <2>3, <2>4
<1>6. FaultsPaid'
  <2>1. Unpaid' <=> Unpaid
    BY <1>1 DEF Unpaid, Flows
  <2> QED
    BY <1>1, <2>1 DEF IInv, SessionTypeOK, FaultsPaid
<1> QED
  BY <1>4, <1>5, <1>6 DEF IInv

--------------------------------------------------------------------------------
(* The theorems                                                            *)

\* The activation starts the first flow.
LEMMA InitIInv == ASSUME SessionInit PROVE IInv
<1>1. 1 \in Flows /\ 0 \in 0..MaxFaults
  BY TriggerAssumption DEF Flows
<1>2. /\ pc[1] = "login" /\ \A f \in Flows \ {1} : pc[f] = "idle"
      /\ \A f \in Flows : link[f] = "none"
  BY <1>1 DEF SessionInit
<1>3. /\ InLoop(1) /\ \A f \in Flows \ {1} : ~InLoop(f) /\ ~Driving(f)
  BY <1>1, <1>2 DEF InLoop, Driving, PlugErrors
<1>4. SessionTypeOK
  <2>1. /\ pc \in [Flows -> {"idle", "login", "waiting", "decoding", "subscribing", "delay",
                            "open", "closing", "discarding", "ended", "failed"} \cup PlugErrors]
        /\ link \in [Flows -> {"none", "up", "down"}]
    BY DEF SessionInit
  <2>2. /\ attempts \in Nat /\ (MaxAttempts > 0 => attempts <= MaxAttempts)
        /\ failures \in Nat /\ reported \in Nat /\ faults \in 0..MaxFaults
        /\ flows \in Flows /\ session \in 0..flows
    <3>1. attempts = 0 /\ failures = 0 /\ reported = 0 /\ faults = 0 /\ flows = 1 /\ session = 0
      BY DEF SessionInit
    <3> QED
      BY <1>1, <3>1, TriggerAssumption
  <2>3. timer \in BOOLEAN /\ reconnecting \in BOOLEAN /\ loopActive \in BOOLEAN /\ sessionClosed \in BOOLEAN
    BY DEF SessionInit
  <2> QED
    BY <2>1, <2>2, <2>3 DEF SessionTypeOK
<1>5. LoopFlag /\ OneDriving
  BY <1>1, <1>3 DEF SessionInit, LoopFlag, OneDriving
<1>6. TimerAlone /\ Driven
  BY DEF SessionInit, TimerAlone, Driven
<1>7. SessionOfFlow
  <2>1. \A f \in Flows : f # 0 /\ pc[f] \notin {"open", "closing", "discarding"}
    BY <1>2 DEF Flows
  <2> QED
    BY <2>1 DEF SessionInit, SessionOfFlow
<1>8. Stages
  BY <1>1, <1>2 DEF SessionInit, Stages, Flows
<1>9. SocketsHeld
  <2>1. \A f \in Flows : Driving(f) => pc[f] = "login"
    BY <1>2, <1>3
  <2> QED
    BY <1>2, <2>1 DEF SocketsHeld
<1>10. FaultsPaid
  <2>1. ~Unpaid
    BY <1>2 DEF Unpaid, PlugErrors
  <2> QED
    BY <2>1 DEF SessionInit, FaultsPaid
<1> QED
  BY <1>4, <1>5, <1>6, <1>7, <1>8, <1>9, <1>10 DEF IInv

\* Every step keeps the invariant.
LEMMA NextKeeps == ASSUME IInv, [SessionNext]_sessionVars PROVE IInv'
<1>1. ASSUME NEW f \in Flows, FlowAdvances(f) PROVE IInv'
  <2>1. CASE DelayEnds(f) \/ OpensSocket(f) \/ ReadyArrives(f)
    BY <2>1, WaitsKeep
  <2>2. CASE Decoded(f) \/ Subscribed(f)
    <3>1. "retryable" \in PlugErrors
      BY DEF PlugErrors
    <3> QED
      BY <2>2, <3>1, SubscriptionsKeep
  <2>3. CASE CallbackSkips(f) \/ Discarded(f) \/ SessionClosed(f)
    BY <2>3, EndsKeep
  <2>4. ASSUME NEW renewed \in BOOLEAN, CleanedUp(f, renewed) PROVE IInv'
    <3>1. "retryable" \in Kinds
      BY DEF Kinds, PlugErrors
    <3> QED
      BY <2>4, <3>1, FailuresKeep
  <2>5. ASSUME NEW renewed \in BOOLEAN, NEW kind \in Kinds, ReadyFails(f, kind, renewed)
        PROVE  IInv'
    BY <2>5, FailuresKeep
  <2>6. ASSUME NEW kind \in PlugErrors, LoginFails(f, kind) PROVE IInv'
    <3>1. kind \in Kinds /\ TRUE \in BOOLEAN
      BY DEF Kinds
    <3> QED
      BY <2>6, <3>1, FailuresKeep
  <2>7. ASSUME NEW kind \in PlugErrors, SubscribeFails(f, kind) \/ SubscribingNotified(f, kind)
        PROVE  IInv'
    BY <2>7, SubscriptionsKeep
  <2> QED
    BY <1>1, <2>1, <2>2, <2>3, <2>4, <2>5, <2>6, <2>7 DEF FlowAdvances
<1>2. ASSUME NEW f \in Flows, LostWhileDecoding(f) PROVE IInv'
  BY <1>2, WaitsKeep
<1>3. ASSUME NEW f \in Flows, NEW kind \in PlugErrors, NEW isLost \in BOOLEAN,
             SessionError(f, kind, isLost)
      PROVE  IInv'
  BY <1>3, SessionErrorKeeps
<1>4. CASE TimerFires
  BY <1>4, TimerKeeps
<1>5. CASE WindowPasses \/ UNCHANGED sessionVars
  BY <1>5, RestKeeps
<1>6. CASE CloseFunction
  BY <1>6, CloseFunctionKeeps
<1> QED
  BY <1>1, <1>2, <1>3, <1>4, <1>5, <1>6 DEF SessionNext

\* The invariant holds, whatever the hub, the network and n8n do.
THEOREM Invariance == SessionSpec => []IInv
<1>1. SessionInit => IInv
  BY InitIInv
<1>2. IInv /\ [SessionNext]_sessionVars => IInv'
  BY NextKeeps
<1> QED
  BY <1>1, <1>2, PTL DEF SessionSpec

\* A set whose elements are all the same.
LEMMA AtMostOne ==
    ASSUME NEW S, \A x, y \in S : x = y
    PROVE  /\ S = {} => Cardinality(S) = 0
           /\ S # {} => Cardinality(S) = 1
<1>1. S = {} => Cardinality(S) = 0
  BY FS_EmptySet
<1>2. ASSUME S # {} PROVE Cardinality(S) = 1
  <2>1. PICK x : x \in S
    BY <1>2
  <2>2. S = {x}
    BY <2>1
  <2> QED
    BY <2>2, FS_Singleton
<1> QED
  BY <1>1, <1>2

\* The trigger has one socket at most, and until it is closed or has told the workflow of an
\* error exactly one loop, timer or session drives it: connectWithRetry, scheduleReconnect
\* and handleRuntimeError hand over to one another.
THEOREM OneConnectionHolds == SessionSpec => []OneConnection
<1>1. ASSUME IInv PROVE OneSocket
  <2> DEFINE S == {f \in Flows : link[f] # "none"}
  <2>1. \A x, y \in S : x = y
    BY <1>1 DEF IInv, SocketsHeld, OneDriving
  <2>2. Cardinality(S) = 0 \/ Cardinality(S) = 1
    BY <2>1, AtMostOne
  <2> QED
    BY <2>2 DEF OneSocket
<1>2. ASSUME IInv PROVE OneDriver
  <2> SUFFICES ASSUME ~sessionClosed, reported = 0
               PROVE  Cardinality({f \in Flows : InLoop(f)}) + (IF timer THEN 1 ELSE 0)
                          + (IF session # 0 THEN 1 ELSE 0) = 1
    BY DEF OneDriver
  <2> DEFINE S == {f \in Flows : InLoop(f)}
  <2>1. /\ S = {} => Cardinality(S) = 0
        /\ S # {} => Cardinality(S) = 1
    <3>1. \A x, y \in S : x = y
      BY <1>2 DEF IInv, OneDriving, Driving
    <3> QED
      BY <3>1, AtMostOne
  <2>2. session # 0 => \E f \in Flows : pc[f] = "open"
    <3>1. session # 0 => session \in Flows
      BY <1>2, TriggerAssumption DEF IInv, SessionTypeOK, Flows
    <3> QED
      BY <1>2, <3>1 DEF IInv, SessionOfFlow, Stages
  <2>3. S = {} <=> ~loopActive
    BY <1>2 DEF IInv, LoopFlag
  <2>4. timer => ~loopActive /\ session = 0
    BY <1>2, <2>2 DEF IInv, TimerAlone, LoopFlag, Driving
  <2>5. loopActive => session = 0
    <3>1. ASSUME NEW f \in Flows, NEW g \in Flows, InLoop(f), pc[g] = "open" PROVE FALSE
      BY <1>2, <3>1 DEF IInv, OneDriving, Driving, InLoop, PlugErrors
    <3> QED
      BY <1>2, <2>2, <3>1 DEF IInv, LoopFlag
  <2>6. loopActive \/ timer \/ session # 0
    BY <1>2 DEF IInv, Driven
  <2> HIDE DEF S
  <2>7. Cardinality(S) + (IF timer THEN 1 ELSE 0) + (IF session # 0 THEN 1 ELSE 0) = 1
    <3>1. CASE timer
      BY <2>1, <2>3, <2>4, <3>1
    <3>2. CASE ~timer /\ loopActive
      BY <2>1, <2>3, <2>5, <3>2
    <3>3. CASE ~timer /\ ~loopActive
      BY <2>1, <2>3, <2>6, <3>3
    <3> QED
      BY <3>1, <3>2, <3>3
  <2> QED
    BY <2>7 DEF S
<1>3. IInv => OneConnection
  BY <1>1, <1>2 DEF IInv, OneConnection
<1> QED
  BY <1>3, Invariance, PTL

\* What a closed trigger still does opens no socket, arms no timer and tells of no error.
LEMMA ClosedIsQuiet ==
    ASSUME IInv, sessionClosed, SessionNext
    PROVE  /\ \A f \in Flows : link[f] = "none" => link'[f] = "none"
           /\ ~timer' /\ reported' = reported
<1>1. ~timer /\ link \in [Flows -> {"none", "up", "down"}]
  BY DEF IInv, TimerAlone, SessionTypeOK
<1>2. \A f \in Flows : pc[f] # "open"
  BY DEF IInv, Stages
<1>3. ASSUME NEW f \in Flows, NEW kind \in Kinds, InLoop(f), ConnectFails(f, kind)
      PROVE  ~timer' /\ reported' = reported
  BY <1>3, ConnectFailsEffect
<1>4. ASSUME NEW f \in Flows, Started(f)
      PROVE  /\ \A g \in Flows : link[g] = "none" => link'[g] = "none"
             /\ timer' = timer /\ reported' = reported
  BY <1>1, <1>4 DEF Started, Keeps, ConnectResolves, Dropped, manager, counters
<1>5. ASSUME NEW f \in Flows, FlowAdvances(f) \/ LostWhileDecoding(f)
      PROVE  /\ \A g \in Flows : link[g] = "none" => link'[g] = "none"
             /\ ~timer' /\ reported' = reported
  <2>1. CASE DelayEnds(f) \/ OpensSocket(f)
    BY <2>1 DEF DelayEnds, OpensSocket, SkipsConnect
  <2>2. CASE ReadyArrives(f)
    BY <1>1, <2>2 DEF ReadyArrives, manager, counters
  <2>3. CASE CallbackSkips(f)
    BY <1>1, <2>3 DEF CallbackSkips, ConnectResolves
  <2>4. CASE Decoded(f)
    BY <1>1, <1>4, <2>4 DEF Decoded, manager, counters
  <2>5. CASE Subscribed(f)
    BY <1>1, <1>4, <2>5 DEF Subscribed
  <2>6. CASE Discarded(f)
    BY <1>1, <2>6 DEF Discarded, ConnectResolves, Dropped
  <2>7. CASE SessionClosed(f)
    BY <1>1, <2>7 DEF SessionClosed, Dropped, manager, counters
  <2>8. ASSUME NEW renewed \in BOOLEAN, CleanedUp(f, renewed)
        PROVE  /\ \A g \in Flows : link[g] = "none" => link'[g] = "none"
               /\ ~timer' /\ reported' = reported
    <3>1. \A g \in Flows : link[g] = "none" => link'[g] = "none"
      BY <1>1, <2>8 DEF CleanedUp, Dropped
    <3>2. CASE renewed
      BY <1>1, <2>8, <3>1, <3>2 DEF CleanedUp, manager, counters
    <3>3. CASE ~renewed
      <4>1. InLoop(f) /\ pc[f] \in Kinds /\ ConnectFails(f, pc[f])
        BY <2>8, <3>3 DEF CleanedUp, InLoop, Kinds
      <4> QED
        BY <1>3, <3>1, <4>1
    <3> QED
      BY <3>2, <3>3
  <2>9. ASSUME NEW renewed \in BOOLEAN, NEW kind \in Kinds, ReadyFails(f, kind, renewed)
        PROVE  /\ \A g \in Flows : link[g] = "none" => link'[g] = "none"
               /\ ~timer' /\ reported' = reported
    <3>1. \A g \in Flows : link[g] = "none" => link'[g] = "none"
      BY <1>1, <2>9 DEF ReadyFails, Dropped
    <3>2. CASE renewed
      BY <1>1, <2>9, <3>1, <3>2 DEF ReadyFails, manager, counters
    <3>3. CASE ~renewed
      <4>1. InLoop(f) /\ ConnectFails(f, kind)
        BY <2>9, <3>3 DEF ReadyFails, InLoop
      <4> QED
        BY <1>3, <3>1, <4>1
    <3> QED
      BY <3>2, <3>3
  <2>10. ASSUME NEW kind \in PlugErrors, LoginFails(f, kind)
         PROVE  /\ \A g \in Flows : link[g] = "none" => link'[g] = "none"
                /\ ~timer' /\ reported' = reported
    <3>1. InLoop(f) /\ kind \in Kinds /\ ConnectFails(f, kind) /\ link' = link
      BY <2>10 DEF LoginFails, InLoop, Kinds
    <3> QED
      BY <1>3, <3>1
  <2>11. ASSUME NEW kind \in PlugErrors, SubscribeFails(f, kind) \/ SubscribingNotified(f, kind)
         PROVE  /\ \A g \in Flows : link[g] = "none" => link'[g] = "none"
                /\ ~timer' /\ reported' = reported
    BY <1>1, <2>11 DEF SubscribeFails, SubscribingNotified, RuntimeError, Suppressed, manager, counters
  <2>12. CASE LostWhileDecoding(f)
    BY <1>1, <2>12 DEF LostWhileDecoding, manager, counters
  <2> QED
    BY <1>5, <2>1, <2>2, <2>3, <2>4, <2>5, <2>6, <2>7, <2>8, <2>9, <2>10, <2>11, <2>12 DEF FlowAdvances
<1>6. CASE \E f \in Flows, kind \in PlugErrors, isLost \in BOOLEAN : SessionError(f, kind, isLost)
  BY <1>2, <1>6 DEF SessionError
<1>7. CASE TimerFires \/ CloseFunction
  BY <1>1, <1>7 DEF TimerFires, CloseFunction
<1>8. CASE WindowPasses
  BY <1>1, <1>8 DEF WindowPasses
<1> QED
  BY <1>5, <1>6, <1>7, <1>8 DEF SessionNext

\* closeFunction is final, although a connect, a session or a timer may be under way.
THEOREM QuietAfterCloseHolds == SessionSpec => StillAfterClose
<1>1. IInv /\ [SessionNext]_sessionVars =>
        [sessionClosed => /\ \A f \in Flows : link[f] = "none" => link'[f] = "none"
                          /\ ~timer' /\ reported' = reported]_sessionVars
  BY ClosedIsQuiet
<1> QED
  BY <1>1, Invariance, PTL DEF SessionSpec, StillAfterClose
================================================================================
