------------------------------ MODULE Sums_proofs ------------------------------
(***************************************************************************)
(* Facts about sums over finite sets, SumFunctionOnSet(f, S) of the module *)
(* Functions: the accounts of several components are such sums.            *)
(***************************************************************************)
EXTENDS Integers, FiniteSets, Functions, FiniteSetTheorems, WellFoundedInduction, TLAPS

--------------------------------------------------------------------------------
\* Natural numbers below one another, and what follows from their being well founded: a
\* set of naturals has a least element, and one closed under +1 contains them all.
Less == {p \in Nat \X Nat : p[1] < p[2]}

\* The order of the naturals is well founded.
LEMMA LessIsWellFounded == IsWellFoundedOn(Less, Nat)
<1>1. Less = OpToRel(<, Nat)
  BY Zenon DEF Less, OpToRel
<1> QED
  BY <1>1, NatLessThanWellFounded, Zenon

\* A set of naturals that is not empty has a least element.
LEMMA LeastElement ==
    ASSUME NEW S \in SUBSET Nat, S # {}
    PROVE  \E n \in S : \A k \in S : n <= k
<1>1. PICK n \in S : \A k \in S : ~(<<k, n>> \in Less)
  BY LessIsWellFounded, WFMin
<1>2. ASSUME NEW k \in S PROVE n <= k
  <2>1. <<k, n>> \in Nat \X Nat /\ <<k, n>>[1] = k /\ <<k, n>>[2] = n
    OBVIOUS
  <2>2. ~(k < n)
    BY <1>1, <2>1 DEF Less
  <2> QED
    BY <2>2
<1> QED
  BY <1>2

\* A set that holds 0 and, with a natural, the next one, holds all naturals.
LEMMA SetInduction ==
    ASSUME NEW S, 0 \in S, \A n \in Nat : n \in S => n + 1 \in S
    PROVE  Nat \subseteq S
<1> SUFFICES ASSUME Nat \ S # {} PROVE FALSE
  OBVIOUS
<1>1. PICK n \in Nat \ S : \A k \in Nat \ S : n <= k
  BY LeastElement
<1>2. n # 0 /\ n - 1 \in Nat /\ n - 1 \in S
  BY <1>1
<1> QED
  BY <1>2

--------------------------------------------------------------------------------
Pick(s) == CHOOSE x \in s : TRUE

\* The subsets of S with at most n elements, and the sum over them, element by element.
UpTo(S, n) == {s \in SUBSET S : Cardinality(s) <= n}
Adds(g, f, D) == g = [s \in D |-> IF s = {} THEN 0 ELSE f[Pick(s)] + g[s \ {Pick(s)}]]

Adder(f, S) == CHOOSE g : Adds(g, f, SUBSET S)

\* The sum is the value of a function that adds up the subsets of S.
LEMMA SumByPicking == ASSUME NEW f, NEW S PROVE SumFunctionOnSet(f, S) = Adder(f, S)[S]
BY DEF SumFunctionOnSet, FoldFunctionOnSet, MapThenFoldSet, Adder, Adds, Pick

\* A subset of a finite set, without an element, is one smaller.
LEMMA OneLess ==
    ASSUME NEW S, IsFiniteSet(S), NEW s \in SUBSET S, NEW x \in s
    PROVE  /\ IsFiniteSet(s) /\ Cardinality(s) \in Nat \ {0}
           /\ IsFiniteSet(s \ {x}) /\ Cardinality(s \ {x}) = Cardinality(s) - 1
<1>1. IsFiniteSet(s)
  BY FS_Subset
<1>2. Cardinality(s) \in Nat /\ Cardinality(s) # 0
  BY <1>1, FS_CardinalityType, FS_EmptySet
<1> QED
  BY <1>1, <1>2, FS_RemoveElement

\* Such a function exists.
LEMMA AddsExists ==
    ASSUME NEW f, NEW S, IsFiniteSet(S)
    PROVE  \E g : Adds(g, f, SUBSET S)
<1> DEFINE N == {n \in Nat : \E g : Adds(g, f, UpTo(S, n))}
<1>1. 0 \in N
  <2> DEFINE g == [s \in UpTo(S, 0) |-> 0]
  <2>1. \A s \in UpTo(S, 0) : s = {}
    BY FS_Subset, FS_EmptySet, FS_CardinalityType DEF UpTo
  <2>2. Adds(g, f, UpTo(S, 0))
    BY <2>1 DEF Adds
  <2> QED
    BY <2>2
<1>2. ASSUME NEW n \in Nat, n \in N PROVE n + 1 \in N
  <2>1. PICK g : Adds(g, f, UpTo(S, n))
    BY <1>2
  <2> DEFINE h == [s \in UpTo(S, n + 1) |-> IF s = {} THEN 0 ELSE f[Pick(s)] + g[s \ {Pick(s)}]]
  <2>2. \A s \in UpTo(S, n) : h[s] = g[s] /\ s \in UpTo(S, n + 1)
    <3> TAKE s \in UpTo(S, n)
    <3>1. s \in UpTo(S, n + 1)
      BY FS_Subset, FS_CardinalityType DEF UpTo
    <3>2. h[s] = IF s = {} THEN 0 ELSE f[Pick(s)] + g[s \ {Pick(s)}]
      BY <3>1
    <3>3. g[s] = IF s = {} THEN 0 ELSE f[Pick(s)] + g[s \ {Pick(s)}]
      BY <2>1 DEF Adds
    <3> QED
      BY <3>1, <3>2, <3>3
  <2>3. \A s \in UpTo(S, n + 1) : s # {} => s \ {Pick(s)} \in UpTo(S, n)
    <3> TAKE s \in UpTo(S, n + 1)
    <3> HAVE s # {}
    <3>1. Pick(s) \in s
      BY DEF Pick
    <3> QED
      BY <3>1, OneLess DEF UpTo
  <2>4. h = [s \in UpTo(S, n + 1) |-> IF s = {} THEN 0 ELSE f[Pick(s)] + h[s \ {Pick(s)}]]
    BY <2>2, <2>3
  <2>5. Adds(h, f, UpTo(S, n + 1))
    BY <2>4 DEF Adds
  <2> QED
    BY <2>5
<1> HIDE DEF N
<1>3. Cardinality(S) \in Nat
  BY FS_CardinalityType
<1>4. Cardinality(S) \in N
  BY <1>1, <1>2, <1>3, SetInduction
<1>5. UpTo(S, Cardinality(S)) = SUBSET S
  BY FS_Subset DEF UpTo
<1> QED
  BY <1>4, <1>5 DEF N

\* Two such functions agree where both are defined.
LEMMA AddsAgree ==
    ASSUME NEW f, NEW S, IsFiniteSet(S), NEW T \in SUBSET S, NEW g, NEW h,
           Adds(g, f, SUBSET S), Adds(h, f, SUBSET T)
    PROVE  \A s \in SUBSET T : g[s] = h[s]
<1> DEFINE N == {n \in Nat : \A s \in SUBSET T : Cardinality(s) = n => g[s] = h[s]}
<1>0. \A s \in SUBSET T : /\ g[s] = IF s = {} THEN 0 ELSE f[Pick(s)] + g[s \ {Pick(s)}]
                          /\ h[s] = IF s = {} THEN 0 ELSE f[Pick(s)] + h[s \ {Pick(s)}]
  <2> TAKE s \in SUBSET T
  <2>1. s \in SUBSET S
    OBVIOUS
  <2> QED
    BY <2>1 DEF Adds
<1>1. 0 \in N
  <2>1. \A s \in SUBSET T : Cardinality(s) = 0 => s = {}
    BY FS_Subset, FS_EmptySet
  <2> QED
    BY <2>1, <1>0
<1>2. ASSUME NEW n \in Nat, n \in N PROVE n + 1 \in N
  <2> SUFFICES ASSUME NEW s \in SUBSET T, Cardinality(s) = n + 1 PROVE g[s] = h[s]
    OBVIOUS
  <2>1. IsFiniteSet(T)
    BY FS_Subset
  <2>2. s # {}
    <3>1. Cardinality({}) = 0
      BY FS_EmptySet
    <3> HIDE DEF N
    <3> QED
      BY <3>1
  <2>3. Pick(s) \in s
    BY <2>2 DEF Pick
  <2>4. Cardinality(s \ {Pick(s)}) = n
    <3>1. Cardinality(s \ {Pick(s)}) = Cardinality(s) - 1
      BY <2>1, <2>3, OneLess
    <3> HIDE DEF N
    <3> QED
      BY <3>1
  <2>5. g[s \ {Pick(s)}] = h[s \ {Pick(s)}]
    BY <2>4, <1>2
  <2> QED
    BY <2>2, <2>5, <1>0
<1> HIDE DEF N
<1>3. Nat \subseteq N
  BY <1>1, <1>2, SetInduction
<1> QED
  <2> TAKE s \in SUBSET T
  <2>1. IsFiniteSet(s)
    BY FS_Subset
  <2>2. Cardinality(s) \in N
    BY <2>1, <1>3, FS_CardinalityType
  <2> QED
    BY <2>2 DEF N

\* The function that is chosen adds up the subsets.
LEMMA AdderAdds ==
    ASSUME NEW f, NEW S, IsFiniteSet(S), NEW s \in SUBSET S
    PROVE  Adder(f, S)[s] = IF s = {} THEN 0 ELSE f[Pick(s)] + Adder(f, S)[s \ {Pick(s)}]
<1>1. PICK g : g = Adder(f, S)
  OBVIOUS
<1>2. Adds(g, f, SUBSET S)
  BY <1>1, AddsExists DEF Adder
<1>3. g[s] = IF s = {} THEN 0 ELSE f[Pick(s)] + g[s \ {Pick(s)}]
  BY <1>2 DEF Adds
<1> QED
  BY <1>1, <1>3

\* The sum over the empty set.
LEMMA SumEmpty == ASSUME NEW f PROVE SumFunctionOnSet(f, {}) = 0
<1>1. PICK S : S = {}
  OBVIOUS
<1>2. IsFiniteSet(S) /\ S \in SUBSET S
  BY <1>1, FS_EmptySet
<1>3. Adder(f, S)[S] = 0
  BY <1>1, <1>2, AdderAdds
<1> QED
  BY <1>1, <1>3, SumByPicking

\* What is added up for a part of a set is the sum over that part.
LEMMA SumOfPart ==
    ASSUME NEW f, NEW S, IsFiniteSet(S), NEW T \in SUBSET S
    PROVE  Adder(f, S)[T] = SumFunctionOnSet(f, T)
<1>1. IsFiniteSet(T)
  BY FS_Subset
<1>2. PICK g : g = Adder(f, S)
  OBVIOUS
<1>3. PICK h : h = Adder(f, T)
  OBVIOUS
<1>4. Adds(g, f, SUBSET S)
  BY <1>2, AddsExists DEF Adder
<1>5. Adds(h, f, SUBSET T)
  BY <1>1, <1>3, AddsExists DEF Adder
<1>6. \A s \in SUBSET T : g[s] = h[s]
  BY <1>4, <1>5, AddsAgree
<1>7. g[T] = h[T]
  BY <1>6
<1> QED
  BY <1>2, <1>3, <1>7, SumByPicking

\* The sum over a set, one element taken first.
LEMMA SumUnfolds ==
    ASSUME NEW f, NEW S, IsFiniteSet(S), S # {}
    PROVE  SumFunctionOnSet(f, S) = f[Pick(S)] + SumFunctionOnSet(f, S \ {Pick(S)})
<1>1. S \in SUBSET S /\ S \ {Pick(S)} \in SUBSET S
  OBVIOUS
<1>2. Adder(f, S)[S] = f[Pick(S)] + Adder(f, S)[S \ {Pick(S)}]
  BY <1>1, AdderAdds
<1> QED
  BY <1>1, <1>2, SumOfPart

--------------------------------------------------------------------------------
\* The values of f over S, in the following always integers.
IntOn(f, S) == \A x \in S : f[x] \in Int

\* What holds of the empty set, and of a set with one more element, holds of a finite set.
LEMMA SetsInduction ==
    ASSUME NEW S, IsFiniteSet(S), NEW Q, {} \in Q,
           \A T \in SUBSET S : T # {} /\ (\A x \in T : T \ {x} \in Q) => T \in Q
    PROVE  S \in Q
<1> DEFINE N == {n \in Nat : \A T \in SUBSET S : Cardinality(T) = n => T \in Q}
<1>1. 0 \in N
  <2>1. \A T \in SUBSET S : Cardinality(T) = 0 => T = {}
    BY FS_Subset, FS_EmptySet
  <2> QED
    BY <2>1
<1>2. ASSUME NEW n \in Nat, n \in N PROVE n + 1 \in N
  <2> SUFFICES ASSUME NEW T \in SUBSET S, Cardinality(T) = n + 1 PROVE T \in Q
    OBVIOUS
  <2>1. T # {}
    BY FS_EmptySet
  <2>2. \A x \in T : T \ {x} \in Q
    <3> TAKE x \in T
    <3>1. Cardinality(T \ {x}) = n /\ T \ {x} \in SUBSET S
      BY OneLess
    <3> QED
      BY <3>1, <1>2
  <2> QED
    BY <2>1, <2>2
<1> HIDE DEF N
<1>3. Cardinality(S) \in N
  BY <1>1, <1>2, SetInduction, FS_CardinalityType
<1> QED
  BY <1>3 DEF N

\* A sum of integers is one.
LEMMA SumIsInt ==
    ASSUME NEW f, NEW S, IsFiniteSet(S), IntOn(f, S)
    PROVE  SumFunctionOnSet(f, S) \in Int
<1> DEFINE Q == {T \in SUBSET S : SumFunctionOnSet(f, T) \in Int}
<1>1. {} \in Q
  BY SumEmpty
<1>2. ASSUME NEW T \in SUBSET S, T # {}, \A x \in T : T \ {x} \in Q PROVE T \in Q
  <2>1. Pick(T) \in T
    BY <1>2 DEF Pick
  <2>2. IsFiniteSet(T)
    BY FS_Subset
  <2>3. SumFunctionOnSet(f, T) = f[Pick(T)] + SumFunctionOnSet(f, T \ {Pick(T)})
    BY <1>2, <2>2, SumUnfolds
  <2> QED
    BY <1>2, <2>1, <2>3 DEF IntOn
<1> HIDE DEF Q
<1>3. S \in Q
  BY <1>1, <1>2, SetsInduction
<1> QED
  BY <1>3 DEF Q

\* Any element may be taken first.
LEMMA SumRemove ==
    ASSUME NEW f, NEW S, IsFiniteSet(S), IntOn(f, S), NEW y \in S
    PROVE  SumFunctionOnSet(f, S) = f[y] + SumFunctionOnSet(f, S \ {y})
<1> DEFINE Q == {T \in SUBSET S : \A x \in T :
                    SumFunctionOnSet(f, T) = f[x] + SumFunctionOnSet(f, T \ {x})}
<1>1. {} \in Q
  OBVIOUS
<1>2. ASSUME NEW T \in SUBSET S, T # {}, \A x \in T : T \ {x} \in Q PROVE T \in Q
  <2> SUFFICES ASSUME NEW x \in T
               PROVE  SumFunctionOnSet(f, T) = f[x] + SumFunctionOnSet(f, T \ {x})
    OBVIOUS
  <2> DEFINE p == Pick(T)
  <2>1. p \in T
    BY <1>2 DEF Pick
  <2>2. IsFiniteSet(T) /\ IsFiniteSet((T \ {p}) \ {x})
    BY FS_Subset
  <2>3. SumFunctionOnSet(f, T) = f[p] + SumFunctionOnSet(f, T \ {p})
    BY <1>2, <2>2, SumUnfolds
  <2>4. CASE x = p
    BY <2>3, <2>4
  <2>5. CASE x # p
    <3>1. SumFunctionOnSet(f, T \ {p}) = f[x] + SumFunctionOnSet(f, (T \ {p}) \ {x})
      BY <1>2, <2>1, <2>5
    <3>2. SumFunctionOnSet(f, T \ {x}) = f[p] + SumFunctionOnSet(f, (T \ {x}) \ {p})
      BY <1>2, <2>1, <2>5
    <3>3. (T \ {p}) \ {x} = (T \ {x}) \ {p}
      OBVIOUS
    <3>4. SumFunctionOnSet(f, (T \ {p}) \ {x}) \in Int
      BY <2>2, SumIsInt DEF IntOn
    <3>5. f[x] \in Int /\ f[p] \in Int
      BY <2>1 DEF IntOn
    <3>6. SumFunctionOnSet(f, T \ {x}) = f[p] + SumFunctionOnSet(f, (T \ {p}) \ {x})
      BY <3>2, <3>3
    <3> HIDE DEF p, Q
    <3> QED
      BY <2>3, <3>1, <3>4, <3>5, <3>6
  <2> QED
    BY <2>4, <2>5
<1> HIDE DEF Q
<1>3. S \in Q
  BY <1>1, <1>2, SetsInduction
<1> QED
  BY <1>3 DEF Q

\* One more element adds its value.
LEMMA SumAdd ==
    ASSUME NEW f, NEW S, IsFiniteSet(S), NEW y, y \notin S, IntOn(f, S \cup {y})
    PROVE  SumFunctionOnSet(f, S \cup {y}) = SumFunctionOnSet(f, S) + f[y]
<1>1. IsFiniteSet(S \cup {y}) /\ (S \cup {y}) \ {y} = S
  BY FS_AddElement
<1>2. SumFunctionOnSet(f, S \cup {y}) = f[y] + SumFunctionOnSet(f, S)
  BY <1>1, SumRemove
<1>3. SumFunctionOnSet(f, S) \in Int
  BY SumIsInt DEF IntOn
<1> QED
  BY <1>2, <1>3 DEF IntOn

\* Functions that agree on a set have the same sum over it.
LEMMA SumEqual ==
    ASSUME NEW f, NEW g, NEW S, IsFiniteSet(S), IntOn(f, S), \A x \in S : f[x] = g[x]
    PROVE  SumFunctionOnSet(f, S) = SumFunctionOnSet(g, S)
<1> DEFINE Q == {T \in SUBSET S : SumFunctionOnSet(f, T) = SumFunctionOnSet(g, T)}
<1>1. {} \in Q
  BY SumEmpty
<1>2. ASSUME NEW T \in SUBSET S, T # {}, \A x \in T : T \ {x} \in Q PROVE T \in Q
  <2>1. PICK x \in T : TRUE
    BY <1>2
  <2>2. IsFiniteSet(T) /\ IntOn(f, T) /\ IntOn(g, T)
    BY FS_Subset DEF IntOn
  <2>3. /\ SumFunctionOnSet(f, T) = f[x] + SumFunctionOnSet(f, T \ {x})
        /\ SumFunctionOnSet(g, T) = g[x] + SumFunctionOnSet(g, T \ {x})
    BY <2>2, SumRemove
  <2> QED
    BY <1>2, <2>3
<1> HIDE DEF Q
<1>3. S \in Q
  BY <1>1, <1>2, SetsInduction
<1> QED
  BY <1>3 DEF Q

\* The sum over a set is the sum over a part of it and over the rest.
LEMMA SumSplit ==
    ASSUME NEW f, NEW S, IsFiniteSet(S), IntOn(f, S), NEW A \in SUBSET S
    PROVE  SumFunctionOnSet(f, S) = SumFunctionOnSet(f, A) + SumFunctionOnSet(f, S \ A)
<1> DEFINE Q == {T \in SUBSET A : SumFunctionOnSet(f, S) = SumFunctionOnSet(f, T) + SumFunctionOnSet(f, S \ T)}
<1>0. IsFiniteSet(A)
  BY FS_Subset
<1>1. {} \in Q
  <2>1. S \ {} = S
    OBVIOUS
  <2> QED
    BY <2>1, SumEmpty, SumIsInt
<1>2. ASSUME NEW T \in SUBSET A, T # {}, \A x \in T : T \ {x} \in Q PROVE T \in Q
  <2>1. PICK x \in T : TRUE
    BY <1>2
  <2> DEFINE U == T \ {x}
  <2>2. /\ IsFiniteSet(T) /\ IsFiniteSet(U) /\ IsFiniteSet(S \ T) /\ IsFiniteSet(S \ U)
        /\ IntOn(f, T) /\ IntOn(f, U) /\ IntOn(f, S \ T) /\ IntOn(f, S \ U) /\ f[x] \in Int
    BY <1>0, FS_Subset DEF IntOn
  <2>3. SumFunctionOnSet(f, T) = f[x] + SumFunctionOnSet(f, U)
    BY <2>2, SumRemove
  <2>4. (S \ U) \ {x} = S \ T /\ x \in S \ U
    OBVIOUS
  <2>5. SumFunctionOnSet(f, S \ U) = f[x] + SumFunctionOnSet(f, (S \ U) \ {x})
    BY <2>2, <2>4, SumRemove
  <2>6. SumFunctionOnSet(f, S) = SumFunctionOnSet(f, U) + SumFunctionOnSet(f, S \ U)
    BY <1>2
  <2>7. SumFunctionOnSet(f, U) \in Int /\ SumFunctionOnSet(f, S \ T) \in Int
    BY <2>2, SumIsInt
  <2>8. SumFunctionOnSet(f, S \ U) = f[x] + SumFunctionOnSet(f, S \ T)
    BY <2>4, <2>5
  <2> HIDE DEF U
  <2>9. SumFunctionOnSet(f, S) = SumFunctionOnSet(f, T) + SumFunctionOnSet(f, S \ T)
    BY <2>2, <2>3, <2>6, <2>7, <2>8
  <2> QED
    BY <2>9
<1> HIDE DEF Q
<1>3. A \in Q
  BY <1>0, <1>1, <1>2, SetsInduction
<1> QED
  BY <1>3 DEF Q

\* A sum of naturals is a natural number.
LEMMA SumIsNat ==
    ASSUME NEW f, NEW S, IsFiniteSet(S), \A x \in S : f[x] \in Nat
    PROVE  SumFunctionOnSet(f, S) \in Nat
<1> DEFINE Q == {T \in SUBSET S : SumFunctionOnSet(f, T) \in Nat}
<1>1. {} \in Q
  BY SumEmpty
<1>2. ASSUME NEW T \in SUBSET S, T # {}, \A x \in T : T \ {x} \in Q PROVE T \in Q
  <2>1. PICK x \in T : TRUE
    BY <1>2
  <2>2. IsFiniteSet(T) /\ IntOn(f, T)
    BY FS_Subset DEF IntOn
  <2>3. SumFunctionOnSet(f, T) = f[x] + SumFunctionOnSet(f, T \ {x})
    BY <2>2, SumRemove
  <2> QED
    BY <1>2, <2>3
<1> HIDE DEF Q
<1>3. S \in Q
  BY <1>1, <1>2, SetsInduction
<1> QED
  BY <1>3 DEF Q
\* Values add up place by place.
LEMMA SumPlus ==
    ASSUME NEW f, NEW g, NEW h, NEW S, IsFiniteSet(S), IntOn(f, S), IntOn(g, S),
           \A x \in S : h[x] = f[x] + g[x]
    PROVE  SumFunctionOnSet(h, S) = SumFunctionOnSet(f, S) + SumFunctionOnSet(g, S)
<1> DEFINE Q == {T \in SUBSET S :
                    SumFunctionOnSet(h, T) = SumFunctionOnSet(f, T) + SumFunctionOnSet(g, T)}
<1>1. {} \in Q
  BY SumEmpty
<1>2. ASSUME NEW T \in SUBSET S, T # {}, \A x \in T : T \ {x} \in Q PROVE T \in Q
  <2>1. PICK x \in T : TRUE
    BY <1>2
  <2> DEFINE U == T \ {x}
  <2>2. /\ IsFiniteSet(T) /\ IsFiniteSet(U) /\ IntOn(f, T) /\ IntOn(g, T) /\ IntOn(h, T)
        /\ IntOn(f, U) /\ IntOn(g, U) /\ h[x] = f[x] + g[x] /\ f[x] \in Int /\ g[x] \in Int
    BY FS_Subset DEF IntOn
  <2>3. /\ SumFunctionOnSet(f, T) = f[x] + SumFunctionOnSet(f, U)
        /\ SumFunctionOnSet(g, T) = g[x] + SumFunctionOnSet(g, U)
        /\ SumFunctionOnSet(h, T) = h[x] + SumFunctionOnSet(h, U)
    BY <2>2, SumRemove
  <2>4. SumFunctionOnSet(f, U) \in Int /\ SumFunctionOnSet(g, U) \in Int
    BY <2>2, SumIsInt
  <2>5. SumFunctionOnSet(h, U) = SumFunctionOnSet(f, U) + SumFunctionOnSet(g, U)
    BY <1>2
  <2> HIDE DEF U
  <2>6. SumFunctionOnSet(h, T) = SumFunctionOnSet(f, T) + SumFunctionOnSet(g, T)
    BY <2>2, <2>3, <2>4, <2>5
  <2> QED
    BY <2>6
<1> HIDE DEF Q
<1>3. S \in Q
  BY <1>1, <1>2, SetsInduction
<1> QED
  BY <1>3 DEF Q

\* What is at most as large everywhere has a sum at most as large.
LEMMA SumAtMost ==
    ASSUME NEW f, NEW g, NEW S, IsFiniteSet(S), IntOn(f, S), IntOn(g, S),
           \A x \in S : f[x] <= g[x]
    PROVE  SumFunctionOnSet(f, S) <= SumFunctionOnSet(g, S)
<1> DEFINE d == [x \in S |-> g[x] - f[x]]
<1>1. \A x \in S : d[x] \in Nat /\ g[x] = f[x] + d[x]
  BY DEF IntOn
<1>2. IntOn(d, S)
  BY <1>1 DEF IntOn
<1> HIDE DEF d
<1>3. SumFunctionOnSet(d, S) \in Nat
  BY <1>1, SumIsNat
<1>4. SumFunctionOnSet(g, S) = SumFunctionOnSet(f, S) + SumFunctionOnSet(d, S)
  BY <1>1, <1>2, SumPlus
<1>5. SumFunctionOnSet(f, S) \in Int
  BY SumIsInt
<1> QED
  BY <1>3, <1>4, <1>5

\* Nothing adds up to nothing.
LEMMA SumZero ==
    ASSUME NEW f, NEW S, IsFiniteSet(S), \A x \in S : f[x] = 0
    PROVE  SumFunctionOnSet(f, S) = 0
<1> DEFINE Q == {T \in SUBSET S : SumFunctionOnSet(f, T) = 0}
<1>1. {} \in Q
  BY SumEmpty
<1>2. ASSUME NEW T \in SUBSET S, T # {}, \A x \in T : T \ {x} \in Q PROVE T \in Q
  <2>1. PICK x \in T : TRUE
    BY <1>2
  <2>2. IsFiniteSet(T) /\ IntOn(f, T)
    BY FS_Subset DEF IntOn
  <2>3. SumFunctionOnSet(f, T) = f[x] + SumFunctionOnSet(f, T \ {x})
    BY <2>2, SumRemove
  <2> QED
    BY <1>2, <2>3
<1> HIDE DEF Q
<1>3. S \in Q
  BY <1>1, <1>2, SetsInduction
<1> QED
  BY <1>3 DEF Q

\* The sum over a part is the sum over the whole of what is zero outside of it.
LEMMA SumOfSome ==
    ASSUME NEW f, NEW h, NEW S, IsFiniteSet(S), NEW T \in SUBSET S, IntOn(f, T),
           \A x \in T : h[x] = f[x], \A x \in S \ T : h[x] = 0
    PROVE  SumFunctionOnSet(f, T) = SumFunctionOnSet(h, S)
<1>1. IsFiniteSet(T) /\ IsFiniteSet(S \ T) /\ IntOn(h, S)
  BY FS_Subset DEF IntOn
<1>2. SumFunctionOnSet(h, S) = SumFunctionOnSet(h, T) + SumFunctionOnSet(h, S \ T)
  BY <1>1, SumSplit
<1>3. SumFunctionOnSet(h, S \ T) = 0
  BY <1>1, SumZero
<1>4. SumFunctionOnSet(f, T) = SumFunctionOnSet(h, T)
  BY <1>1, SumEqual
<1>5. SumFunctionOnSet(f, T) \in Int
  BY <1>1, SumIsInt
<1> QED
  BY <1>2, <1>3, <1>4, <1>5

\* A change in one place changes the sum by as much.
LEMMA SumChanged ==
    ASSUME NEW f, NEW g, NEW S, IsFiniteSet(S), IntOn(f, S), NEW y \in S, g[y] \in Int,
           \A x \in S \ {y} : g[x] = f[x]
    PROVE  SumFunctionOnSet(g, S) = SumFunctionOnSet(f, S) + (g[y] - f[y])
<1>1. IsFiniteSet(S \ {y}) /\ IntOn(f, S \ {y}) /\ IntOn(g, S) /\ f[y] \in Int
  BY FS_Subset DEF IntOn
<1>2. /\ SumFunctionOnSet(f, S) = f[y] + SumFunctionOnSet(f, S \ {y})
      /\ SumFunctionOnSet(g, S) = g[y] + SumFunctionOnSet(g, S \ {y})
  BY <1>1, SumRemove
<1>3. SumFunctionOnSet(f, S \ {y}) = SumFunctionOnSet(g, S \ {y})
  BY <1>1, SumEqual
<1>4. SumFunctionOnSet(f, S \ {y}) \in Int
  BY <1>1, SumIsInt
<1> QED
  BY <1>1, <1>2, <1>3, <1>4

--------------------------------------------------------------------------------
(* Sums along a sequence of n or of n + 1 places.                            *)

\* A place more at the end.
LEMMA SumLast ==
    ASSUME NEW n \in Nat, NEW f, NEW g, IntOn(f, 1..(n + 1)), \A k \in 1..n : g[k] = f[k]
    PROVE  SumFunctionOnSet(f, 1..(n + 1)) = SumFunctionOnSet(g, 1..n) + f[n + 1]
<1>1. /\ IsFiniteSet(1..n)
      /\ 1..(n + 1) = (1..n) \cup {n + 1} /\ n + 1 \notin 1..n
  <2>1. IsFiniteSet(1..n)
    BY FS_Interval
  <2>2. 1..(n + 1) = (1..n) \cup {n + 1} /\ n + 1 \notin 1..n
    OBVIOUS
  <2> QED
    BY <2>1, <2>2
<1>2. IntOn(f, 1..n) /\ IntOn(f, (1..n) \cup {n + 1})
  BY <1>1 DEF IntOn
<1>3. SumFunctionOnSet(f, 1..(n + 1)) = SumFunctionOnSet(f, 1..n) + f[n + 1]
  <2>1. SumFunctionOnSet(f, (1..n) \cup {n + 1}) = SumFunctionOnSet(f, 1..n) + f[n + 1]
    BY <1>1, <1>2, SumAdd
  <2> QED
    BY <1>1, <2>1
<1>4. SumFunctionOnSet(f, 1..n) = SumFunctionOnSet(g, 1..n)
  BY <1>1, <1>2, SumEqual
<1> QED
  BY <1>3, <1>4

\* A place less at the beginning.
LEMMA SumFirst ==
    ASSUME NEW n \in Nat, NEW f, NEW g, IntOn(f, 1..(n + 1)), \A k \in 1..n : g[k] = f[k + 1]
    PROVE  SumFunctionOnSet(f, 1..(n + 1)) = f[1] + SumFunctionOnSet(g, 1..n)
<1> DEFINE S == {m \in Nat : m <= n =>
                   SumFunctionOnSet(f, 1..(m + 1)) = f[1] + SumFunctionOnSet(g, 1..m)}
<1>1. 0 \in S
  <2>1. 1..(0 + 1) = {} \cup {1} /\ 1..0 = {} /\ IsFiniteSet({})
    BY FS_EmptySet
  <2>2. f[1] \in Int /\ IntOn(f, {} \cup {1})
    BY <2>1 DEF IntOn
  <2>3. SumFunctionOnSet(f, {} \cup {1}) = SumFunctionOnSet(f, {}) + f[1]
    BY <2>1, <2>2, SumAdd
  <2>4. SumFunctionOnSet(f, {}) = 0 /\ SumFunctionOnSet(g, {}) = 0
    BY SumEmpty
  <2> QED
    BY <2>1, <2>2, <2>3, <2>4
<1>2. ASSUME NEW m \in Nat, m \in S, m + 1 <= n PROVE m + 1 \in S
  <2>1. /\ SumFunctionOnSet(f, 1..(m + 1)) = f[1] + SumFunctionOnSet(g, 1..m)
        /\ 1..(m + 1) \subseteq 1..n /\ 1..(m + 1 + 1) \subseteq 1..(n + 1)
    BY <1>2
  <2>2. \A k \in 1..(m + 1) : f[k] \in Int /\ g[k] = f[k + 1] /\ g[k] \in Int
    BY <2>1 DEF IntOn
  <2>3. IntOn(f, 1..(m + 1 + 1)) /\ IntOn(g, 1..(m + 1)) /\ IntOn(g, 1..m) /\ f[1] \in Int
    BY <2>1, <2>2 DEF IntOn
  <2>4. SumFunctionOnSet(f, 1..(m + 1 + 1)) = SumFunctionOnSet(f, 1..(m + 1)) + f[m + 1 + 1]
    BY <2>3, SumLast
  <2>5. SumFunctionOnSet(g, 1..(m + 1)) = SumFunctionOnSet(g, 1..m) + g[m + 1]
    BY <2>3, SumLast
  <2>6. IsFiniteSet(1..m) /\ SumFunctionOnSet(g, 1..m) \in Int
    BY <2>3, FS_Interval, SumIsInt
  <2>7. g[m + 1] = f[m + 1 + 1] /\ g[m + 1] \in Int
    BY <2>2
  <2>8. SumFunctionOnSet(f, 1..(m + 1 + 1)) = f[1] + SumFunctionOnSet(g, 1..(m + 1))
    BY <2>1, <2>3, <2>4, <2>5, <2>6, <2>7
  <2> QED
    BY <2>8
<1>3. ASSUME NEW m \in Nat, m \in S PROVE m + 1 \in S
  BY <1>2, <1>3
<1> HIDE DEF S
<1>4. n \in S
  BY <1>1, <1>3, SetInduction
<1> QED
  BY <1>4 DEF S
================================================================================
