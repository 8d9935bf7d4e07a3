------------------------------ MODULE CompactProofs ------------------------------
(* Proofs about compaction, for every timeline, every policy and every token cap.    *)
EXTENDS Compact, NumberLemmas, FiniteSetTheorems, SequenceTheorems

-----------------------------------------------------------------------------
(* Sums. *)

\* What a function sums to, as a set: each argument with as many numbers as its value.
Places(f, S) == UNION {{x} \X (1 .. f[x]) : x \in S}

LEMMA PlacesAre ==
    ASSUME NEW S, IsFiniteSet(S), NEW f, \A x \in S : f[x] \in Nat
    PROVE  /\ IsFiniteSet(Places(f, S))
           /\ Cardinality(Places(f, S)) \in Nat
           /\ \A x \in S : Cardinality(Places(f, S)) =
                                f[x] + Cardinality(Places(f, S \ {x}))
<1> DEFINE P(x) == {x} \X (1 .. f[x])
<1>1. ASSUME NEW x \in S
      PROVE  IsFiniteSet(P(x)) /\ Cardinality(P(x)) = f[x]
  <2>1. IsFiniteSet(1 .. f[x]) /\ Cardinality(1 .. f[x]) = f[x]
    BY <1>1, FS_Interval
  <2>2. IsFiniteSet({x}) /\ Cardinality({x}) = 1
    BY FS_Singleton
  <2>3. IsFiniteSet(P(x)) /\ Cardinality(P(x)) = 1 * f[x]
    BY <2>1, <2>2, FS_Product
  <2> QED
    BY <1>1, <2>3
<1>2. ASSUME NEW T \in SUBSET S PROVE IsFiniteSet(Places(f, T))
  <2> DEFINE All == {P(x) : x \in T}
  <2>1. IsFiniteSet(T)
    BY FS_Subset
  <2>2. IsFiniteSet(All)
    <3> DEFINE g == [x \in T |-> P(x)]
    <3>1. g \in Surjection(T, All)
      BY DEF Surjection
    <3> QED
      BY <2>1, <3>1, FS_Surjection
  <2>3. \A U \in All : IsFiniteSet(U)
    BY <1>1
  <2>4. IsFiniteSet(UNION All)
    <3> HIDE DEF All
    <3> QED
      BY <2>2, <2>3, FS_UNION
  <2> QED
    BY <2>4 DEF Places
<1>3. ASSUME NEW x \in S
      PROVE  Cardinality(Places(f, S)) = f[x] + Cardinality(Places(f, S \ {x}))
  <2> DEFINE A == P(x)
             B == Places(f, S \ {x})
  <2>1. Places(f, S) = A \cup B /\ A \cap B = {}
    BY DEF Places
  <2>2. IsFiniteSet(A) /\ Cardinality(A) = f[x] /\ IsFiniteSet(B)
    BY <1>1, <1>2
  <2> HIDE DEF A, B
  <2>3. Cardinality(A \cup B) = Cardinality(A) + Cardinality(B) - Cardinality(A \cap B)
    BY <2>2, FS_Union
  <2>4. Cardinality(B) \in Nat /\ f[x] \in Nat /\ Cardinality(A \cap B) = 0
    BY <2>1, <2>2, FS_CardinalityType, FS_EmptySet
  <2>5. Cardinality(A \cup B) = f[x] + Cardinality(B)
    BY <2>2, <2>3, <2>4
  <2> QED
    BY <2>1, <2>5 DEF B
<1> QED
  BY <1>2, <1>3, FS_CardinalityType

\* SumFunction is that many.
LEMMA SumIsCount ==
    ASSUME NEW S, IsFiniteSet(S), NEW f \in [S -> Nat]
    PROVE  SumFunction(f) = Cardinality(Places(f, S))
<1> DEFINE Folds(h) == h = [T \in SUBSET S |->
                IF T = {} THEN 0
                ELSE f[CHOOSE x \in T : TRUE] + h[T \ {CHOOSE x \in T : TRUE}]]
           count == [T \in SUBSET S |-> Cardinality(Places(f, T))]
           iter == CHOOSE h : Folds(h)
<1>1. SumFunction(f) = iter[S]
  BY DEF SumFunction, SumFunctionOnSet, FoldFunctionOnSet, MapThenFoldSet
<1>2. ASSUME NEW T \in SUBSET S, T # {}, NEW x \in T
      PROVE  Cardinality(Places(f, T)) = f[x] + Cardinality(Places(f, T \ {x}))
  BY <1>2, PlacesAre, FS_Subset
<1>3. Cardinality(Places(f, {})) = 0
  BY FS_EmptySet DEF Places
<1>4. Folds(count)
  <2> SUFFICES ASSUME NEW T \in SUBSET S
               PROVE  count[T] = IF T = {} THEN 0
                                 ELSE f[CHOOSE x \in T : TRUE]
                                        + count[T \ {CHOOSE x \in T : TRUE}]
    OBVIOUS
  <2>1. CASE T = {}
    BY <1>3, <2>1
  <2>2. CASE T # {}
    BY <1>2, <2>2
  <2> QED
    BY <2>1, <2>2
<1>5. Folds(iter)
  <2> HIDE DEF Folds
  <2> QED
    BY <1>4
<1> HIDE DEF iter
<1>6. ASSUME NEW T \in SUBSET S, T # {}
      PROVE  \E x \in T : iter[T] = f[x] + iter[T \ {x}]
  <2>1. (CHOOSE x \in T : TRUE) \in T
    BY <1>6
  <2> QED
    BY <1>5, <1>6, <2>1
<1>7. iter[{}] = 0
  BY <1>5
<1> DEFINE Wrong == {T \in SUBSET S : iter[T] # count[T]}
           Sizes == {Cardinality(T) : T \in Wrong}
<1>8. \A T \in SUBSET S : IsFiniteSet(T) /\ Cardinality(T) \in Nat
  BY FS_Subset, FS_CardinalityType
<1>9. ASSUME NEW T \in Wrong, \A U \in Wrong : Cardinality(T) <= Cardinality(U)
      PROVE  FALSE
  <2>1. T # {}
    BY <1>3, <1>7, <1>9
  <2>2. PICK x \in T : iter[T] = f[x] + iter[T \ {x}]
    BY <1>6, <1>9, <2>1
  <2>3. Cardinality(T \ {x}) = Cardinality(T) - 1
    BY <1>8, <2>2, FS_RemoveElement
  <2>4. T \ {x} \notin Wrong
    <3>1. T \in SUBSET S /\ Cardinality(T) \in Nat
      BY <1>8, <1>9
    <3>2. ~(Cardinality(T) <= Cardinality(T \ {x}))
      BY <2>3, <3>1
    <3> HIDE DEF Wrong
    <3> QED
      BY <1>9, <3>2
  <2>5. iter[T \ {x}] = Cardinality(Places(f, T \ {x}))
    BY <2>4
  <2> QED
    BY <1>2, <1>9, <2>1, <2>2, <2>5
<1>10. Wrong = {}
  <2> SUFFICES ASSUME Wrong # {} PROVE FALSE
    OBVIOUS
  <2>1. Sizes \subseteq Nat /\ Sizes # {}
    BY <1>8
  <2>2. PICK n \in Sizes : \A m \in Sizes : n <= m
    <3> HIDE DEF Sizes
    <3> QED
      BY <2>1, Smallest
  <2>3. PICK T \in Wrong : n = Cardinality(T)
    BY <2>2
  <2>4. \A U \in Wrong : Cardinality(T) <= Cardinality(U)
    BY <2>2, <2>3
  <2> HIDE DEF Wrong
  <2> QED
    BY <1>9, <2>3, <2>4
<1> QED
  BY <1>1, <1>10

\* Sums of numbers are numbers, and nothing sums to nothing.
LEMMA SumType ==
    ASSUME NEW S, IsFiniteSet(S), NEW f \in [S -> Nat]
    PROVE  /\ SumFunction(f) \in Nat
           /\ S = {} => SumFunction(f) = 0
<1>1. SumFunction(f) = Cardinality(Places(f, S))
  BY SumIsCount
<1>2. Cardinality(Places(f, S)) \in Nat
  BY PlacesAre
<1>3. S = {} => Places(f, S) = {}
  BY DEF Places
<1> QED
  BY <1>1, <1>2, <1>3, FS_EmptySet

\* A sum is its sum without one of the numbers and that number.
LEMMA SumLess ==
    ASSUME NEW S, IsFiniteSet(S), NEW f \in [S -> Nat], NEW x \in S
    PROVE  SumFunction(f) = f[x] + SumFunction([y \in S \ {x} |-> f[y]])
<1> DEFINE T == S \ {x}
           g == [y \in T |-> f[y]]
<1>1. IsFiniteSet(T)
  BY FS_RemoveElement
<1>2. SumFunction(f) = f[x] + Cardinality(Places(f, T))
  BY SumIsCount, PlacesAre
<1>3. Places(f, T) = Places(g, T)
  <2>1. \A y \in T : {y} \X (1 .. g[y]) = {y} \X (1 .. f[y])
    OBVIOUS
  <2> QED
    BY <2>1 DEF Places
<1>4. SumFunction(g) = Cardinality(Places(g, T))
  <2>1. g \in [T -> Nat]
    OBVIOUS
  <2> HIDE DEF g, T
  <2> QED
    BY <1>1, <2>1, SumIsCount
<1> QED
  BY <1>2, <1>3, <1>4

-----------------------------------------------------------------------------
(* Order. *)

\* The numbers of S, smallest first.
Ascending(s, S) ==
    /\ s \in [1 .. Cardinality(S) -> S]
    /\ \A j, k \in 1 .. Cardinality(S) : j < k => s[j] < s[k]
    /\ \A i \in S : \E j \in 1 .. Cardinality(S) : s[j] = i

LEMMA SomeAscending ==
    ASSUME NEW n \in Nat, NEW S \in SUBSET (1 .. n)
    PROVE  \E s : Ascending(s, S)
<1> DEFINE Upto(k) == S \cap 1 .. k
           Missing == {k \in Nat : k <= n /\ ~\E s : Ascending(s, Upto(k))}
<1>1. \A k \in Nat : IsFiniteSet(Upto(k)) /\ Cardinality(Upto(k)) \in Nat
  <2> SUFFICES ASSUME NEW k \in Nat
               PROVE  IsFiniteSet(Upto(k)) /\ Cardinality(Upto(k)) \in Nat
    OBVIOUS
  <2>1. IsFiniteSet(1 .. k)
    BY FS_Interval
  <2>2. IsFiniteSet(Upto(k))
    BY <2>1, FS_Subset
  <2> QED
    BY <2>2, FS_CardinalityType
<1>2. 0 \notin Missing
  <2>1. Upto(0) = {} /\ Cardinality(Upto(0)) = 0
    BY FS_EmptySet
  <2>2. Ascending(<<>>, Upto(0))
    BY <2>1 DEF Ascending
  <2> QED
    BY <2>2
<1>3. ASSUME NEW k \in Nat, k < n, k \notin Missing
      PROVE  k + 1 \notin Missing
  <2>1. PICK s : Ascending(s, Upto(k))
    BY <1>3
  <2>2. CASE k + 1 \notin S
    <3>1. Upto(k + 1) = Upto(k)
      BY <2>2
    <3> QED
      BY <2>1, <3>1
  <2>3. CASE k + 1 \in S
    <3> DEFINE T == Upto(k)
               U == Upto(k + 1)
               c == Cardinality(T)
               t == [j \in 1 .. c + 1 |-> IF j = c + 1 THEN k + 1 ELSE s[j]]
    <3>1. U = T \cup {k + 1} /\ k + 1 \notin T
      BY <2>3
    <3>2. c \in Nat /\ Cardinality(U) = c + 1
      BY <1>1, <3>1, FS_AddElement
    <3>3. \A i \in T : i \in Nat /\ i < k + 1
      OBVIOUS
    <3> HIDE DEF T, U, c
    <3>4. s \in [1 .. c -> T] /\ \A i, j \in 1 .. c : i < j => s[i] < s[j]
      BY <2>1 DEF Ascending, T, c
    <3>5. t \in [1 .. c + 1 -> U]
      BY <3>1, <3>2, <3>4
    <3>6. \A i, j \in 1 .. c + 1 : i < j => t[i] < t[j]
      BY <3>2, <3>3, <3>4
    <3>7. \A i \in U : \E j \in 1 .. c + 1 : t[j] = i
      <4>1. t[c + 1] = k + 1 /\ c + 1 \in 1 .. c + 1
        BY <3>2
      <4>2. ASSUME NEW i \in T PROVE \E j \in 1 .. c + 1 : t[j] = i
        <5>1. PICK j \in 1 .. c : s[j] = i
          BY <2>1, <4>2 DEF Ascending, T, c
        <5>2. j \in 1 .. c + 1 /\ t[j] = i
          BY <3>2, <5>1
        <5> QED
          BY <5>2
      <4> QED
        BY <3>1, <4>1, <4>2
    <3>8. Ascending(t, U)
      BY <3>2, <3>5, <3>6, <3>7 DEF Ascending
    <3> QED
      BY <3>8 DEF U
  <2> QED
    BY <2>2, <2>3
<1>4. Missing = {}
  <2> SUFFICES ASSUME Missing # {} PROVE FALSE
    OBVIOUS
  <2>1. PICK k \in Missing : \A m \in Missing : k <= m
    <3>1. Missing \subseteq Nat
      OBVIOUS
    <3> HIDE DEF Missing
    <3> QED
      BY <3>1, Smallest
  <2>2. k \in Nat /\ k <= n /\ k # 0
    BY <1>2
  <2>3. k - 1 \in Nat /\ k - 1 < n /\ k - 1 \notin Missing /\ (k - 1) + 1 = k
    <3>1. ~(k <= k - 1)
      BY <2>2
    <3> HIDE DEF Missing
    <3> QED
      BY <2>1, <2>2, <3>1
  <2> HIDE DEF Missing
  <2> QED
    BY <1>3, <2>3
<1>5. Upto(n) = S
  OBVIOUS
<1>6. n \notin Missing
  BY <1>4
<1> QED
  BY <1>5, <1>6

\* InOrder lists a set of numbers, smallest first.
LEMMA InOrderAscends ==
    ASSUME NEW n \in Nat, NEW S \in SUBSET (1 .. n)
    PROVE  /\ IsFiniteSet(S)
           /\ Cardinality(S) \in Nat
           /\ Ascending(InOrder(S), S)
<1> DEFINE Sorted(s) == \A j, k \in 1 .. Cardinality(S) : j < k => s[j] < s[k]
<1>1. IsFiniteSet(S) /\ Cardinality(S) \in Nat
  <2>1. IsFiniteSet(1 .. n)
    BY FS_Interval
  <2>2. IsFiniteSet(S)
    BY <2>1, FS_Subset
  <2> QED
    BY <2>2, FS_CardinalityType
<1>2. ASSUME NEW s \in [1 .. Cardinality(S) -> S], Sorted(s) PROVE s \in SetToSeqs(S)
  <2>1. \A j, k \in 1 .. Cardinality(S) : j # k => s[j] # s[k]
    <3> SUFFICES ASSUME NEW j \in 1 .. Cardinality(S), NEW k \in 1 .. Cardinality(S), j # k
                 PROVE  s[j] # s[k]
      OBVIOUS
    <3>1. j < k \/ k < j
      BY <1>1
    <3>2. s[j] \in Nat /\ s[k] \in Nat
      <4>1. s[j] \in S /\ s[k] \in S
        BY <1>2
      <4>2. \A i \in S : i \in Nat
        OBVIOUS
      <4> QED
        BY <4>1, <4>2
    <3>3. s[j] < s[k] \/ s[k] < s[j]
      BY <1>2, <3>1
    <3> QED
      BY <3>2, <3>3
  <2> QED
    BY <1>2, <2>1 DEF SetToSeqs
<1>3. \E s \in SetToSeqs(S) : Sorted(s)
  BY <1>2, SomeAscending DEF Ascending
<1>4. InOrder(S) \in SetToSeqs(S) /\ Sorted(InOrder(S))
  BY <1>3 DEF InOrder
<1>5. \A i \in S : \E j \in 1 .. Cardinality(S) : InOrder(S)[j] = i
  <2>1. InOrder(S) \in Injection(1 .. Cardinality(S), S)
    BY <1>4 DEF SetToSeqs, Injection, IsInjective
  <2>2. IsFiniteSet(1 .. Cardinality(S)) /\ Cardinality(1 .. Cardinality(S)) = Cardinality(S)
    BY <1>1, FS_Interval
  <2>3. InOrder(S) \in Surjection(1 .. Cardinality(S), S)
    BY <1>1, <2>1, <2>2, FS_Injection
  <2> QED
    BY <2>3 DEF Surjection
<1> QED
  BY <1>1, <1>4, <1>5 DEF Ascending, SetToSeqs

\* The listing starts with the listing of the numbers up to any bound.
Below(S, k) == {i \in S : i <= k}

LEMMA InOrderPrefix ==
    ASSUME NEW n \in Nat, NEW S \in SUBSET (1 .. n), NEW k \in Nat
    PROVE  /\ Cardinality(Below(S, k)) <= Cardinality(S)
           /\ \A j \in 1 .. Cardinality(Below(S, k)) :
                InOrder(S)[j] = InOrder(Below(S, k))[j]
<1> DEFINE T == Below(S, k)
           s == InOrder(S)
           t == InOrder(T)
           c == Cardinality(S)
           d == Cardinality(T)
<1>1. T \in SUBSET (1 .. n) /\ T \subseteq S /\ \A i \in S : i <= k => i \in T
  BY DEF Below
<1>2. c \in Nat /\ d \in Nat /\ Ascending(s, S) /\ Ascending(t, T) /\ IsFiniteSet(S)
  BY <1>1, InOrderAscends
<1>3. d <= c
  BY <1>1, <1>2, FS_Subset
<1>4. \A i \in S : i \in Nat
  OBVIOUS
<1> HIDE DEF s, t, c, d
<1>5. /\ s \in [1 .. c -> S] /\ t \in [1 .. d -> T]
      /\ \A i, j \in 1 .. c : i < j => s[i] < s[j]
      /\ \A i, j \in 1 .. d : i < j => t[i] < t[j]
      /\ \A i \in S : \E j \in 1 .. c : s[j] = i
      /\ \A i \in T : \E j \in 1 .. d : t[j] = i
  BY <1>2 DEF Ascending, c, d
<1> DEFINE Wrong == {j \in 1 .. d : s[j] # t[j]}
<1>6. ASSUME NEW j \in 1 .. d, \A i \in 1 .. j - 1 : s[i] = t[i]
      PROVE  s[j] = t[j]
  <2>1. j \in 1 .. c /\ t[j] \in T /\ t[j] \in S /\ s[j] \in S
    BY <1>1, <1>2, <1>3, <1>5
  <2> s[j] \in Nat /\ t[j] \in Nat /\ t[j] <= k
    BY <1>4, <2>1 DEF Below
  <2>2. PICK i \in 1 .. c : s[i] = t[j]
    BY <1>5, <2>1
  <2>3. ~(i < j)
    <3> SUFFICES ASSUME i < j PROVE FALSE
      OBVIOUS
    <3>1. i \in 1 .. j - 1 /\ i \in 1 .. d
      BY <1>2
    <3>2. t[i] < t[j] /\ t[i] = t[j]
      BY <1>5, <1>6, <2>2, <3>1
    <3> QED
      BY <1>4, <2>1, <3>2
  <2>4. ~(j < i)
    <3> SUFFICES ASSUME j < i PROVE FALSE
      OBVIOUS
    <3>1. s[j] < t[j]
      BY <1>5, <2>1, <2>2
    <3>2. s[j] \in T
      BY <1>1, <1>4, <2>1, <3>1
    <3>3. PICK m \in 1 .. d : t[m] = s[j]
      BY <1>5, <3>2
    <3>4. m < j
      <4> SUFFICES ASSUME ~(m < j) PROVE FALSE
        OBVIOUS
      <4>1. m = j \/ j < m
        BY <1>2
      <4>2. t[m] = t[j] \/ t[j] < t[m]
        BY <1>5, <4>1
      <4> QED
        BY <1>4, <2>1, <3>1, <3>3, <4>2
    <3>5. s[m] = t[m] /\ s[m] < s[j]
      <4>1. m \in 1 .. j - 1 /\ m \in 1 .. c
        BY <1>2, <1>3, <3>4
      <4> QED
        BY <1>5, <1>6, <2>1, <3>4, <4>1
    <3> QED
      BY <1>4, <2>1, <3>3, <3>5
  <2> QED
    BY <1>2, <2>2, <2>3, <2>4
<1>7. Wrong = {}
  <2> SUFFICES ASSUME Wrong # {} PROVE FALSE
    OBVIOUS
  <2>1. PICK j \in Wrong : \A i \in Wrong : j <= i
    <3>1. Wrong \subseteq Nat
      BY <1>2
    <3> HIDE DEF Wrong
    <3> QED
      BY <3>1, Smallest
  <2>2. j \in 1 .. d
    OBVIOUS
  <2>3. \A i \in 1 .. j - 1 : i \in 1 .. d /\ i \notin Wrong
    <3> SUFFICES ASSUME NEW i \in 1 .. j - 1 PROVE i \in 1 .. d /\ i \notin Wrong
      OBVIOUS
    <3>1. i \in 1 .. d /\ ~(j <= i)
      BY <1>2, <2>2
    <3> HIDE DEF Wrong
    <3> QED
      BY <2>1, <3>1
  <2>4. s[j] = t[j]
    BY <1>6, <2>2, <2>3
  <2> QED
    BY <2>4
<1> QED
  BY <1>3, <1>7 DEF s, t, c, d

-----------------------------------------------------------------------------
(* Removing duplicates. *)

LEMMA FirstSeenType ==
    ASSUME NEW lines, Len(lines) \in Nat, DOMAIN lines = 1 .. Len(lines)
    PROVE  FirstSeen(lines) \in SUBSET (1 .. Len(lines))
BY DEF FirstSeen

\* What is left are the same lines, each once.
LEMMA DeduplicatedLines ==
    ASSUME NEW X, NEW lines \in Seq(X)
    PROVE  /\ Deduplicated(lines) \in Seq(X)
           /\ Len(Deduplicated(lines)) = Cardinality(FirstSeen(lines))
           /\ ToSet(Deduplicated(lines)) = ToSet(lines)
           /\ \A j, k \in DOMAIN Deduplicated(lines) :
                j # k => Deduplicated(lines)[j] # Deduplicated(lines)[k]
<1> DEFINE F == FirstSeen(lines)
           c == Cardinality(F)
           order == InOrder(F)
           D == Deduplicated(lines)
<1>1. Len(lines) \in Nat /\ DOMAIN lines = 1 .. Len(lines) /\ lines \in [1 .. Len(lines) -> X]
  BY LenProperties
<1>2. F \in SUBSET (1 .. Len(lines)) /\ c \in Nat /\ Ascending(order, F)
  BY <1>1, FirstSeenType, InOrderAscends
<1>3. D = [j \in 1 .. c |-> lines[order[j]]]
  BY DEF Deduplicated
<1>4. order \in [1 .. c -> F] /\ \A i \in F : \E j \in 1 .. c : order[j] = i
  BY <1>2 DEF Ascending
<1>5. \A j, k \in 1 .. c : j < k => order[j] < order[k]
  BY <1>2 DEF Ascending
<1>6. \A i, j \in F : i < j => lines[i] # lines[j]
  BY <1>1 DEF FirstSeen
<1>7. \A i \in 1 .. Len(lines) : \E j \in F : lines[j] = lines[i]
  <2> SUFFICES ASSUME NEW i \in 1 .. Len(lines) PROVE \E j \in F : lines[j] = lines[i]
    OBVIOUS
  <2> DEFINE Same == {j \in 1 .. Len(lines) : lines[j] = lines[i]}
  <2>1. PICK j \in Same : \A k \in Same : j <= k
    <3>1. Same \subseteq Nat /\ Same # {}
      BY <1>1
    <3> HIDE DEF Same
    <3> QED
      BY <3>1, Smallest
  <2>2. j \in DOMAIN lines /\ lines[j] = lines[i]
    BY <1>1
  <2>3. \A k \in 1 .. j - 1 : k \in 1 .. Len(lines) /\ ~(j <= k)
    BY <1>1, <2>2
  <2>4. \A k \in 1 .. j - 1 : lines[k] # lines[j]
    BY <2>1, <2>2, <2>3
  <2> QED
    BY <2>2, <2>4 DEF FirstSeen
<1> HIDE DEF F, c, order, D
<1>8. D \in [1 .. c -> X] /\ c \in Nat
  BY <1>1, <1>2, <1>3, <1>4
<1>9. D \in Seq(X) /\ Len(D) = c /\ DOMAIN D = 1 .. c
  BY <1>8, IsASeq, LenProperties
<1>10. ToSet(D) = ToSet(lines)
  <2>1. ToSet(D) \subseteq ToSet(lines)
    BY <1>1, <1>2, <1>3, <1>4, <1>9 DEF ToSet
  <2>2. ASSUME NEW i \in DOMAIN lines PROVE lines[i] \in ToSet(D)
    <3>1. PICK k \in F : lines[k] = lines[i]
      BY <1>1, <1>7
    <3>2. PICK j \in 1 .. c : order[j] = k
      BY <1>4
    <3> QED
      BY <1>3, <1>9, <3>1, <3>2 DEF ToSet
  <2> QED
    BY <2>1, <2>2 DEF ToSet
<1>11. ASSUME NEW j \in 1 .. c, NEW k \in 1 .. c, j < k PROVE D[j] # D[k]
  BY <1>3, <1>4, <1>5, <1>6, <1>11
<1>12. \A j, k \in 1 .. c : j # k => D[j] # D[k]
  <2> SUFFICES ASSUME NEW j \in 1 .. c, NEW k \in 1 .. c, j # k PROVE D[j] # D[k]
    OBVIOUS
  <2>1. j < k \/ k < j
    BY <1>8
  <2> QED
    BY <1>11, <2>1
<1> QED
  BY <1>9, <1>10, <1>12 DEF D, c, F

\* What stands first stays first: the lines of a come out as they would alone.
LEMMA DeduplicatedPrefix ==
    ASSUME NEW X, NEW a \in Seq(X), NEW b \in Seq(X)
    PROVE  /\ Len(Deduplicated(a)) <= Len(Deduplicated(a \o b))
           /\ \A j \in 1 .. Len(Deduplicated(a)) :
                Deduplicated(a \o b)[j] = Deduplicated(a)[j]
<1> DEFINE ab == a \o b
           S == FirstSeen(ab)
           T == FirstSeen(a)
<1>1. /\ ab \in Seq(X) /\ Len(ab) = Len(a) + Len(b)
      /\ Len(a) \in Nat /\ Len(b) \in Nat
      /\ \A j \in 1 .. Len(a) : ab[j] = a[j]
  BY LenProperties, ConcatProperties
<1>2. DOMAIN a = 1 .. Len(a) /\ DOMAIN ab = 1 .. Len(ab) /\ Len(ab) \in Nat
  BY <1>1, LenProperties
<1> HIDE DEF ab
<1>3. S \in SUBSET (1 .. Len(ab)) /\ T \in SUBSET (1 .. Len(a))
  BY <1>1, <1>2, FirstSeenType
<1>4. \A j : j \in T <=> j \in S /\ j <= Len(a)
  BY <1>1, <1>2 DEF FirstSeen
<1> HIDE DEF S, T
<1>5. /\ Cardinality(T) <= Cardinality(S)
      /\ \A j \in 1 .. Cardinality(T) : InOrder(S)[j] = InOrder(T)[j]
  <2>1. Len(a) \in Nat /\ Len(ab) \in Nat /\ S \in SUBSET (1 .. Len(ab))
    BY <1>1, <1>2, <1>3
  <2>2. T = Below(S, Len(a))
    BY <1>4 DEF Below
  <2> QED
    BY <2>1, <2>2, InOrderPrefix
<1>6. /\ Cardinality(S) \in Nat /\ Cardinality(T) \in Nat
      /\ \A j \in 1 .. Cardinality(T) : InOrder(T)[j] \in 1 .. Len(a)
  BY <1>1, <1>2, <1>3, InOrderAscends DEF Ascending
<1>7. /\ Len(Deduplicated(a)) = Cardinality(T)
      /\ Len(Deduplicated(ab)) = Cardinality(S)
  BY <1>1, DeduplicatedLines DEF S, T
<1>8. ASSUME NEW j \in 1 .. Cardinality(T)
      PROVE  Deduplicated(ab)[j] = Deduplicated(a)[j]
  <2>1. j \in 1 .. Cardinality(S)
    BY <1>5, <1>6
  <2>2. /\ Deduplicated(ab)[j] = ab[InOrder(S)[j]]
        /\ Deduplicated(a)[j] = a[InOrder(T)[j]]
    BY <2>1 DEF Deduplicated, S, T
  <2> QED
    BY <1>1, <1>5, <1>6, <2>2
<1> QED
  BY <1>5, <1>7, <1>8 DEF ab

-----------------------------------------------------------------------------
(* The lines and their cost. *)

\* Every line has some text.
WrittenLine == [shows : SUBSET Nat, length : Nat \ {0}]
ShownBy(lines) == UNION {lines[j].shows : j \in DOMAIN lines}

LEMMA TokensBounds ==
    ASSUME NEW n \in Nat
    PROVE  /\ Tokens(n) \in Nat
           /\ n <= 4 * Tokens(n) + 3
           /\ \A t \in Nat \ {0} : n <= 4 * t + 3 => Tokens(n) <= t
BY DEF Tokens

LEMMA LineOfWritten ==
    ASSUME NEW events \in Seq(Event), NEW i \in DOMAIN events
    PROVE  LineOf(events, i) \in WrittenLine
<1>1. events[i] \in Event /\ i \in Nat
  BY LenProperties
<1>2. KindLength[events[i].kind] \in Nat
  <2>1. events[i].kind \in ChangeKinds
    BY <1>1 DEF Event
  <2> QED
    BY <2>1 DEF KindLength, ChangeKinds
<1>3. events[i].length \in Nat
  BY <1>1, CompactAssumption DEF Event
<1>4. LineOf(events, i).length \in Nat \ {0}
  <2>1. \A a, b \in Nat : \A breaks :
            12 + a + b + (IF breaks THEN 11 ELSE 0) \in Nat \ {0}
    OBVIOUS
  <2>2. LineOf(events, i).length = 12 + KindLength[events[i].kind] + events[i].length
                                      + (IF events[i].breaking THEN 11 ELSE 0)
    BY DEF LineOf
  <2> QED
    BY <1>2, <1>3, <2>1, <2>2
<1>5. {i} \in SUBSET Nat
  BY <1>1
<1> QED
  BY <1>4, <1>5 DEF LineOf, WrittenLine

\* One line for each event of S, oldest first.
LEMMA LinesOfLines ==
    ASSUME NEW events \in Seq(Event), NEW S \in SUBSET (DOMAIN events)
    PROVE  /\ IsFiniteSet(S) /\ Cardinality(S) \in Nat
           /\ LinesOf(events, S) \in Seq(WrittenLine)
           /\ Len(LinesOf(events, S)) = Cardinality(S)
           /\ ToSet(LinesOf(events, S)) = {LineOf(events, i) : i \in S}
           /\ \A j \in 1 .. Cardinality(S) :
                InOrder(S)[j] \in S /\ LinesOf(events, S)[j] = LineOf(events, InOrder(S)[j])
           /\ \A j, k \in 1 .. Cardinality(S) : j < k => InOrder(S)[j] < InOrder(S)[k]
<1> DEFINE c == Cardinality(S)
           s == InOrder(S)
           lines == LinesOf(events, S)
<1>1. Len(events) \in Nat /\ DOMAIN events = 1 .. Len(events)
  BY LenProperties
<1>2. IsFiniteSet(S) /\ c \in Nat /\ Ascending(s, S)
  BY <1>1, InOrderAscends
<1>3. /\ s \in [1 .. c -> S]
      /\ \A j, k \in 1 .. c : j < k => s[j] < s[k]
      /\ \A i \in S : \E j \in 1 .. c : s[j] = i
  BY <1>2 DEF Ascending
<1>4. lines = [j \in 1 .. c |-> LineOf(events, s[j])]
  BY DEF LinesOf
<1>5. \A i \in S : LineOf(events, i) \in WrittenLine
  BY LineOfWritten
<1> HIDE DEF c, s, lines
<1>6. lines \in [1 .. c -> WrittenLine]
  BY <1>3, <1>4, <1>5
<1>7. lines \in Seq(WrittenLine) /\ Len(lines) = c /\ DOMAIN lines = 1 .. c
  BY <1>2, <1>6, IsASeq, LenProperties
<1>8. ToSet(lines) = {LineOf(events, i) : i \in S}
  <2>1. \A j \in 1 .. c : s[j] \in S /\ lines[j] = LineOf(events, s[j])
    BY <1>3, <1>4
  <2>2. \A i \in S : \E j \in 1 .. c : lines[j] = LineOf(events, i)
    BY <1>3, <2>1
  <2> QED
    BY <1>7, <2>1, <2>2 DEF ToSet
<1> QED
  BY <1>2, <1>3, <1>4, <1>7, <1>8 DEF c, s, lines

LEMMA FoldedLineWritten ==
    ASSUME NEW events \in Seq(Event), NEW S \in SUBSET (DOMAIN events), S # {}
    PROVE  FoldedLine(events, S) \in WrittenLine
<1>1. Len(events) \in Nat /\ DOMAIN events = 1 .. Len(events)
  BY LenProperties
<1>2. IsFiniteSet(S) /\ Cardinality(S) \in Nat /\ Cardinality(S) # 0
  BY LinesOfLines, FS_EmptySet
<1>3. \A i \in S : 10 + events[i].length \in Nat
  <2> SUFFICES ASSUME NEW i \in S PROVE 10 + events[i].length \in Nat
    OBVIOUS
  <2>1. events[i] \in Event
    BY <1>1, ElementOfSeq
  <2>2. events[i].length \in Nat
    BY <2>1, CompactAssumption DEF Event
  <2> QED
    BY <2>2
<1>4. SumFunction([i \in S |-> 10 + events[i].length]) \in Nat
  <2> DEFINE f == [i \in S |-> 10 + events[i].length]
  <2>1. f \in [S -> Nat]
    BY <1>3
  <2> HIDE DEF f
  <2>2. SumFunction(f) \in Nat
    BY <1>2, <2>1, SumType
  <2> QED
    BY <2>2 DEF f
<1>5. S \subseteq Nat
  BY <1>1
<1> HIDE DEF SumFunction
<1> QED
  BY <1>2, <1>4, <1>5 DEF FoldedLine, WrittenLine

\* The promoted events and the folded ones are different events of the list.
LEMMA PromotedFolded ==
    ASSUME NEW events \in Seq(Event), NEW has \in BOOLEAN
    PROVE  /\ Promoted(events, has) \in SUBSET (DOMAIN events)
           /\ Folded(events, has) \in SUBSET (DOMAIN events)
           /\ Breaking(events, has) \in SUBSET Promoted(events, has)
           /\ Promoted(events, has) \cap Folded(events, has) = {}
BY DEF Promoted, Folded, Breaking

\* What the plain lines are.
LEMMA PlainLinesTell ==
    ASSUME NEW events \in Seq(Event), NEW has \in BOOLEAN
    PROVE  /\ PlainLines(events, has) \in Seq(WrittenLine)
           /\ ToSet(PlainLines(events, has)) =
                {LineOf(events, i) : i \in Promoted(events, has)}
                \cup (IF Folded(events, has) = {} THEN {}
                      ELSE {FoldedLine(events, Folded(events, has))})
           /\ \A j, k \in DOMAIN PlainLines(events, has) :
                j # k => PlainLines(events, has)[j].shows
                            \cap PlainLines(events, has)[k].shows = {}
           /\ \A j, k \in 1 .. Cardinality(Promoted(events, has)) : j < k =>
                \A a \in PlainLines(events, has)[j].shows,
                   b \in PlainLines(events, has)[k].shows : a < b
<1> DEFINE P == Promoted(events, has)
           F == Folded(events, has)
           c == Cardinality(P)
           lines == LinesOf(events, P)
           tail == IF F = {} THEN <<>> ELSE <<FoldedLine(events, F)>>
           plain == PlainLines(events, has)
<1>1. P \in SUBSET (DOMAIN events) /\ F \in SUBSET (DOMAIN events) /\ P \cap F = {}
  BY PromotedFolded
<1>2. DOMAIN events \subseteq Nat
  BY LenProperties
<1>3. /\ c \in Nat /\ lines \in Seq(WrittenLine) /\ Len(lines) = c
      /\ ToSet(lines) = {LineOf(events, i) : i \in P}
      /\ \A j \in 1 .. c : InOrder(P)[j] \in P /\ lines[j] = LineOf(events, InOrder(P)[j])
      /\ \A j, k \in 1 .. c : j < k => InOrder(P)[j] < InOrder(P)[k]
  BY <1>1, LinesOfLines
<1>4. tail \in Seq(WrittenLine) /\ Len(tail) = (IF F = {} THEN 0 ELSE 1)
  BY <1>1, FoldedLineWritten
<1>5. F # {} => tail[1] = FoldedLine(events, F)
  OBVIOUS
<1>6. \A i : LineOf(events, i).shows = {i}
  BY DEF LineOf
<1>7. FoldedLine(events, F).shows = F
  BY DEF FoldedLine
<1>8. plain = lines \o tail
  BY DEF PlainLines
<1> HIDE DEF P, F, c, lines, tail, plain
<1>9. /\ plain \in Seq(WrittenLine) /\ Len(plain) = c + Len(tail)
      /\ DOMAIN plain = 1 .. Len(plain)
      /\ \A j \in 1 .. c : plain[j] = lines[j]
      /\ F # {} => plain[c + 1] = FoldedLine(events, F)
  <2>1. /\ plain \in Seq(WrittenLine)
        /\ Len(plain) = Len(lines) + Len(tail)
        /\ \A j \in 1 .. Len(lines) + Len(tail) :
              plain[j] = IF j <= Len(lines) THEN lines[j] ELSE tail[j - Len(lines)]
    BY <1>3, <1>4, <1>8, ConcatProperties
  <2> QED
    BY <1>3, <1>4, <1>5, <2>1, LenProperties
<1>10. \A j \in 1 .. c : InOrder(P)[j] \in P /\ plain[j].shows = {InOrder(P)[j]}
  BY <1>3, <1>6, <1>9
<1>11. \A j \in DOMAIN plain : j \in 1 .. c \/ (F # {} /\ j = c + 1 /\ plain[j].shows = F)
  BY <1>3, <1>4, <1>7, <1>9
<1>12. ASSUME NEW j \in DOMAIN plain, NEW k \in DOMAIN plain, j < k
       PROVE  plain[j].shows \cap plain[k].shows = {}
  <2>1. j \in 1 .. c
    BY <1>3, <1>9, <1>11, <1>12
  <2>2. CASE k \in 1 .. c
    <3>1. InOrder(P)[j] < InOrder(P)[k]
      BY <1>3, <1>12, <2>1, <2>2
    <3>2. InOrder(P)[j] \in Nat
      BY <1>1, <1>2, <1>3, <2>1
    <3> QED
      BY <1>10, <2>1, <2>2, <3>1, <3>2
  <2>3. CASE k \notin 1 .. c
    BY <1>1, <1>10, <1>11, <2>1, <2>3
  <2> QED
    BY <2>2, <2>3
<1>13. \A j, k \in DOMAIN plain : j # k => plain[j].shows \cap plain[k].shows = {}
  <2> SUFFICES ASSUME NEW j \in DOMAIN plain, NEW k \in DOMAIN plain, j # k
               PROVE  plain[j].shows \cap plain[k].shows = {}
    OBVIOUS
  <2>1. j < k \/ k < j
    BY <1>9, LenProperties
  <2> QED
    BY <1>12, <2>1
<1>14. \A j, k \in 1 .. c : j < k =>
            \A a \in plain[j].shows, b \in plain[k].shows : a < b
  BY <1>3, <1>10
<1>15. ToSet(plain) = {LineOf(events, i) : i \in P}
                        \cup (IF F = {} THEN {} ELSE {FoldedLine(events, F)})
  <2>1. \A j \in DOMAIN plain : \/ j \in 1 .. c /\ plain[j] \in {LineOf(events, i) : i \in P}
                                \/ F # {} /\ plain[j] = FoldedLine(events, F)
    BY <1>3, <1>9, <1>11
  <2>2. \A i \in P : \E j \in DOMAIN plain : plain[j] = LineOf(events, i)
    <3> SUFFICES ASSUME NEW i \in P PROVE \E j \in DOMAIN plain : plain[j] = LineOf(events, i)
      OBVIOUS
    <3>1. LineOf(events, i) \in ToSet(lines) /\ DOMAIN lines = 1 .. c
      BY <1>3, LenProperties
    <3>2. PICK j \in 1 .. c : lines[j] = LineOf(events, i)
      BY <3>1 DEF ToSet
    <3>3. j \in DOMAIN plain
      BY <1>3, <1>4, <1>9
    <3> QED
      BY <1>9, <3>2, <3>3
  <2>3. F # {} => c + 1 \in DOMAIN plain /\ plain[c + 1] = FoldedLine(events, F)
    BY <1>3, <1>4, <1>9
  <2> QED
    BY <2>1, <2>2, <2>3 DEF ToSet
<1> QED
  BY <1>9, <1>13, <1>14, <1>15 DEF P, F, c, plain

\* What MustKeep puts first are lines of promoted events, those of breaking changes with
\* them when the policy says so.
LEMMA MustKeepLines ==
    ASSUME NEW events \in Seq(Event), NEW has \in BOOLEAN
    PROVE  /\ MustKeep(events, has) \in Seq(WrittenLine)
           /\ ToSet(MustKeep(events, has))
                \subseteq {LineOf(events, i) : i \in Promoted(events, has)}
           /\ "unresolved_breaking" \in KeepOnOverflow =>
                {LineOf(events, i) : i \in Breaking(events, has)}
                    \subseteq ToSet(MustKeep(events, has))
<1> DEFINE P == Promoted(events, has)
           B == Breaking(events, has)
           promoted == LinesOf(events, P)
           breaking == LinesOf(events, B)
           Allowed == {LineOf(events, i) : i \in P}
           Broken == {LineOf(events, i) : i \in B}
           keep == MustKeep(events, has)
<1>1. P \in SUBSET (DOMAIN events) /\ B \in SUBSET P
  BY PromotedFolded
<1>2. promoted \in Seq(WrittenLine) /\ ToSet(promoted) = Allowed
  BY <1>1, LinesOfLines
<1>3. breaking \in Seq(WrittenLine) /\ ToSet(breaking) = Broken
  <2>1. B \in SUBSET (DOMAIN events)
    BY <1>1
  <2> HIDE DEF B
  <2> QED
    BY <2>1, LinesOfLines
<1>4. Broken \subseteq Allowed
  BY <1>1
<1>5. Allowed \subseteq WrittenLine
  <2>1. \A i \in P : LineOf(events, i) \in WrittenLine
    BY <1>1, LineOfWritten
  <2> QED
    BY <2>1
<1> DEFINE first == IF "origin" \in KeepOnOverflow THEN <<promoted[1]>> ELSE <<>>
           middle == IF "unresolved_breaking" \in KeepOnOverflow THEN breaking ELSE <<>>
           last == IF "latest" \in KeepOnOverflow THEN <<promoted[Len(promoted)]>> ELSE <<>>
<1>6. keep = IF promoted = <<>> THEN <<>> ELSE first \o middle \o last
  BY DEF MustKeep
<1>7. CASE promoted = <<>>
  <2>1. keep = <<>>
    BY <1>6, <1>7
  <2>2. ToSet(promoted) = {}
    BY <1>7 DEF ToSet
  <2>3. ToSet(keep) = {} /\ keep \in Seq(WrittenLine)
    BY <2>1 DEF ToSet
  <2>4. Broken = {}
    BY <1>2, <1>4, <2>2
  <2> QED
    BY <2>3, <2>4
<1>8. CASE promoted # <<>>
  <2>1. promoted[1] \in Allowed /\ promoted[Len(promoted)] \in Allowed
    <3>1. Len(promoted) \in Nat /\ Len(promoted) # 0 /\ DOMAIN promoted = 1 .. Len(promoted)
      BY <1>2, <1>8, LenProperties, EmptySeq
    <3>2. 1 \in DOMAIN promoted /\ Len(promoted) \in DOMAIN promoted
      BY <3>1
    <3> QED
      BY <1>2, <3>2 DEF ToSet
  <2>2. Broken = {breaking[j] : j \in DOMAIN breaking}
    BY <1>3 DEF ToSet
  <2>3. keep = first \o middle \o last
    BY <1>6, <1>8
  <2> HIDE DEF promoted, breaking, Allowed, Broken, keep
  <2>4. /\ first \in Seq(Allowed)
        /\ last \in Seq(Allowed)
    BY <2>1
  <2>5. /\ middle \in Seq(Allowed)
        /\ "unresolved_breaking" \in KeepOnOverflow =>
              \A l \in Broken : \E j \in DOMAIN middle : middle[j] = l
    <3>1. breaking \in Seq(Broken)
      BY <1>3, <2>2, LenProperties, IsASeq
    <3>2. breaking \in Seq(Allowed)
      BY <1>4, <3>1, SeqMonotonic
    <3> QED
      BY <2>2, <3>2
  <2> HIDE DEF first, middle, last
  <2>6. first \o middle \in Seq(Allowed) /\ keep \in Seq(Allowed)
    BY <2>3, <2>4, <2>5, ConcatProperties
  <2>7. keep \in Seq(WrittenLine)
    BY <1>5, <2>6, SeqMonotonic
  <2>8. ToSet(keep) \subseteq Allowed
    BY <2>6, ElementOfSeq, LenProperties DEF ToSet
  <2>9. ASSUME "unresolved_breaking" \in KeepOnOverflow, NEW l \in Broken
        PROVE  l \in ToSet(keep)
    <3>1. PICK j \in DOMAIN middle : middle[j] = l
      BY <2>5, <2>9
    <3> DEFINE k == Len(first) + j
    <3>2. /\ Len(first) \in Nat /\ Len(middle) \in Nat /\ Len(last) \in Nat
          /\ DOMAIN middle = 1 .. Len(middle) /\ DOMAIN keep = 1 .. Len(keep)
      BY <2>4, <2>5, <2>6, LenProperties
    <3>3. /\ Len(first \o middle) = Len(first) + Len(middle)
          /\ \A i \in 1 .. Len(first) + Len(middle) :
                (first \o middle)[i] = IF i <= Len(first) THEN first[i]
                                       ELSE middle[i - Len(first)]
      BY <2>4, <2>5, ConcatProperties
    <3>4. /\ Len(keep) = Len(first \o middle) + Len(last)
          /\ \A i \in 1 .. Len(first \o middle) + Len(last) :
                keep[i] = IF i <= Len(first \o middle) THEN (first \o middle)[i]
                          ELSE last[i - Len(first \o middle)]
      BY <2>3, <2>4, <2>6, ConcatProperties
    <3>5. k \in 1 .. Len(first) + Len(middle) /\ k - Len(first) = j /\ ~(k <= Len(first))
      BY <3>1, <3>2
    <3>6. (first \o middle)[k] = l
      BY <3>1, <3>3, <3>5
    <3>7. k \in DOMAIN keep /\ keep[k] = l
      BY <3>2, <3>3, <3>4, <3>5, <3>6
    <3> QED
      BY <3>7 DEF ToSet
  <2> QED
    BY <2>7, <2>8, <2>9 DEF Allowed, Broken, keep
<1> QED
  BY <1>7, <1>8

\* The longest leading part within the cap, one line at least.
LEMMA PrefixIsLongest ==
    ASSUME NEW X, NEW lines \in Seq(X), lines # <<>>
    PROVE  \E m \in 1 .. Len(lines) :
              /\ PrefixWithinCap(lines) = SubSeq(lines, 1, m)
              /\ m = 1 \/ LinesTokens(SubSeq(lines, 1, m)) <= TokenCap
              /\ \A k \in 1 .. Len(lines) :
                    LinesTokens(SubSeq(lines, 1, k)) <= TokenCap => k <= m
<1> DEFINE fits == {j \in 1 .. Len(lines) :
                      j = 1 \/ LinesTokens(SubSeq(lines, 1, j)) <= TokenCap}
<1>1. Len(lines) \in Nat /\ Len(lines) # 0
  BY LenProperties, EmptySeq
<1>2. fits \subseteq 0 .. Len(lines) /\ 1 \in fits
  BY <1>1
<1>3. \E m \in fits : \A k \in fits : k <= m
  <2> HIDE DEF fits
  <2> QED
    BY <1>1, <1>2, Largest
<1> DEFINE m == CHOOSE j \in fits : \A k \in fits : k <= j
<1>4. m \in fits /\ \A k \in fits : k <= m
  <2> HIDE DEF fits
  <2> QED
    BY <1>3
<1>5. PrefixWithinCap(lines) = SubSeq(lines, 1, m)
  BY DEF PrefixWithinCap
<1> HIDE DEF m
<1> QED
  BY <1>4, <1>5

LEMMA NextInterval ==
    ASSUME NEW k \in Nat
    PROVE  1 .. k + 1 = (1 .. k) \cup {k + 1} /\ k + 1 \notin 1 .. k
OBVIOUS

\* Dividing every length by four loses less than four characters a line.
LEMMA SumOfQuarters ==
    ASSUME NEW n \in Nat, NEW f \in [1 .. n -> Nat], NEW g \in [1 .. n -> Nat],
           \A j \in 1 .. n : f[j] <= 4 * g[j] + 3
    PROVE  SumFunction(f) <= 4 * SumFunction(g) + 3 * n
<1> DEFINE Cut(h, k) == [j \in 1 .. k |-> h[j]]
           Wrong == {k \in 0 .. n :
                        ~(SumFunction(Cut(f, k)) <= 4 * SumFunction(Cut(g, k)) + 3 * k)}
<1>1. ASSUME NEW k \in 0 .. n
      PROVE  /\ IsFiniteSet(1 .. k)
             /\ Cut(f, k) \in [1 .. k -> Nat] /\ Cut(g, k) \in [1 .. k -> Nat]
  <2>1. k \in Int /\ \A j \in 1 .. k : j \in 1 .. n
    OBVIOUS
  <2>2. IsFiniteSet(1 .. k)
    BY <2>1, FS_Interval
  <2> QED
    BY <2>1, <2>2
<1>2. 0 \notin Wrong
  <2>1. 1 .. 0 = {}
    OBVIOUS
  <2>2. 0 \in 0 .. n
    OBVIOUS
  <2>3. SumFunction(Cut(f, 0)) = 0 /\ SumFunction(Cut(g, 0)) = 0
    <3>1. IsFiniteSet(1 .. 0) /\ Cut(f, 0) \in [1 .. 0 -> Nat] /\ Cut(g, 0) \in [1 .. 0 -> Nat]
      BY <1>1, <2>2
    <3> HIDE DEF Cut
    <3> QED
      BY <2>1, <3>1, SumType
  <2> HIDE DEF Cut
  <2> QED
    BY <2>3
<1>3. ASSUME NEW k \in 0 .. n - 1, k \notin Wrong
      PROVE  k + 1 \notin Wrong
  <2>1. k \in 0 .. n /\ k + 1 \in 0 .. n /\ k + 1 \in 1 .. n
    OBVIOUS
  <2>2. ASSUME NEW h \in [1 .. n -> Nat]
        PROVE  /\ SumFunction(Cut(h, k)) \in Nat
               /\ SumFunction(Cut(h, k + 1)) = SumFunction(Cut(h, k)) + h[k + 1]
    <3>1. 1 .. k + 1 = (1 .. k) \cup {k + 1} /\ k + 1 \notin 1 .. k
      <4>1. k \in Nat
        OBVIOUS
      <4> QED
        BY <4>1, NextInterval
    <3>2. IsFiniteSet(1 .. k)
      BY <2>1, FS_Interval
    <3>3. Cut(h, k) \in [1 .. k -> Nat] /\ Cut(h, k + 1) \in [1 .. k + 1 -> Nat]
      BY <2>1
    <3>4. (1 .. k + 1) \ {k + 1} = 1 .. k
      BY <3>1
    <3> DEFINE Rest == [y \in (1 .. k + 1) \ {k + 1} |-> Cut(h, k + 1)[y]]
    <3>5. /\ Rest = Cut(h, k)
          /\ Cut(h, k + 1)[k + 1] = h[k + 1]
      <4>1. [y \in 1 .. k |-> Cut(h, k + 1)[y]] = Cut(h, k)
        BY <2>1, <3>1
      <4>2. Cut(h, k + 1)[k + 1] = h[k + 1]
        BY <2>1
      <4> HIDE DEF Cut
      <4> QED
        BY <3>4, <4>1, <4>2
    <3>6. IsFiniteSet(1 .. k + 1) /\ k + 1 \in 1 .. k + 1
      BY <2>1, FS_Interval
    <3> HIDE DEF Cut
    <3>7. SumFunction(Cut(h, k + 1)) =
            Cut(h, k + 1)[k + 1] + SumFunction(Rest)
      BY <3>3, <3>6, SumLess
    <3> HIDE DEF Rest
    <3>8. SumFunction(Cut(h, k)) \in Nat
      BY <3>2, <3>3, SumType
    <3>9. h[k + 1] \in Nat
      BY <2>1
    <3>10. SumFunction(Cut(h, k + 1)) = h[k + 1] + SumFunction(Cut(h, k))
      BY <3>5, <3>7, Zenon
    <3>11. \A a, b \in Nat : a + b = b + a
      OBVIOUS
    <3>12. h[k + 1] + SumFunction(Cut(h, k)) = SumFunction(Cut(h, k)) + h[k + 1]
      BY <3>8, <3>9, <3>11, Zenon
    <3> QED
      BY <3>8, <3>10, <3>12, Zenon
  <2>3. f[k + 1] \in Nat /\ g[k + 1] \in Nat /\ f[k + 1] <= 4 * g[k + 1] + 3
    BY <2>1
  <2>4. SumFunction(Cut(f, k)) <= 4 * SumFunction(Cut(g, k)) + 3 * k
    <3> HIDE DEF Cut
    <3> QED
      BY <1>3, <2>1
  <2>5. /\ SumFunction(Cut(f, k)) \in Nat /\ SumFunction(Cut(g, k)) \in Nat
        /\ SumFunction(Cut(f, k + 1)) = SumFunction(Cut(f, k)) + f[k + 1]
        /\ SumFunction(Cut(g, k + 1)) = SumFunction(Cut(g, k)) + g[k + 1]
    BY <2>2
  <2> HIDE DEF Cut
  <2> QED
    BY <2>3, <2>4, <2>5
<1>4. Wrong = {}
  <2> SUFFICES ASSUME Wrong # {} PROVE FALSE
    OBVIOUS
  <2>1. PICK k \in Wrong : \A m \in Wrong : k <= m
    <3>1. Wrong \subseteq Nat
      OBVIOUS
    <3> HIDE DEF Wrong
    <3> QED
      BY <3>1, Smallest
  <2>2. k \in 0 .. n
    OBVIOUS
  <2> HIDE DEF Wrong
  <2>3. k # 0
    BY <1>2
  <2>4. k - 1 \in 0 .. n - 1 /\ (k - 1) + 1 = k /\ ~(k <= k - 1)
    BY <2>2, <2>3
  <2> QED
    BY <1>3, <2>1, <2>4
<1>5. Cut(f, n) = f /\ Cut(g, n) = g /\ n \in 0 .. n
  OBVIOUS
<1> HIDE DEF Cut
<1>6. ~(n \in Wrong)
  <2> HIDE DEF Wrong
  <2> QED
    BY <1>4
<1> QED
  BY <1>5, <1>6

\* The lengths and the costs of some lines, and what they add up to.
LEMMA LengthsOf ==
    ASSUME NEW lines \in Seq(WrittenLine)
    PROVE  LET f == [j \in DOMAIN lines |-> lines[j].length]
               g == [j \in DOMAIN lines |-> Tokens(lines[j].length)]
           IN  /\ f \in [1 .. Len(lines) -> Nat] /\ g \in [1 .. Len(lines) -> Nat]
               /\ \A j \in 1 .. Len(lines) : f[j] <= 4 * g[j] + 3
               /\ SumFunction(f) \in Nat /\ SumFunction(g) \in Nat
               /\ TextTokens(lines) \in Nat
<1> DEFINE f == [j \in DOMAIN lines |-> lines[j].length]
           g == [j \in DOMAIN lines |-> Tokens(lines[j].length)]
<1>1. DOMAIN lines = 1 .. Len(lines) /\ Len(lines) \in Nat
  BY LenProperties
<1>2. \A j \in 1 .. Len(lines) : lines[j].length \in Nat
  <2> SUFFICES ASSUME NEW j \in 1 .. Len(lines) PROVE lines[j].length \in Nat
    OBVIOUS
  <2>1. lines[j] \in WrittenLine
    BY ElementOfSeq
  <2> QED
    BY <2>1 DEF WrittenLine
<1>3. \A j \in 1 .. Len(lines) :
          Tokens(lines[j].length) \in Nat /\ lines[j].length <= 4 * Tokens(lines[j].length) + 3
  BY <1>2, TokensBounds
<1>4. f \in [1 .. Len(lines) -> Nat] /\ g \in [1 .. Len(lines) -> Nat]
  BY <1>1, <1>2, <1>3
<1>5. \A j \in 1 .. Len(lines) : f[j] <= 4 * g[j] + 3
  BY <1>1, <1>3
<1>6. SumFunction(f) \in Nat /\ SumFunction(g) \in Nat
  <2>1. IsFiniteSet(1 .. Len(lines))
    BY <1>1, FS_Interval
  <2> HIDE DEF f, g
  <2> QED
    BY <1>4, <2>1, SumType
<1>7. TextTokens(lines) \in Nat
  <2>1. CASE lines = <<>>
    BY <2>1 DEF TextTokens
  <2>2. CASE lines # <<>>
    <3>1. Len(lines) # 0
      BY <2>2, EmptySeq
    <3>2. TextTokens(lines) = Tokens(SumFunction(f) + Len(lines) - 1)
      BY <2>2 DEF TextTokens
    <3> HIDE DEF f
    <3> QED
      BY <1>1, <1>6, <3>1, <3>2, TokensBounds
  <2> QED
    BY <2>1, <2>2
<1> QED
  BY <1>4, <1>5, <1>6, <1>7

-----------------------------------------------------------------------------
(* compact_entity, whatever list of events it reads. *)

Told(events, has) == Promoted(events, has) \cup Folded(events, has)

\* What SummaryTellsTimeline says of the lines made from a list of events.
Tells(lines, events, has) ==
    /\ ShownBy(lines) \subseteq Told(events, has)
    /\ \A j, k \in DOMAIN lines : j # k => lines[j].shows \cap lines[k].shows = {}
    /\ TextTokens(PlainLines(events, has)) <= TokenCap =>
        /\ ShownBy(lines) = Told(events, has)
        /\ \A j, k \in 1 .. Cardinality(Promoted(events, has)) :
            j < k => \A a \in lines[j].shows, b \in lines[k].shows : a < b

LEMMA PlainLinesShow ==
    ASSUME NEW events \in Seq(Event), NEW has \in BOOLEAN
    PROVE  ShownBy(PlainLines(events, has)) = Told(events, has)
<1> DEFINE P == Promoted(events, has)
           F == Folded(events, has)
           plain == PlainLines(events, has)
<1>1. ToSet(plain) = {LineOf(events, i) : i \in P}
                        \cup (IF F = {} THEN {} ELSE {FoldedLine(events, F)})
  BY PlainLinesTell
<1>2. ShownBy(plain) = UNION {l.shows : l \in ToSet(plain)}
  BY DEF ShownBy, ToSet
<1>3. (\A i : LineOf(events, i).shows = {i}) /\ FoldedLine(events, F).shows = F
  BY DEF LineOf, FoldedLine
<1> HIDE DEF P, F, plain
<1>4. UNION {l.shows : l \in ToSet(plain)} = P \cup F
  <2>1. \A l \in ToSet(plain) : l.shows \subseteq P \cup F
    BY <1>1, <1>3
  <2>2. \A i \in P : LineOf(events, i) \in ToSet(plain) /\ i \in LineOf(events, i).shows
    BY <1>1, <1>3
  <2>3. F # {} => FoldedLine(events, F) \in ToSet(plain)
    BY <1>1
  <2> QED
    BY <1>3, <2>1, <2>2, <2>3
<1> QED
  BY <1>2, <1>4 DEF Told, P, F, plain

\* Over the cap, what is stored is the start of the prioritised lines.
LEMMA ShortenedLines ==
    ASSUME NEW events \in Seq(Event), NEW has \in BOOLEAN,
           ~(TextTokens(PlainLines(events, has)) <= TokenCap)
    PROVE  LET R == Prioritised(events, has)
           IN  /\ R \in Seq(WrittenLine)
               /\ ToSet(R) = ToSet(PlainLines(events, has))
               /\ \A j, k \in DOMAIN R : j # k => R[j].shows \cap R[k].shows = {}
               /\ \E m \in 1 .. Len(R) :
                    /\ Compacted(events, has) = SubSeq(R, 1, m)
                    /\ m = 1 \/ LinesTokens(SubSeq(R, 1, m)) <= TokenCap
                    /\ \A k \in 1 .. Len(R) :
                        LinesTokens(SubSeq(R, 1, k)) <= TokenCap => k <= m
<1> DEFINE plain == PlainLines(events, has)
           keep == MustKeep(events, has)
           R == Prioritised(events, has)
<1>1. /\ plain \in Seq(WrittenLine)
      /\ {LineOf(events, i) : i \in Promoted(events, has)} \subseteq ToSet(plain)
      /\ \A j, k \in DOMAIN plain : j # k => plain[j].shows \cap plain[k].shows = {}
  BY PlainLinesTell
<1>2. keep \in Seq(WrittenLine) /\ ToSet(keep) \subseteq ToSet(plain)
  BY <1>1, MustKeepLines
<1>3. plain # <<>>
  BY CompactAssumption DEF TextTokens
<1>4. R = Deduplicated(keep \o plain)
  BY DEF Prioritised
<1>5. Compacted(events, has) = PrefixWithinCap(R)
  <2>1. TextTokens(plain) \in Nat
    BY <1>1, LengthsOf
  <2>2. TextTokens(plain) > TokenCap
    BY <2>1, CompactAssumption
  <2> QED
    BY <2>2 DEF Compacted
<1> HIDE DEF plain, keep, R
<1>6. keep \o plain \in Seq(WrittenLine) /\ ToSet(keep \o plain) = ToSet(plain)
  <2>1. /\ keep \o plain \in Seq(WrittenLine)
        /\ Len(keep \o plain) = Len(keep) + Len(plain)
        /\ \A i \in 1 .. Len(keep) + Len(plain) :
              (keep \o plain)[i] = IF i <= Len(keep) THEN keep[i] ELSE plain[i - Len(keep)]
    BY <1>1, <1>2, ConcatProperties
  <2>2. /\ Len(keep) \in Nat /\ Len(plain) \in Nat
        /\ DOMAIN keep = 1 .. Len(keep) /\ DOMAIN plain = 1 .. Len(plain)
        /\ DOMAIN (keep \o plain) = 1 .. Len(keep) + Len(plain)
    BY <1>1, <1>2, <2>1, LenProperties
  <2>3. ASSUME NEW i \in DOMAIN (keep \o plain) PROVE (keep \o plain)[i] \in ToSet(plain)
    <3>1. CASE i <= Len(keep)
      <4>1. i \in DOMAIN keep /\ (keep \o plain)[i] = keep[i]
        BY <2>1, <2>2, <2>3, <3>1
      <4> QED
        BY <1>2, <4>1 DEF ToSet
    <3>2. CASE ~(i <= Len(keep))
      <4>1. i - Len(keep) \in DOMAIN plain /\ (keep \o plain)[i] = plain[i - Len(keep)]
        BY <2>1, <2>2, <2>3, <3>2
      <4> QED
        BY <4>1 DEF ToSet
    <3> QED
      BY <3>1, <3>2
  <2>4. ASSUME NEW i \in DOMAIN plain
        PROVE  \E j \in DOMAIN (keep \o plain) : (keep \o plain)[j] = plain[i]
    <3> DEFINE j == Len(keep) + i
    <3>1. j \in DOMAIN (keep \o plain) /\ ~(j <= Len(keep)) /\ j - Len(keep) = i
      BY <2>2, <2>4
    <3>2. (keep \o plain)[j] = plain[i]
      BY <2>1, <2>2, <3>1
    <3> QED
      BY <3>1, <3>2
  <2> QED
    BY <2>1, <2>3, <2>4 DEF ToSet
<1>7. /\ R \in Seq(WrittenLine)
      /\ ToSet(R) = ToSet(plain)
      /\ \A j, k \in DOMAIN R : j # k => R[j] # R[k]
  BY <1>4, <1>6, DeduplicatedLines
<1>8. \A j, k \in DOMAIN R : j # k => R[j].shows \cap R[k].shows = {}
  <2> SUFFICES ASSUME NEW j \in DOMAIN R, NEW k \in DOMAIN R, j # k
               PROVE  R[j].shows \cap R[k].shows = {}
    OBVIOUS
  <2>1. R[j] \in ToSet(plain) /\ R[k] \in ToSet(plain) /\ R[j] # R[k]
    BY <1>7 DEF ToSet
  <2>2. PICK i, l \in DOMAIN plain : plain[i] = R[j] /\ plain[l] = R[k]
    BY <2>1 DEF ToSet
  <2> QED
    BY <1>1, <2>1, <2>2
<1>9. R # <<>>
  <2>1. ToSet(plain) # {}
    <3>1. 1 \in DOMAIN plain
      BY <1>1, <1>3, LenProperties, EmptySeq
    <3> QED
      BY <3>1 DEF ToSet
  <2>2. R = <<>> => ToSet(R) = {}
    BY DEF ToSet
  <2> QED
    BY <1>7, <2>1, <2>2
<1>10. \E m \in 1 .. Len(R) :
          /\ PrefixWithinCap(R) = SubSeq(R, 1, m)
          /\ m = 1 \/ LinesTokens(SubSeq(R, 1, m)) <= TokenCap
          /\ \A k \in 1 .. Len(R) :
                LinesTokens(SubSeq(R, 1, k)) <= TokenCap => k <= m
  BY <1>7, <1>9, PrefixIsLongest
<1> QED
  BY <1>5, <1>7, <1>8, <1>10 DEF R, plain

LEMMA CompactedTells ==
    ASSUME NEW events \in Seq(Event), NEW has \in BOOLEAN
    PROVE  /\ Compacted(events, has) \in Seq(WrittenLine)
           /\ Tells(Compacted(events, has), events, has)
<1> DEFINE plain == PlainLines(events, has)
           C == Compacted(events, has)
<1>1. plain \in Seq(WrittenLine) /\ TextTokens(plain) \in Nat
  BY PlainLinesTell, LengthsOf
<1>2. CASE TextTokens(plain) <= TokenCap
  <2>1. C = plain
    BY <1>1, <1>2, CompactAssumption DEF Compacted
  <2> QED
    BY <2>1, PlainLinesTell, PlainLinesShow DEF Tells
<1>3. CASE ~(TextTokens(plain) <= TokenCap)
  <2> DEFINE R == Prioritised(events, has)
  <2>1. /\ R \in Seq(WrittenLine)
        /\ ToSet(R) = ToSet(plain)
        /\ \A j, k \in DOMAIN R : j # k => R[j].shows \cap R[k].shows = {}
    BY <1>3, ShortenedLines
  <2>2. PICK m \in 1 .. Len(R) : C = SubSeq(R, 1, m)
    BY <1>3, ShortenedLines
  <2> HIDE DEF R, C
  <2>3. Len(R) \in Nat /\ DOMAIN R = 1 .. Len(R)
    BY <2>1, LenProperties
  <2>4. C \in Seq(WrittenLine) /\ DOMAIN C = 1 .. m /\ \A j \in 1 .. m : C[j] = R[j]
    <3>1. /\ C \in Seq(WrittenLine) /\ Len(C) = m
          /\ \A j \in 1 .. m : C[j] = R[j]
      BY <2>1, <2>2, <2>3, SubSeqProperties
    <3> QED
      BY <3>1, LenProperties
  <2>5. DOMAIN C \subseteq DOMAIN R
    BY <2>3, <2>4
  <2>6. ShownBy(C) \subseteq Told(events, has)
    <3>1. \A j \in DOMAIN C : C[j] \in ToSet(plain)
      BY <2>1, <2>4, <2>5 DEF ToSet
    <3>2. \A j \in DOMAIN C : C[j].shows \subseteq ShownBy(plain)
      BY <3>1 DEF ToSet, ShownBy
    <3> QED
      BY <3>2, PlainLinesShow DEF ShownBy
  <2>7. \A j, k \in DOMAIN C : j # k => C[j].shows \cap C[k].shows = {}
    BY <2>1, <2>4, <2>5
  <2> QED
    BY <1>3, <2>4, <2>6, <2>7 DEF Tells, C
<1> QED
  BY <1>2, <1>3

\* The stored text costs less than one token a line more than the cap.
LEMMA CompactedNearCap ==
    ASSUME NEW events \in Seq(Event), NEW has \in BOOLEAN,
           Len(Compacted(events, has)) > 1
    PROVE  TextTokens(Compacted(events, has)) <= TokenCap + Len(Compacted(events, has)) - 1
<1> DEFINE plain == PlainLines(events, has)
           C == Compacted(events, has)
<1>1. plain \in Seq(WrittenLine) /\ TextTokens(plain) \in Nat
  BY PlainLinesTell, LengthsOf
<1>2. C \in Seq(WrittenLine) /\ Len(C) \in Nat
  BY CompactedTells, LenProperties
<1>3. CASE TextTokens(plain) <= TokenCap
  <2>1. C = plain
    BY <1>1, <1>3, CompactAssumption DEF Compacted
  <2> HIDE DEF plain, C
  <2> QED
    BY <1>1, <1>2, <1>3, <2>1, CompactAssumption DEF C
<1>4. CASE ~(TextTokens(plain) <= TokenCap)
  <2> DEFINE f == [j \in DOMAIN C |-> C[j].length]
             g == [j \in DOMAIN C |-> Tokens(C[j].length)]
             n == Len(C)
  <2>1. LinesTokens(C) <= TokenCap
    <3> DEFINE R == Prioritised(events, has)
    <3>1. R \in Seq(WrittenLine)
      BY <1>4, ShortenedLines
    <3>2. PICK m \in 1 .. Len(R) :
              C = SubSeq(R, 1, m) /\ (m = 1 \/ LinesTokens(SubSeq(R, 1, m)) <= TokenCap)
      BY <1>4, ShortenedLines
    <3> HIDE DEF R
    <3>3. Len(SubSeq(R, 1, m)) = m
      BY <3>1, <3>2, LenProperties, SubSeqProperties
    <3> QED
      BY <3>2, <3>3
  <2>2. /\ f \in [1 .. n -> Nat] /\ g \in [1 .. n -> Nat]
        /\ \A j \in 1 .. n : f[j] <= 4 * g[j] + 3
        /\ SumFunction(f) \in Nat /\ SumFunction(g) \in Nat
    BY <1>2, LengthsOf
  <2>3. LinesTokens(C) = SumFunction(g)
    BY DEF LinesTokens
  <2>4. TextTokens(C) = Tokens(SumFunction(f) + n - 1)
    <3>1. C # <<>>
      BY <1>2, EmptySeq
    <3> QED
      BY <3>1 DEF TextTokens
  <2>5. n > 1 /\ n \in Nat
    BY <1>2
  <2> HIDE DEF f, g, n, C
  <2>6. SumFunction(f) <= 4 * SumFunction(g) + 3 * n
    BY <2>2, <2>5, SumOfQuarters
  <2>7. /\ SumFunction(f) + n - 1 \in Nat
        /\ SumFunction(g) + n - 1 \in Nat \ {0}
        /\ SumFunction(f) + n - 1 <= 4 * (SumFunction(g) + n - 1) + 3
    <3>1. \A a, b, k \in Nat : k > 1 /\ a <= 4 * b + 3 * k =>
              /\ a + k - 1 \in Nat /\ b + k - 1 \in Nat \ {0}
              /\ a + k - 1 <= 4 * (b + k - 1) + 3
      OBVIOUS
    <3>2. SumFunction(f) \in Nat /\ SumFunction(g) \in Nat
      BY <2>2
    <3> QED
      BY <2>5, <2>6, <3>1, <3>2
  <2>8. Tokens(SumFunction(f) + n - 1) <= SumFunction(g) + n - 1
    BY <2>7, TokensBounds
  <2>9. Tokens(SumFunction(f) + n - 1) \in Nat
    BY <2>7, TokensBounds
  <2>10. TextTokens(C) <= TokenCap + n - 1
    <3>1. \A t, b, k, c \in Nat : t <= b + k - 1 /\ b <= c => t <= c + k - 1
      OBVIOUS
    <3>2. SumFunction(g) \in Nat /\ SumFunction(g) <= TokenCap /\ TokenCap \in Nat
      BY <2>1, <2>2, <2>3, CompactAssumption
    <3> QED
      BY <2>4, <2>5, <2>8, <2>9, <3>1, <3>2
  <2> QED
    BY <2>10 DEF C, n
<1> QED
  BY <1>3, <1>4

\* The lines that must be kept are all stored when they fit together.
LEMMA CompactedKeepsBreaking ==
    ASSUME NEW events \in Seq(Event), NEW has \in BOOLEAN,
           "unresolved_breaking" \in KeepOnOverflow,
           LinesTokens(Deduplicated(MustKeep(events, has))) <= TokenCap
    PROVE  Breaking(events, has) \subseteq ShownBy(Compacted(events, has))
<1> DEFINE plain == PlainLines(events, has)
           C == Compacted(events, has)
           B == Breaking(events, has)
           keep == MustKeep(events, has)
<1>1. plain \in Seq(WrittenLine) /\ TextTokens(plain) \in Nat
  BY PlainLinesTell, LengthsOf
<1>2. B \subseteq Promoted(events, has)
  BY DEF Breaking
<1>3. CASE TextTokens(plain) <= TokenCap
  <2>1. C = plain
    BY <1>1, <1>3, CompactAssumption DEF Compacted
  <2> QED
    BY <1>2, <2>1, PlainLinesShow DEF Told
<1>4. CASE ~(TextTokens(plain) <= TokenCap)
  <2> DEFINE R == Prioritised(events, has)
             D == Deduplicated(keep)
  <2>1. R \in Seq(WrittenLine)
    BY <1>4, ShortenedLines
  <2>2. PICK m \in 1 .. Len(R) :
            /\ C = SubSeq(R, 1, m)
            /\ \A k \in 1 .. Len(R) : LinesTokens(SubSeq(R, 1, k)) <= TokenCap => k <= m
    BY <1>4, ShortenedLines
  <2>3. keep \in Seq(WrittenLine) /\ {LineOf(events, i) : i \in B} \subseteq ToSet(keep)
    BY MustKeepLines
  <2>4. D \in Seq(WrittenLine) /\ ToSet(D) = ToSet(keep)
    BY <2>3, DeduplicatedLines
  <2>5. Len(D) <= Len(R) /\ \A j \in 1 .. Len(D) : R[j] = D[j]
    BY <1>1, <2>3, DeduplicatedPrefix DEF Prioritised
  <2> HIDE DEF R, D, C, keep
  <2>6. /\ Len(R) \in Nat /\ DOMAIN R = 1 .. Len(R)
        /\ Len(D) \in Nat /\ DOMAIN D = 1 .. Len(D)
    BY <2>1, <2>4, LenProperties
  <2>7. Len(D) # 0 => Len(D) <= m
    <3> SUFFICES ASSUME Len(D) # 0 PROVE Len(D) <= m
      OBVIOUS
    <3>1. Len(D) \in 1 .. Len(R)
      BY <2>5, <2>6
    <3>2. SubSeq(R, 1, Len(D)) = D
      <4> DEFINE P == SubSeq(R, 1, Len(D))
      <4>1. P \in Seq(WrittenLine) /\ Len(P) = Len(D) /\ \A j \in 1 .. Len(D) : P[j] = R[j]
        BY <2>1, <2>6, <3>1, SubSeqProperties
      <4> HIDE DEF P
      <4>2. P = D
        BY <2>4, <2>5, <4>1, SeqEqual
      <4> QED
        BY <4>2 DEF P
    <3>3. LinesTokens(D) <= TokenCap
      BY DEF D, keep
    <3>4. LinesTokens(SubSeq(R, 1, Len(D))) <= TokenCap
      BY <3>2, <3>3
    <3> QED
      BY <2>2, <3>1, <3>4
  <2>8. DOMAIN C = 1 .. m /\ \A j \in 1 .. m : C[j] = R[j]
    <3>1. C \in Seq(WrittenLine) /\ Len(C) = m /\ \A j \in 1 .. m : C[j] = R[j]
      BY <2>1, <2>2, <2>6, SubSeqProperties
    <3> QED
      BY <3>1, LenProperties
  <2>9. ASSUME NEW i \in B PROVE i \in ShownBy(C)
    <3>1. LineOf(events, i) \in ToSet(D)
      BY <2>3, <2>4
    <3>2. PICK j \in 1 .. Len(D) : D[j] = LineOf(events, i)
      BY <2>6, <3>1 DEF ToSet
    <3>3. j \in DOMAIN C /\ C[j] = LineOf(events, i)
      BY <2>2, <2>5, <2>6, <2>7, <2>8, <3>2
    <3> QED
      BY <3>3 DEF ShownBy, LineOf
  <2> QED
    BY <2>9 DEF C
<1> QED
  BY <1>3, <1>4

-----------------------------------------------------------------------------
(* The inductive invariant: the stored summary is what compact_entity makes of the    *)
(* events and the consumer it read, both of which only ever gain.                     *)

Types ==
    /\ timeline \in Seq(Event)
    /\ inbound \in BOOLEAN
    /\ job \in [pc : {"idle", "inbound", "store"}, seen : 0 .. Len(timeline),
                inbound : BOOLEAN]
    /\ basis \in [seen : 0 .. Len(timeline), inbound : BOOLEAN]

SummaryIsCompacted == summary = Compacted(Read, basis.inbound)

NothingUnread ==
    /\ basis.inbound => inbound
    /\ job.inbound => inbound
    /\ job.pc # "idle" => basis.seen <= job.seen

IInv == Types /\ SummaryIsCompacted /\ NothingUnread

\* A part of the timeline is a list of events, and stays as it is when events are added.
LEMMA ReadEventsType ==
    ASSUME NEW events \in Seq(Event), NEW n \in 0 .. Len(events)
    PROVE  /\ SubSeq(events, 1, n) \in Seq(Event)
           /\ Len(SubSeq(events, 1, n)) = n
           /\ DOMAIN SubSeq(events, 1, n) = 1 .. n
           /\ \A i \in 1 .. n : SubSeq(events, 1, n)[i] = events[i]
<1>1. Len(events) \in Nat
  BY LenProperties
<1>2. \A i \in 1 .. n : events[i] \in Event
  BY <1>1, ElementOfSeq
<1> QED
  BY <1>1, <1>2, SubSeqProperties, LenProperties

LEMMA ReadEventsKept ==
    ASSUME NEW events \in Seq(Event), NEW n \in 0 .. Len(events), NEW ev \in Event
    PROVE  /\ Append(events, ev) \in Seq(Event)
           /\ Len(Append(events, ev)) = Len(events) + 1
           /\ SubSeq(Append(events, ev), 1, n) = SubSeq(events, 1, n)
<1>1. /\ Append(events, ev) \in Seq(Event)
      /\ Len(Append(events, ev)) = Len(events) + 1
      /\ \A i \in 1 .. Len(events) : Append(events, ev)[i] = events[i]
      /\ Len(events) \in Nat
  BY AppendProperties, LenProperties
<1>2. n \in 0 .. Len(Append(events, ev)) /\ \A i \in 1 .. n : i \in 1 .. Len(events)
  BY <1>1
<1> DEFINE s == SubSeq(events, 1, n)
           t == SubSeq(Append(events, ev), 1, n)
<1>3. s \in Seq(Event) /\ Len(s) = n /\ \A i \in 1 .. n : s[i] = events[i]
  BY ReadEventsType
<1>4. t \in Seq(Event) /\ Len(t) = n /\ \A i \in 1 .. n : t[i] = Append(events, ev)[i]
  BY <1>1, <1>2, ReadEventsType
<1> HIDE DEF s, t
<1>5. s = t
  BY <1>1, <1>2, <1>3, <1>4, SeqEqual
<1> QED
  BY <1>1, <1>5 DEF s, t

LEMMA InitIInv == Init => IInv
<1> SUFFICES ASSUME Init PROVE IInv
  OBVIOUS
<1>1. timeline = <<>> /\ basis.seen = 0 /\ basis.inbound = FALSE /\ summary = <<>>
  BY DEF Init
<1>2. Types
  <2>1. timeline \in Seq(Event) /\ Len(timeline) = 0 /\ 0 \in 0 .. 0
    BY <1>1, EmptySeq
  <2>2. /\ job = [pc |-> "idle", seen |-> 0, inbound |-> FALSE]
        /\ basis = [seen |-> 0, inbound |-> FALSE]
        /\ inbound = FALSE
    BY DEF Init, NoJob
  <2> QED
    BY <2>1, <2>2 DEF Types
<1>3. <<>> \in Seq(Event) /\ 0 \in 0 .. Len(<<>>)
  BY EmptySeq
<1>4. Read = <<>>
  <2>1. Read = SubSeq(<<>>, 1, 0)
    BY <1>1 DEF Read
  <2>2. Read \in Seq(Event) /\ Len(Read) = 0
    BY <1>3, <2>1, ReadEventsType
  <2> QED
    BY <2>2, EmptySeq
<1>5. Promoted(<<>>, FALSE) = {} /\ Folded(<<>>, FALSE) = {}
  BY DEF Promoted, Folded
<1>6. PlainLines(<<>>, FALSE) = <<>>
  <2>1. LinesOf(<<>>, {}) \in Seq(WrittenLine) /\ Len(LinesOf(<<>>, {})) = 0
    BY <1>3, LinesOfLines, FS_EmptySet
  <2>2. LinesOf(<<>>, {}) = <<>>
    BY <2>1, EmptySeq
  <2>3. PlainLines(<<>>, FALSE) = <<>> \o <<>>
    BY <1>5, <2>2 DEF PlainLines
  <2> QED
    BY <1>3, <2>3, ConcatEmptySeq
<1>7. Compacted(<<>>, FALSE) = <<>>
  <2>1. TextTokens(<<>>) = 0
    BY DEF TextTokens
  <2>2. ~(0 > TokenCap)
    BY CompactAssumption
  <2>3. ~(TextTokens(PlainLines(<<>>, FALSE)) > TokenCap)
    BY <1>6, <2>1, <2>2
  <2> QED
    BY <1>6, <2>3 DEF Compacted
<1>8. SummaryIsCompacted
  BY <1>1, <1>4, <1>7 DEF SummaryIsCompacted
<1>9. NothingUnread
  BY DEF Init, NoJob, NothingUnread
<1> QED
  BY <1>2, <1>8, <1>9 DEF IInv

LEMMA StepIInv == IInv /\ [Next]_vars => IInv'
<1> SUFFICES ASSUME IInv, [Next]_vars PROVE IInv'
  OBVIOUS
<1> USE DEF IInv
<1>1. Len(timeline) \in Nat /\ basis.seen \in 0 .. Len(timeline) /\ job.seen \in 0 .. Len(timeline)
  BY LenProperties DEF Types
<1>2. ASSUME NEW ev \in Event, IngestAppends(ev)
      PROVE  IInv'
  <2>1. /\ timeline' = Append(timeline, ev)
        /\ UNCHANGED <<inbound, summary, job, basis>>
    BY <1>2 DEF IngestAppends
  <2>2. timeline' \in Seq(Event) /\ Len(timeline') = Len(timeline) + 1
    BY <2>1, <1>1, ReadEventsKept DEF Types
  <2>3. Types'
    BY <1>1, <2>1, <2>2 DEF Types
  <2>4. Read' = Read
    <3>1. SubSeq(timeline', 1, basis.seen) = SubSeq(timeline, 1, basis.seen)
      BY <1>1, <2>1, ReadEventsKept DEF Types
    <3> QED
      BY <2>1, <3>1 DEF Read
  <2>5. SummaryIsCompacted'
    BY <2>1, <2>4 DEF SummaryIsCompacted
  <2>6. NothingUnread'
    BY <2>1 DEF NothingUnread
  <2> QED
    BY <2>3, <2>5, <2>6
<1>3. CASE ConsumerAppears
  <2>1. Types' /\ NothingUnread'
    BY <1>3 DEF ConsumerAppears, Types, NothingUnread
  <2>2. SummaryIsCompacted'
    BY <1>3 DEF ConsumerAppears, SummaryIsCompacted, Read
  <2> QED
    BY <2>1, <2>2
<1>4. CASE ReadEvents
  <2>1. Types' /\ NothingUnread'
    <3>1. job' = [pc |-> "inbound", seen |-> Len(timeline), inbound |-> FALSE]
      BY <1>4 DEF ReadEvents, NoJob
    <3>2. UNCHANGED <<timeline, inbound, summary, basis>>
      BY <1>4 DEF ReadEvents
    <3>3. Len(timeline) \in 0 .. Len(timeline) /\ basis.seen <= Len(timeline)
      BY <1>1
    <3>4. Types'
      BY <3>1, <3>2, <3>3 DEF Types
    <3>5. NothingUnread'
      BY <3>1, <3>2, <3>3 DEF NothingUnread
    <3> QED
      BY <3>4, <3>5
  <2>2. SummaryIsCompacted'
    BY <1>4 DEF ReadEvents, SummaryIsCompacted, Read
  <2> QED
    BY <2>1, <2>2
<1>5. CASE ReadInbound
  <2>1. Types' /\ NothingUnread'
    BY <1>5 DEF ReadInbound, Types, NothingUnread
  <2>2. SummaryIsCompacted'
    BY <1>5 DEF ReadInbound, SummaryIsCompacted, Read
  <2> QED
    BY <2>1, <2>2
<1>6. CASE StoreSummary
  <2>1. Types' /\ NothingUnread'
    BY <1>6 DEF StoreSummary, Types, NothingUnread, NoJob
  <2>2. SummaryIsCompacted'
    BY <1>6 DEF StoreSummary, SummaryIsCompacted, Read
  <2> QED
    BY <2>1, <2>2
<1>7. CASE CompactCrash
  <2>1. Types' /\ NothingUnread'
    BY <1>1, <1>7 DEF CompactCrash, Types, NothingUnread, NoJob
  <2>2. SummaryIsCompacted'
    BY <1>7 DEF CompactCrash, SummaryIsCompacted, Read
  <2> QED
    BY <2>1, <2>2
<1>8. CASE UNCHANGED vars
  BY <1>8 DEF vars, Types, SummaryIsCompacted, Read, NothingUnread
<1> QED
  BY <1>2, <1>3, <1>4, <1>5, <1>6, <1>7, <1>8 DEF Next

LEMMA SpecIInv == Spec => []IInv
BY InitIInv, StepIInv, PTL DEF Spec

\* What was read is a list of events, and what is stored was made from it.
StoredFromRead ==
    /\ Read \in Seq(Event) /\ DOMAIN Read = 1 .. basis.seen
    /\ \A i \in 1 .. basis.seen : Read[i] = timeline[i]
    /\ basis.inbound \in BOOLEAN
    /\ summary = Compacted(Read, basis.inbound)
    /\ Shown = ShownBy(summary)

LEMMA StoredIsCompacted == IInv => StoredFromRead
<1> SUFFICES ASSUME IInv PROVE StoredFromRead
  OBVIOUS
<1>1. /\ timeline \in Seq(Event) /\ Len(timeline) \in Nat
      /\ basis.seen \in 0 .. Len(timeline) /\ basis.inbound \in BOOLEAN
  BY LenProperties DEF IInv, Types
<1>2. /\ Read \in Seq(Event) /\ DOMAIN Read = 1 .. basis.seen
      /\ \A i \in 1 .. basis.seen : Read[i] = timeline[i]
  BY <1>1, ReadEventsType DEF Read
<1> QED
  BY <1>1, <1>2 DEF IInv, SummaryIsCompacted, Shown, ShownBy, StoredFromRead

-----------------------------------------------------------------------------
(* The theorems. *)

\* The timeline, the stored summary and the compaction under way keep their types
\* (compact_entity), whatever ingest and extract write meanwhile.
THEOREM CompactTypeCorrect == Spec => []TypeOK
<1>1. ASSUME IInv PROVE TypeOK
  <2>1. summary \in Seq(WrittenLine)
    BY <1>1, StoredIsCompacted, CompactedTells DEF StoredFromRead
  <2>2. WrittenLine \subseteq Line
    BY DEF WrittenLine, Line
  <2>3. summary \in Seq(Line)
    BY <2>1, <2>2, SeqMonotonic
  <2> QED
    BY <1>1, <2>3 DEF IInv, Types, TypeOK
<1> QED
  BY <1>1, SpecIInv, PTL

\* For every timeline, policy and cap, a summary tells nothing that did not earn a place,
\* tells nothing twice, and under the cap tells all of it, the promoted lines oldest first
\* (compact_entity and _recompact).
THEOREM SummaryExact == Spec => []SummaryTellsTimeline
<1>1. ASSUME IInv PROVE SummaryTellsTimeline
  BY <1>1, StoredIsCompacted, CompactedTells DEF StoredFromRead, SummaryTellsTimeline, Tells, Told
<1> QED
  BY <1>1, SpecIInv, PTL

\* A summary of several lines exceeds the cap by less than one token a line, whatever the
\* lengths of the lines (llm._mock_recompact counts each line on its own).
THEOREM CapAlmostKept == Spec => []SummaryNearCap
<1>1. ASSUME IInv PROVE SummaryNearCap
  BY <1>1, StoredIsCompacted, CompactedNearCap DEF StoredFromRead, SummaryNearCap
<1> QED
  BY <1>1, SpecIInv, PTL

\* With the shipped rule that unresolved breaking changes are kept on overflow, every one
\* of them is in the summary whenever the lines put first fit the cap (_recompact).
THEOREM BreakingChangesKept ==
    ASSUME "unresolved_breaking" \in KeepOnOverflow
    PROVE  Spec => []BreakingKeptWhenRoom
<1>1. ASSUME IInv PROVE BreakingKeptWhenRoom
  <2> SUFFICES ASSUME LinesTokens(Deduplicated(MustKeep(Read, basis.inbound))) <= TokenCap
               PROVE  Breaking(Read, basis.inbound) \subseteq Shown
    BY DEF BreakingKeptWhenRoom
  <2>1. /\ Read \in Seq(Event) /\ basis.inbound \in BOOLEAN
        /\ Shown = ShownBy(Compacted(Read, basis.inbound))
    BY <1>1, StoredIsCompacted DEF StoredFromRead
  <2> QED
    BY <2>1, CompactedKeepsBreaking
<1> QED
  BY <1>1, SpecIInv, PTL

\* With a policy that neither promotes nor folds internal changes, as the shipped one,
\* they leave no trace in the summary of an entity nobody consumes (compact_entity).
THEOREM ChurnInvisible ==
    ASSUME "internal" \notin PromoteKinds \cup FoldKinds
    PROVE  Spec => []ChurnLeavesNoTrace
<1>1. ASSUME IInv PROVE ChurnLeavesNoTrace
  <2> SUFFICES ASSUME ~inbound, NEW i \in Shown PROVE timeline[i].kind # "internal"
    BY DEF ChurnLeavesNoTrace
  <2>1. ~basis.inbound
    BY <1>1 DEF IInv, NothingUnread
  <2>2. i \in Promoted(Read, basis.inbound) \cup Folded(Read, basis.inbound)
    BY <1>1, StoredIsCompacted, CompactedTells DEF StoredFromRead, Tells, Told
  <2>3. i \in DOMAIN Read /\ Read[i].kind # "internal"
    BY <2>1, <2>2 DEF Promoted, Folded
  <2> QED
    BY <1>1, <2>3, StoredIsCompacted DEF StoredFromRead
<1> QED
  BY <1>1, SpecIInv, PTL

\* A contract change that has its line keeps it through every later compaction that stays
\* under the cap, however many events and consumers come in between (compact_entity
\* rebuilds the summary from the whole timeline).
THEOREM ContractFactsNeverLost == Spec => ContractFactsPersist
<1>1. IInv' => StoredFromRead'
  BY StoredIsCompacted, PTL
<1>2. ASSUME IInv, IInv', [Next]_vars
      PROVE  [TextTokens(PlainLines(Read', basis'.inbound)) <= TokenCap =>
                \A i \in Shown : timeline[i].kind \in PromoteKinds => i \in Shown']_vars
  <2> SUFFICES ASSUME TextTokens(PlainLines(Read', basis'.inbound)) <= TokenCap,
                      NEW i \in Shown, timeline[i].kind \in PromoteKinds
               PROVE  i \in Shown'
    OBVIOUS
  <2>1. CASE StoreSummary
    <3>1. /\ timeline' = timeline /\ basis'.seen = job.seen
          /\ job.pc # "idle"
      BY <2>1 DEF StoreSummary
    <3>2. basis.seen <= job.seen /\ basis.seen \in Nat /\ job.seen \in Nat
      BY <1>2, <3>1 DEF IInv, Types, NothingUnread
    <3>3. i \in Promoted(Read, basis.inbound) \cup Folded(Read, basis.inbound)
      BY <1>2, StoredIsCompacted, CompactedTells DEF StoredFromRead, Tells, Told
    <3>4. i \in 1 .. basis.seen
      BY <1>2, <3>3, StoredIsCompacted DEF StoredFromRead, Promoted, Folded
    <3>5. i \in 1 .. basis'.seen
      BY <3>1, <3>2, <3>4
    <3>6. /\ Read' \in Seq(Event) /\ DOMAIN Read' = 1 .. basis'.seen
          /\ \A j \in 1 .. basis'.seen : Read'[j] = timeline'[j]
          /\ basis'.inbound \in BOOLEAN
          /\ summary' = Compacted(Read', basis'.inbound)
          /\ Shown' = ShownBy(summary')
      BY <1>2, <1>1 DEF StoredFromRead
    <3>7. i \in Promoted(Read', basis'.inbound)
      BY <2>1, <3>1, <3>5, <3>6 DEF Promoted
    <3>8. ShownBy(summary') = Told(Read', basis'.inbound)
      BY <3>6, CompactedTells DEF Tells
    <3> QED
      BY <3>6, <3>7, <3>8 DEF Told
  <2>2. CASE ~StoreSummary
    <3>1. summary' = summary
      BY <1>2, <2>2 DEF Next, IngestAppends, ConsumerAppears, ReadEvents, ReadInbound,
                        CompactCrash, vars
    <3> QED
      BY <3>1 DEF Shown
  <2> QED
    BY <2>1, <2>2
<1> QED
  BY <1>2, SpecIInv, PTL DEF Spec, ContractFactsPersist
=================================================================================
