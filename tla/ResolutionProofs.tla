---------------------------- MODULE ResolutionProofs ----------------------------
(* Proofs about how a use of a contract in code finds its producer: that two spellings *)
(* of a path get the same name exactly when they are the same route, and what follows *)
(* for the edges located in code.                                                     *)
EXTENDS TimelineProofs, NumberLemmas, SequenceTheorems

-----------------------------------------------------------------------------
(* The same parts in other places. *)

\* What is written in p is written in q, d places further on.
ShiftedBy(p, q, d) ==
    /\ \A i \in Written(p) : i + d \in Written(q) /\ q[i + d] = p[i]
    /\ \A k \in Written(q) : k - d \in Written(p)

LEMMA WrittenType == \A path : Written(path) \subseteq Int
BY DEF Written

LEMMA ShiftKeepsRoute ==
    ASSUME NEW p, NEW q, NEW r, NEW s, NEW d \in Int, NEW e \in Int,
           ShiftedBy(p, q, d), ShiftedBy(r, s, e), SameRoute(p, r)
    PROVE  SameRoute(q, s)
<1>1. PICK match \in [Written(p) -> Written(r)] :
          /\ \A j \in Written(r) : \E i \in Written(p) : match[i] = j
          /\ \A i, j \in Written(p) : i < j => match[i] < match[j]
          /\ \A i \in Written(p) : SamePart(p[i], r[match[i]])
  BY DEF SameRoute
<1> DEFINE shifted == [k \in Written(q) |-> match[k - d] + e]
<1>2. /\ Written(p) \subseteq Int /\ Written(q) \subseteq Int
      /\ Written(r) \subseteq Int /\ Written(s) \subseteq Int
  BY WrittenType
<1>3. shifted \in [Written(q) -> Written(s)]
  <2> SUFFICES ASSUME NEW k \in Written(q) PROVE match[k - d] + e \in Written(s)
    OBVIOUS
  <2>1. k - d \in Written(p)
    BY DEF ShiftedBy
  <2>2. match[k - d] \in Written(r)
    BY <2>1
  <2> QED
    BY <2>2 DEF ShiftedBy
<1>4. \A j \in Written(s) : \E i \in Written(q) : shifted[i] = j
  <2> SUFFICES ASSUME NEW j \in Written(s) PROVE \E i \in Written(q) : shifted[i] = j
    OBVIOUS
  <2>1. j - e \in Written(r)
    BY DEF ShiftedBy
  <2>2. PICK i \in Written(p) : match[i] = j - e
    BY <1>1, <2>1
  <2>3. i + d \in Written(q) /\ i \in Int /\ j \in Int
    BY <1>2 DEF ShiftedBy
  <2>4. (i + d) - d = i /\ (j - e) + e = j
    BY <2>3
  <2>5. shifted[i + d] = j
    BY <2>2, <2>3, <2>4
  <2> QED
    BY <2>3, <2>5
<1>5. \A i, j \in Written(q) : i < j => shifted[i] < shifted[j]
  <2> SUFFICES ASSUME NEW i \in Written(q), NEW j \in Written(q), i < j
               PROVE  match[i - d] + e < match[j - d] + e
    OBVIOUS
  <2>1. i - d \in Written(p) /\ j - d \in Written(p) /\ i \in Int /\ j \in Int
    BY <1>2 DEF ShiftedBy
  <2>2. i - d < j - d
    BY <2>1
  <2>3. match[i - d] < match[j - d]
    BY <1>1, <2>1, <2>2
  <2>4. match[i - d] \in Written(r) /\ match[j - d] \in Written(r)
    BY <2>1
  <2>5. match[i - d] \in Int /\ match[j - d] \in Int
    BY <1>2, <2>4
  <2> QED
    BY <2>3, <2>5
<1>6. \A i \in Written(q) : SamePart(q[i], s[shifted[i]])
  <2> SUFFICES ASSUME NEW i \in Written(q) PROVE SamePart(q[i], s[match[i - d] + e])
    OBVIOUS
  <2>1. i - d \in Written(p) /\ i \in Int
    BY <1>2 DEF ShiftedBy
  <2>2. (i - d) + d = i
    BY <2>1
  <2>3. q[i] = p[i - d]
    BY <2>1, <2>2 DEF ShiftedBy
  <2>4. match[i - d] \in Written(r)
    BY <2>1
  <2>5. s[match[i - d] + e] = r[match[i - d]]
    BY <2>4 DEF ShiftedBy
  <2> QED
    BY <1>1, <2>1, <2>3, <2>5
<1> HIDE DEF shifted
<1> QED
  BY <1>3, <1>4, <1>5, <1>6 DEF SameRoute

LEMMA ShiftBack ==
    ASSUME NEW p, NEW q, NEW d \in Int, ShiftedBy(p, q, d)
    PROVE  ShiftedBy(q, p, -d)
<1>1. Written(p) \subseteq Int /\ Written(q) \subseteq Int
  BY WrittenType
<1>2. ASSUME NEW k \in Written(q) PROVE k + (-d) \in Written(p) /\ p[k + (-d)] = q[k]
  <2>1. k - d \in Written(p) /\ k \in Int
    BY <1>1 DEF ShiftedBy
  <2>2. k + (-d) = k - d /\ (k - d) + d = k
    BY <2>1
  <2>3. q[(k - d) + d] = p[k - d]
    BY <2>1 DEF ShiftedBy
  <2> QED
    BY <2>1, <2>2, <2>3
<1>3. ASSUME NEW i \in Written(p) PROVE i - (-d) \in Written(q)
  <2>1. i + d \in Written(q) /\ i \in Int
    BY <1>1 DEF ShiftedBy
  <2>2. i - (-d) = i + d
    BY <2>1
  <2> QED
    BY <2>1, <2>2
<1> QED
  BY <1>2, <1>3 DEF ShiftedBy

-----------------------------------------------------------------------------
(* What normalize_route keeps of a path. *)

\* A path that begins with a slash.
SlashFirst == {path \in Paths : Len(path) > 1 /\ path[1] = Empty}

LEMMA RootedPath ==
    ASSUME NEW path \in Paths
    PROVE  /\ Rooted(path) \in SlashFirst
           /\ \E d \in {0, 1} :
                /\ Len(Rooted(path)) = Len(path) + d
                /\ \A i \in 1 .. Len(path) : Rooted(path)[i + d] = path[i]
                /\ d = 1 => Len(path) = 1 \/ path[1] # Empty
                /\ ShiftedBy(path, Rooted(path), d)
<1> DEFINE R == Rooted(path)
<1>1. path \in Seq(Segments) /\ Len(path) \in Nat /\ Len(path) # 0
  BY LenProperties, EmptySeq DEF Paths
<1>2. CASE Len(path) > 1 /\ path[1] = Empty
  <2>1. R = path
    BY <1>2 DEF Rooted
  <2>2. \A i \in Written(path) : i + 0 = i /\ i - 0 = i /\ i \in 1 .. Len(path)
    BY <1>1 DEF Written
  <2>3. ShiftedBy(path, R, 0)
    BY <2>1, <2>2 DEF ShiftedBy
  <2>4. \A i \in 1 .. Len(path) : R[i + 0] = path[i]
    BY <1>1, <2>1
  <2>5. Len(R) = Len(path) + 0
    BY <1>1, <2>1
  <2>6. R \in SlashFirst
    BY <1>2, <2>1 DEF SlashFirst
  <2>7. 0 \in {0, 1} /\ (0 = 1 => Len(path) = 1 \/ path[1] # Empty)
    OBVIOUS
  <2> HIDE DEF R
  <2>8. \E d \in {0, 1} :
           /\ Len(R) = Len(path) + d
           /\ \A i \in 1 .. Len(path) : R[i + d] = path[i]
           /\ d = 1 => Len(path) = 1 \/ path[1] # Empty
           /\ ShiftedBy(path, R, d)
    <3> WITNESS 0 \in {0, 1}
    <3> QED
      BY <2>3, <2>4, <2>5, <2>7
  <2> QED
    BY <2>6, <2>8 DEF R
<1>3. CASE ~(Len(path) > 1 /\ path[1] = Empty)
  <2>1. R = <<Empty>> \o path
    BY <1>3 DEF Rooted
  <2>2. <<Empty>> \in Seq(Segments) /\ Len(<<Empty>>) = 1 /\ <<Empty>>[1] = Empty
    BY DEF Segments
  <2>3. /\ R \in Seq(Segments) /\ Len(R) = 1 + Len(path)
        /\ \A i \in 1 .. 1 + Len(path) : R[i] = IF i <= 1 THEN <<Empty>>[i] ELSE path[i - 1]
    BY <1>1, <2>1, <2>2, ConcatProperties
  <2>4. Len(R) = Len(path) + 1 /\ R[1] = Empty /\ Len(R) > 1
    BY <1>1, <2>2, <2>3
  <2>5. \A i \in 1 .. Len(path) : R[i + 1] = path[i]
    BY <1>1, <2>3
  <2>6. R \in SlashFirst
    BY <2>3, <2>4, EmptySeq DEF SlashFirst, Paths
  <2> HIDE DEF R
  <2>7. ASSUME NEW k \in Written(R) PROVE k - 1 \in Written(path)
    <3>1. k \in 1 .. Len(R) /\ R[k] # Empty
      BY DEF Written
    <3>2. k - 1 \in 1 .. Len(path) /\ (k - 1) + 1 = k
      BY <1>1, <2>4, <3>1
    <3>3. R[(k - 1) + 1] = path[k - 1]
      BY <2>5, <3>2
    <3> QED
      BY <3>1, <3>2, <3>3 DEF Written
  <2>8. \A i \in Written(path) : i + 1 \in Written(R) /\ R[i + 1] = path[i]
    BY <1>1, <2>4, <2>5 DEF Written
  <2>9. ShiftedBy(path, R, 1)
    BY <2>7, <2>8 DEF ShiftedBy
  <2>10. Len(path) = 1 \/ path[1] # Empty
    BY <1>1, <1>3
  <2> QED
    BY <2>4, <2>5, <2>6, <2>9, <2>10 DEF R
<1> QED
  BY <1>2, <1>3

LEMMA LastWrittenIs ==
    ASSUME NEW path \in Paths, Written(path) # {}
    PROVE  /\ LastWritten(path) \in Written(path)
           /\ LastWritten(path) \in 1 .. Len(path)
           /\ \A j \in Written(path) : j <= LastWritten(path)
<1>1. Len(path) \in Nat
  BY LenProperties DEF Paths
<1>2. Written(path) \subseteq 0 .. Len(path)
  BY <1>1 DEF Written
<1>3. \E i \in Written(path) : \A j \in Written(path) : j <= i
  BY <1>1, <1>2, Largest
<1>4. LastWritten(path) = CHOOSE i \in Written(path) : \A j \in Written(path) : j <= i
  BY DEF LastWritten
<1>5. /\ LastWritten(path) \in Written(path)
      /\ \A j \in Written(path) : j <= LastWritten(path)
  BY <1>3, <1>4
<1> QED
  BY <1>5 DEF Written

ErasedPart(segment) == IF segment \in Parameters THEN Placeholder ELSE segment

\* What is written stays where it is, but for the names of parameters.
LEMMA NormalizeKeepsWritten ==
    ASSUME NEW path \in Paths
    PROVE  /\ Written(Normalize(path)) = Written(Rooted(path))
           /\ \A i \in Written(Rooted(path)) :
                Normalize(path)[i] = ErasedPart(Rooted(path)[i])
<1> DEFINE R == Rooted(path)
           T == WithoutTrailing(R)
           N == Normalize(path)
<1>1. R \in SlashFirst
  BY RootedPath
<1>2. R \in Paths /\ R \in Seq(Segments) /\ Len(R) \in Nat /\ Len(R) > 1 /\ R[1] = Empty
  BY <1>1, LenProperties DEF SlashFirst, Paths
<1>3. N = Erased(T)
  BY DEF Normalize
<1> HIDE DEF R
<1>4. /\ Len(T) \in Nat /\ Len(T) <= Len(R)
      /\ \A i \in 1 .. Len(T) : T[i] = R[i]
      /\ \A i \in Written(R) : i <= Len(T)
  <2>1. CASE R = Root
    <3>1. T = R
      BY <2>1 DEF WithoutTrailing
    <3> QED
      BY <1>2, <3>1 DEF Written
  <2>2. CASE R # Root
    <3> DEFINE b == LastWritten(R)
    <3>1. b \in 1 .. Len(R) /\ \A i \in Written(R) : i <= b
      <4>1. CASE Written(R) = {}
        BY <1>2, <4>1 DEF LastWritten
      <4>2. CASE Written(R) # {}
        BY <1>2, <4>2, LastWrittenIs
      <4> QED
        BY <4>1, <4>2
    <3>2. T = SubSeq(R, 1, b)
      BY <2>2 DEF WithoutTrailing
    <3> HIDE DEF b, T
    <3>3. Len(T) = b /\ \A i \in 1 .. b : T[i] = R[i]
      BY <1>2, <3>1, <3>2, SubSeqProperties
    <3> QED
      BY <1>2, <3>1, <3>3
  <2> QED
    BY <2>1, <2>2
<1> HIDE DEF T
<1>5. N = [i \in 1 .. Len(T) |-> ErasedPart(T[i])]
  BY <1>3 DEF Erased, ErasedPart
<1> HIDE DEF N
<1>6. Len(N) = Len(T) /\ \A i \in 1 .. Len(T) : N[i] = ErasedPart(T[i])
  BY <1>4, <1>5
<1>7. \A x : ErasedPart(x) = Empty <=> x = Empty
  BY RoutesAssumption DEF ErasedPart, Placeholder, Empty
<1>8. ASSUME NEW i \in Written(R) PROVE i \in Written(N) /\ N[i] = ErasedPart(R[i])
  <2>1. i \in 1 .. Len(T) /\ R[i] # Empty
    BY <1>2, <1>4 DEF Written
  <2>2. N[i] = ErasedPart(R[i])
    BY <1>4, <1>6, <2>1
  <2> QED
    BY <1>6, <1>7, <2>1, <2>2 DEF Written
<1>9. ASSUME NEW i \in Written(N) PROVE i \in Written(R)
  <2>1. i \in 1 .. Len(T) /\ N[i] # Empty
    BY <1>6 DEF Written
  <2>2. R[i] # Empty /\ i \in 1 .. Len(R)
    BY <1>2, <1>4, <1>6, <1>7, <2>1
  <2> QED
    BY <2>2 DEF Written
<1> QED
  BY <1>8, <1>9 DEF R, N

\* Only the same route gets the same name, however badly the paths are written.
LEMMA SameNameSameRoute ==
    ASSUME NEW p \in Paths, NEW q \in Paths, Normalize(p) = Normalize(q)
    PROVE  SameRoute(p, q)
<1> DEFINE P == Rooted(p)
           Q == Rooted(q)
<1>1. Written(P) = Written(Q) /\ \A i \in Written(P) : ErasedPart(P[i]) = ErasedPart(Q[i])
  BY NormalizeKeepsWritten
<1>2. \A x, y : ErasedPart(x) = ErasedPart(y) => SamePart(x, y)
  BY RoutesAssumption DEF ErasedPart, SamePart
<1>3. SameRoute(P, Q)
  <2> DEFINE match == [i \in Written(P) |-> i]
  <2> HIDE DEF P, Q
  <2>1. match \in [Written(P) -> Written(Q)]
    BY <1>1
  <2>2. \A j \in Written(Q) : \E i \in Written(P) : match[i] = j
    BY <1>1
  <2>3. \A i, j \in Written(P) : i < j => match[i] < match[j]
    OBVIOUS
  <2>4. \A i \in Written(P) : SamePart(P[i], Q[match[i]])
    BY <1>1, <1>2
  <2> HIDE DEF match
  <2> QED
    BY <2>1, <2>2, <2>3, <2>4 DEF SameRoute
<1>4. PICK d \in {0, 1} : ShiftedBy(p, P, d)
  BY RootedPath
<1>5. PICK e \in {0, 1} : ShiftedBy(q, Q, e)
  BY RootedPath
<1>6. ShiftedBy(P, p, -d) /\ ShiftedBy(Q, q, -e) /\ -d \in Int /\ -e \in Int
  BY <1>4, <1>5, ShiftBack
<1> HIDE DEF P, Q
<1> QED
  BY <1>3, <1>6, ShiftKeepsRoute

\* A matching of numbers that starts and stays in order without a gap is the identity.
LEMMA MatchingInOrder ==
    ASSUME NEW b, NEW c, NEW f, b \in Nat, c \in Nat, b >= 2, f \in [2 .. b -> 2 .. c],
           \A j \in 2 .. c : \E i \in 2 .. b : f[i] = j,
           \A i, j \in 2 .. b : i < j => f[i] < f[j]
    PROVE  b = c /\ \A i \in 2 .. b : f[i] = i
<1> DEFINE T == {i \in 2 .. b : f[i] # i}
<1>1. T = {}
  <2> SUFFICES ASSUME T # {} PROVE FALSE
    OBVIOUS
  <2>1. T \subseteq Nat
    OBVIOUS
  <2>2. PICK x \in T : \A y \in T : x <= y
    <3> HIDE DEF T
    <3> QED
      BY <2>1, Smallest
  <2>3. x \in 2 .. b /\ f[x] # x /\ f[x] \in 2 .. c
    OBVIOUS
  <2>4. \A i \in 2 .. b : i < x => f[i] = i
    BY <2>2, <2>3
  <2>5. CASE f[x] < x
    <3>1. f[x] \in 2 .. b
      BY <2>3, <2>5
    <3>2. f[f[x]] = f[x] /\ f[f[x]] < f[x]
      BY <2>3, <2>4, <2>5, <3>1
    <3> QED
      BY <2>3, <3>2
  <2>6. CASE x < f[x]
    <3>1. x \in 2 .. c
      BY <2>3, <2>6
    <3>2. PICK i \in 2 .. b : f[i] = x
      BY <3>1
    <3>3. ~(i < x)
      BY <2>3, <2>4, <3>2
    <3>4. ~(x < i)
      BY <2>3, <2>6, <3>2
    <3>5. i = x
      BY <2>3, <3>3, <3>4
    <3> QED
      BY <2>3, <3>2, <3>5
  <2> QED
    BY <2>3, <2>5, <2>6
<1>2. \A i \in 2 .. b : f[i] = i
  BY <1>1
<1> HIDE DEF T
<1>3. b \in 2 .. c
  BY <1>2
<1>4. c \in 2 .. b
  BY <1>2, <1>3
<1> QED
  BY <1>2, <1>3, <1>4

\* A well-formed path, rooted, is the root or has its parts one after the other.
LEMMA RootedWellFormed ==
    ASSUME NEW path \in Paths, WellFormed(path)
    PROVE  \/ Written(Rooted(path)) = {} /\ Rooted(path) = Root
           \/ /\ Written(Rooted(path)) # {}
              /\ Written(Rooted(path)) = 2 .. LastWritten(Rooted(path))
              /\ LastWritten(Rooted(path)) \in 2 .. Len(Rooted(path))
<1> DEFINE R == Rooted(path)
<1>1. /\ R \in SlashFirst /\ path \in Seq(Segments) /\ Len(path) \in Nat /\ Len(path) # 0
  BY RootedPath, LenProperties, EmptySeq DEF Paths
<1>2. R \in Paths /\ R \in Seq(Segments) /\ Len(R) \in Nat /\ Len(R) > 1 /\ R[1] = Empty
  BY <1>1, LenProperties DEF SlashFirst, Paths
<1>3. PICK d \in {0, 1} :
          /\ Len(R) = Len(path) + d
          /\ \A i \in 1 .. Len(path) : R[i + d] = path[i]
          /\ d = 1 => Len(path) = 1 \/ path[1] # Empty
          /\ ShiftedBy(path, R, d)
  BY RootedPath
<1> HIDE DEF R
<1>4. CASE Written(R) = {}
  <2>1. \A i \in 1 .. Len(R) : R[i] = Empty
    BY <1>4 DEF Written
  <2>2. Written(path) = {}
    BY <1>3, <1>4 DEF ShiftedBy
  <2>3. Len(path) <= 2
    BY <2>2 DEF WellFormed
  <2>4. Len(R) = 2
    <3>1. Len(R) = Len(path) + d /\ Len(R) > 1
      BY <1>2, <1>3
    <3>2. CASE Len(path) = 1
      <4>1. d = 1
        BY <3>1, <3>2
      <4> QED
        BY <3>1, <3>2, <4>1
    <3>3. CASE Len(path) = 2
      <4>1. path[1] = Empty
        BY <2>2, <3>3 DEF Written
      <4>2. d # 1
        BY <1>3, <3>3, <4>1
      <4>3. d = 0
        BY <4>2
      <4> QED
        BY <3>1, <3>3, <4>3
    <3>4. \A n \in Nat : n # 0 /\ n <= 2 => n = 1 \/ n = 2
      OBVIOUS
    <3>5. Len(path) = 1 \/ Len(path) = 2
      BY <1>1, <2>3, <3>4
    <3> QED
      BY <3>2, <3>3, <3>5
  <2>5. R = Root
    <3>1. Root \in Seq(Segments) /\ Len(Root) = 2 /\ Root[1] = Empty /\ Root[2] = Empty
      BY DEF Root, Segments
    <3>2. \A i \in 1 .. Len(R) : R[i] = Root[i]
      BY <2>1, <2>4, <3>1
    <3> QED
      BY <1>2, <2>4, <3>1, <3>2, SeqEqual
  <2> QED
    BY <1>4, <2>5 DEF R
<1>5. CASE Written(R) # {}
  <2> DEFINE b == LastWritten(R)
  <2>1. b \in Written(R) /\ b \in 1 .. Len(R) /\ \A j \in Written(R) : j <= b
    BY <1>2, <1>5, LastWrittenIs
  <2> HIDE DEF b
  <2>2. b \in 2 .. Len(R) /\ R[b] # Empty
    BY <1>2, <2>1 DEF Written
  <2>3. ASSUME NEW i \in 2 .. Len(R), NEW j \in 2 .. Len(R), i < j, R[i] = Empty
        PROVE  R[j] = Empty
    <3>1. CASE d = 0
      <4>1. i \in 2 .. Len(path) /\ j \in 2 .. Len(path) /\ i + 0 = i /\ j + 0 = j
        BY <1>1, <1>3, <3>1
      <4>2. i \in 1 .. Len(path) /\ j \in 1 .. Len(path)
        BY <1>1, <4>1
      <4>3. R[i] = path[i] /\ R[j] = path[j]
        BY <1>3, <3>1, <4>1, <4>2
      <4> QED
        BY <2>3, <4>1, <4>3 DEF WellFormed
    <3>2. CASE d = 1
      <4>1. /\ i - 1 \in 1 .. Len(path) /\ j - 1 \in 2 .. Len(path)
            /\ j - 1 \in 1 .. Len(path)
            /\ (i - 1) + 1 = i /\ (j - 1) + 1 = j /\ i - 1 < j - 1
        BY <1>1, <1>3, <2>3, <3>2
      <4>2. R[i] = path[i - 1] /\ R[j] = path[j - 1]
        BY <1>3, <3>2, <4>1
      <4>3. i - 1 # 1
        BY <1>3, <2>3, <3>2, <4>1, <4>2
      <4>4. i - 1 \in 2 .. Len(path)
        BY <4>1, <4>3
      <4> QED
        BY <2>3, <4>1, <4>2, <4>4 DEF WellFormed
    <3> QED
      BY <3>1, <3>2
  <2>4. ASSUME NEW k \in 2 .. b PROVE k \in Written(R)
    <3>1. k \in 2 .. Len(R) /\ k \in 1 .. Len(R)
      BY <1>2, <2>2
    <3>2. R[k] # Empty
      BY <2>2, <2>3, <3>1
    <3> QED
      BY <3>1, <3>2 DEF Written
  <2>5. ASSUME NEW k \in Written(R) PROVE k \in 2 .. b
    <3>1. k \in 1 .. Len(R) /\ R[k] # Empty
      BY DEF Written
    <3>2. k # 1
      BY <1>2, <3>1
    <3> QED
      BY <1>2, <2>1, <2>2, <3>1, <3>2
  <2> QED
    BY <1>5, <2>2, <2>4, <2>5 DEF R, b
<1> QED
  BY <1>4, <1>5 DEF R

\* Two spellings of the same route get the same name.
LEMMA SameRouteSameName ==
    ASSUME NEW p \in Paths, NEW q \in Paths, WellFormed(p), WellFormed(q), SameRoute(p, q)
    PROVE  Normalize(p) = Normalize(q)
<1> DEFINE P == Rooted(p)
           Q == Rooted(q)
<1>1. SameRoute(P, Q)
  <2>1. PICK d \in {0, 1} : ShiftedBy(p, P, d)
    BY RootedPath
  <2>2. PICK e \in {0, 1} : ShiftedBy(q, Q, e)
    BY RootedPath
  <2> HIDE DEF P, Q
  <2> QED
    BY <2>1, <2>2, ShiftKeepsRoute
<1>2. /\ P \in SlashFirst /\ P \in Seq(Segments) /\ Len(P) \in Nat
      /\ Q \in SlashFirst /\ Q \in Seq(Segments) /\ Len(Q) \in Nat
  BY RootedPath, LenProperties DEF SlashFirst, Paths
<1>3. /\ Normalize(p) = Erased(WithoutTrailing(P)) /\ Normalize(q) = Erased(WithoutTrailing(Q))
  BY DEF Normalize
<1>4. /\ \/ Written(P) = {} /\ P = Root
         \/ /\ Written(P) # {} /\ Written(P) = 2 .. LastWritten(P)
            /\ LastWritten(P) \in 2 .. Len(P)
      /\ \/ Written(Q) = {} /\ Q = Root
         \/ /\ Written(Q) # {} /\ Written(Q) = 2 .. LastWritten(Q)
            /\ LastWritten(Q) \in 2 .. Len(Q)
  BY RootedWellFormed
<1> HIDE DEF P, Q
<1>5. PICK match \in [Written(P) -> Written(Q)] :
          /\ \A j \in Written(Q) : \E i \in Written(P) : match[i] = j
          /\ \A i, j \in Written(P) : i < j => match[i] < match[j]
          /\ \A i \in Written(P) : SamePart(P[i], Q[match[i]])
  BY <1>1 DEF SameRoute
<1>6. CASE Written(P) = {}
  <2>1. Written(Q) = {}
    BY <1>5, <1>6
  <2> QED
    BY <1>3, <1>4, <1>6, <2>1
<1>7. CASE Written(P) # {}
  <2> DEFINE b == LastWritten(P)
             c == LastWritten(Q)
  <2>1. Written(Q) # {}
    BY <1>5, <1>7
  <2>2. Written(P) = 2 .. b /\ b \in 2 .. Len(P) /\ Written(Q) = 2 .. c /\ c \in 2 .. Len(Q)
    BY <1>4, <1>7, <2>1
  <2>3. P # Root /\ Q # Root
    <3>1. Written(Root) = {}
      BY DEF Root, Written
    <3> QED
      BY <1>7, <2>1, <3>1
  <2>4. Normalize(p) = Erased(SubSeq(P, 1, b)) /\ Normalize(q) = Erased(SubSeq(Q, 1, c))
    BY <1>3, <2>3 DEF WithoutTrailing
  <2> HIDE DEF b, c
  <2>5. b \in Nat /\ c \in Nat /\ b >= 2
    BY <1>2, <2>2
  <2>6. b = c /\ \A i \in 2 .. b : match[i] = i
    <3>1. /\ match \in [2 .. b -> 2 .. c]
          /\ \A j \in 2 .. c : \E i \in 2 .. b : match[i] = j
          /\ \A i, j \in 2 .. b : i < j => match[i] < match[j]
      BY <1>5, <2>2
    <3> QED
      BY <2>5, <3>1, MatchingInOrder
  <2>7. /\ Len(SubSeq(P, 1, b)) = b /\ \A i \in 1 .. b : SubSeq(P, 1, b)[i] = P[i]
        /\ Len(SubSeq(Q, 1, b)) = b /\ \A i \in 1 .. b : SubSeq(Q, 1, b)[i] = Q[i]
    BY <1>2, <2>2, <2>5, <2>6, SubSeqProperties
  <2>8. ASSUME NEW i \in 1 .. b PROVE ErasedPart(P[i]) = ErasedPart(Q[i])
    <3>1. CASE i = 1
      BY <1>2, <3>1 DEF SlashFirst
    <3>2. CASE i # 1
      <4>1. i \in 2 .. b
        BY <2>5, <3>2
      <4>2. SamePart(P[i], Q[i])
        BY <1>5, <2>2, <2>6, <4>1
      <4> QED
        BY <4>2 DEF SamePart, ErasedPart
    <3> QED
      BY <3>1, <3>2
  <2>9. Erased(SubSeq(P, 1, b)) = [i \in 1 .. b |-> ErasedPart(P[i])]
    BY <2>7 DEF Erased, ErasedPart
  <2>10. Erased(SubSeq(Q, 1, b)) = [i \in 1 .. b |-> ErasedPart(Q[i])]
    BY <2>7 DEF Erased, ErasedPart
  <2> QED
    BY <2>4, <2>6, <2>8, <2>9, <2>10
<1> QED
  BY <1>6, <1>7

\* Normalising a name again changes nothing.
LEMMA NormalizeTwice ==
    ASSUME NEW path \in Paths, WellFormed(path)
    PROVE  Normalize(Normalize(path)) = Normalize(path)
<1> DEFINE R == Rooted(path)
           N == Normalize(path)
<1>1. R \in Seq(Segments) /\ Len(R) \in Nat /\ Len(R) > 1 /\ R[1] = Empty
  BY RootedPath, LenProperties DEF SlashFirst, Paths
<1>2. N = Erased(WithoutTrailing(R))
  BY DEF Normalize
<1>3. \/ Written(R) = {} /\ R = Root
      \/ /\ Written(R) # {} /\ Written(R) = 2 .. LastWritten(R)
         /\ LastWritten(R) \in 2 .. Len(R)
  BY RootedWellFormed
<1>4. \A x : (ErasedPart(x) = Empty <=> x = Empty) /\ ErasedPart(ErasedPart(x)) = ErasedPart(x)
  BY RoutesAssumption DEF ErasedPart, Placeholder, Empty
<1> HIDE DEF R, N
<1>5. CASE Written(R) = {}
  <2>1. R = Root /\ WithoutTrailing(Root) = Root
    BY <1>3, <1>5 DEF WithoutTrailing
  <2>2. Root \in Seq({Empty}) /\ Len(Root) = 2 /\ Root[1] = Empty /\ Root[2] = Empty
    BY DEF Root
  <2>3. Erased(Root) = Root
    <3>1. Erased(Root) = [i \in 1 .. 2 |-> ErasedPart(Root[i])]
      BY <2>2 DEF Erased, ErasedPart
    <3>2. \A i \in 1 .. 2 : ErasedPart(Root[i]) = Root[i]
      BY <1>4, <2>2
    <3>3. Root = [i \in 1 .. 2 |-> Root[i]]
      BY DEF Root
    <3> QED
      BY <3>1, <3>2, <3>3
  <2>4. Rooted(Root) = Root
    BY <2>2 DEF Rooted
  <2> QED
    BY <1>2, <2>1, <2>3, <2>4 DEF Normalize, N
<1>6. CASE Written(R) # {}
  <2> DEFINE b == LastWritten(R)
  <2>1. Written(R) = 2 .. b /\ b \in 2 .. Len(R)
    BY <1>3, <1>6
  <2>2. R # Root
    <3>1. Written(Root) = {}
      BY DEF Root, Written
    <3> QED
      BY <1>6, <3>1
  <2>3. N = Erased(SubSeq(R, 1, b))
    BY <1>2, <2>2 DEF WithoutTrailing
  <2> HIDE DEF b
  <2>4. b \in Nat /\ b >= 2
    BY <1>1, <2>1
  <2>5. Len(SubSeq(R, 1, b)) = b /\ \A i \in 1 .. b : SubSeq(R, 1, b)[i] = R[i]
    BY <1>1, <2>1, <2>4, SubSeqProperties
  <2>6. N = [i \in 1 .. b |-> ErasedPart(R[i])]
    BY <2>3, <2>5 DEF Erased, ErasedPart
  <2>7. Len(N) = b /\ (\A i \in 1 .. b : N[i] = ErasedPart(R[i])) /\ N[1] = Empty
    BY <1>1, <1>4, <2>4, <2>6
  <2>8. Rooted(N) = N
    BY <2>4, <2>7 DEF Rooted
  <2>9. Written(N) = 2 .. b
    <3>1. \A i \in 1 .. b : N[i] # Empty <=> R[i] # Empty
      BY <1>4, <2>7
    <3>2. \A i \in 1 .. b : R[i] # Empty <=> i \in Written(R)
      BY <1>1, <2>1 DEF Written
    <3> QED
      BY <2>1, <2>4, <2>7, <3>1, <3>2 DEF Written
  <2>10. LastWritten(N) = b
    <3>1. \A i \in 2 .. b : (\A j \in 2 .. b : j <= i) <=> i = b
      BY <2>4
    <3>2. LastWritten(N) = CHOOSE i \in 2 .. b : \A j \in 2 .. b : j <= i
      BY <2>4, <2>9 DEF LastWritten
    <3> QED
      BY <2>4, <3>1, <3>2
  <2>11. N # Root
    <3>1. Written(Root) = {}
      BY DEF Root, Written
    <3> QED
      BY <2>4, <2>9, <3>1
  <2>12. SubSeq(N, 1, b) = N
    BY <2>4, <2>6, <2>7
  <2>13. Erased(N) = [i \in 1 .. b |-> ErasedPart(N[i])]
    BY <2>7 DEF Erased, ErasedPart
  <2>14. \A i \in 1 .. b : ErasedPart(N[i]) = ErasedPart(R[i])
    BY <1>4, <2>7
  <2>15. Erased(N) = N
    BY <2>6, <2>13, <2>14
  <2> QED
    BY <2>8, <2>10, <2>11, <2>12, <2>15 DEF Normalize, WithoutTrailing, N
<1> QED
  BY <1>5, <1>6

\* The two sides agree: of paths in which no slash is doubled, declared and called, exactly
\* those of the same route get the same name, and a name in the index is looked up as
\* itself (ids.normalize_route: "applied identically on producer and consumer sides so the
\* two always agree").
THEOREM RoutesAgree ==
    ASSUME NEW p \in Paths, NEW q \in Paths, WellFormed(p), WellFormed(q)
    PROVE  /\ Normalize(p) = Normalize(q) <=> SameRoute(p, q)
           /\ Normalize(Normalize(p)) = Normalize(p)
BY SameNameSameRoute, SameRouteSameName, NormalizeTwice

-----------------------------------------------------------------------------
(* A use and the producers of its name. *)

\* No f-string interpolation but before the path.
SpelledOut(url) == \A i \in 2 .. Len(url) : url[i] # Runtime

LEMMA PathOfIsPath ==
    ASSUME NEW url \in Paths, SpelledOut(url)
    PROVE  PathOf(url) \in Paths /\ ShiftedBy(Tail(url), PathOf(url), 1)
<1> DEFINE path == PathOf(url)
           tail == Tail(url)
<1>1. url \in Seq(Segments) /\ Len(url) \in Nat /\ Len(url) # 0 /\ url # <<>>
  BY LenProperties, EmptySeq DEF Paths
<1>2. path = [i \in 1 .. Len(url) |->
                IF i = 1 \/ url[i] = Runtime THEN Empty ELSE url[i]]
  BY DEF PathOf
<1>3. \A i \in 1 .. Len(url) : url[i] \in Segments
  BY <1>1, ElementOfSeq
<1>4. path \in Seq(Segments) /\ Len(path) = Len(url)
  BY <1>1, <1>2, <1>3 DEF Segments
<1>5. path # <<>>
  BY <1>1, <1>4
<1>6. Len(tail) = Len(url) - 1 /\ \A i \in 1 .. Len(tail) : tail[i] = url[i + 1]
  BY <1>1, HeadTailProperties
<1>7. path[1] = Empty /\ \A i \in 2 .. Len(url) : path[i] = url[i]
  BY <1>1, <1>2 DEF SpelledOut
<1> HIDE DEF path, tail
<1>8. ASSUME NEW i \in Written(tail) PROVE i + 1 \in Written(path) /\ path[i + 1] = tail[i]
  <2>1. i \in 1 .. Len(tail) /\ tail[i] # Empty
    BY DEF Written
  <2>2. i + 1 \in 2 .. Len(url) /\ i + 1 \in 1 .. Len(path)
    BY <1>1, <1>4, <1>6, <2>1
  <2> QED
    BY <1>6, <1>7, <2>1, <2>2 DEF Written
<1>9. ASSUME NEW k \in Written(path) PROVE k - 1 \in Written(tail)
  <2>1. k \in 1 .. Len(path) /\ path[k] # Empty
    BY DEF Written
  <2>2. k \in 2 .. Len(url)
    BY <1>1, <1>4, <1>7, <2>1
  <2>3. k - 1 \in 1 .. Len(tail) /\ (k - 1) + 1 = k
    BY <1>1, <1>6, <2>2
  <2>4. tail[k - 1] = path[k]
    BY <1>6, <1>7, <2>2, <2>3
  <2> QED
    BY <2>1, <2>3, <2>4 DEF Written
<1> QED
  BY <1>4, <1>5, <1>8, <1>9 DEF ShiftedBy, Paths, path, tail

\* Every path is where it is.
LEMMA NotShifted == \A path : ShiftedBy(path, path, 0)
<1>1. \A path : \A i \in Written(path) : i \in Int /\ i + 0 = i /\ i - 0 = i
  BY WrittenType
<1> QED
  BY <1>1 DEF ShiftedBy

CallsSpelledOut == \A use \in Uses : use.by = "call" => SpelledOut(use.name.path)

\* What is found under the name of a use is what the use means.
LEMMA FoundIsUsed ==
    ASSUME CallsSpelledOut, NEW use \in Uses, NEW e \in Entities,
           KindOf[e] \in UsedKinds(use), LocalName(e) = Wanted(use)
    PROVE  IsUseOf(use, e)
<1>1. use.by \in ConsumerTags
  BY IndexAssumption
<1>2. CASE use.by = "call"
  <2>1. KindOf[e] = "http_route"
    BY <1>2 DEF UsedKinds
  <2>2. NameOf[e] \in RouteNames /\ use.name \in RouteNames
    BY <1>2, <2>1, IndexAssumption
  <2>3. PICK p \in Paths, m \in Methods : NameOf[e] = [method |-> m, path |-> p]
    BY <2>2 DEF RouteNames
  <2>4. PICK url \in Paths, n \in Methods : use.name = [method |-> n, path |-> url]
    BY <2>2 DEF RouteNames
  <2>5. LocalName(e) = [method |-> m, path |-> Normalize(p)]
    BY <2>1, <2>3 DEF LocalName, RouteName
  <2>6. Wanted(use) = [method |-> n, path |-> Normalize(PathOf(url))]
    <3>1. [use.name EXCEPT !.path = PathOf(@)] = [method |-> n, path |-> PathOf(url)]
      BY <2>4
    <3>2. RouteName([method |-> n, path |-> PathOf(url)])
            = [method |-> n, path |-> Normalize(PathOf(url))]
      BY DEF RouteName
    <3> QED
      BY <1>2, <3>1, <3>2 DEF Wanted
  <2>7. m = n /\ Normalize(p) = Normalize(PathOf(url))
    <3>1. [method |-> m, path |-> Normalize(p)]
            = [method |-> n, path |-> Normalize(PathOf(url))]
      BY <2>5, <2>6
    <3> QED
      BY <3>1
  <2>8. PathOf(url) \in Paths /\ ShiftedBy(Tail(url), PathOf(url), 1)
    BY <1>2, <2>4, PathOfIsPath DEF CallsSpelledOut
  <2>9. SameRoute(p, PathOf(url))
    BY <2>7, <2>8, SameNameSameRoute
  <2>10. ShiftedBy(PathOf(url), Tail(url), -1) /\ ShiftedBy(p, p, 0)
    BY <2>8, ShiftBack, NotShifted
  <2>11. SameRoute(p, Tail(url))
    BY <2>9, <2>10, ShiftKeepsRoute
  <2> QED
    BY <1>2, <2>1, <2>3, <2>4, <2>7, <2>11 DEF IsUseOf
<1>3. CASE use.by = "import"
  BY <1>3 DEF UsedKinds, LocalName, Wanted, IsUseOf
<1>4. CASE use.by = "subscribe"
  BY <1>4 DEF UsedKinds, LocalName, Wanted, IsUseOf
<1> QED
  BY <1>1, <1>2, <1>3, <1>4 DEF ConsumerTags

\* The producers a use is resolved to are of a kind it may use, and of its name.
LEMMA ProducerIsNamed ==
    ASSUME NEW use \in Uses, NEW e \in Producer(use)
    PROVE  /\ e \in DOMAIN entities
           /\ KindOf[e] \in UsedKinds(use)
           /\ LocalName(e) = Wanted(use)
<1>1. use.by \in ConsumerTags
  BY IndexAssumption
<1> QED
  BY <1>1 DEF Producer, Symbol, Named, LastById, UsedKinds, ConsumerTags

-----------------------------------------------------------------------------
(* The edges located in code are uses. *)

\* File f has code of the consumer that means the producer, which is another service's.
IsLocatedUse(l, f) ==
    /\ OwnerOf[l[2]] # l[1]
    /\ \E use \in Uses : use.service = l[1] /\ use.file = f /\ IsUseOf(use, l[2])

\* So it is for the edges with a location, only these have a high confidence, and so it is
\* for those extract is about to write.
Located ==
    /\ \A l \in DOMAIN edges :
        /\ edges[l].confidence = "high" => edges[l].from_file # NoFile
        /\ edges[l].from_file # NoFile => IsLocatedUse(l, edges[l].from_file)
    /\ ext.pc = "code" => \A x \in ext.links : IsLocatedUse(x[1], x[2])

\* The links the index gives are uses.
LEMMA IndexedAreUses ==
    ASSUME CallsSpelledOut, TypeOK, NEW l, NEW f,
           \E use \in Uses : use.file = f /\ l \in LinksOf(use)
    PROVE  IsLocatedUse(l, f)
<1>1. PICK use \in Uses : use.file = f /\ l \in LinksOf(use)
  OBVIOUS
<1>2. PICK e \in Producer(use) :
          OwnerOf[e] # use.service /\ l = <<use.service, e, EdgeKind(use, e)>>
  BY <1>1 DEF LinksOf
<1>3. e \in Entities
  BY ProducerIsNamed DEF TypeOK, StoreTypeOK
<1>4. IsUseOf(use, e)
  BY <1>3, ProducerIsNamed, FoundIsUsed
<1>5. l[1] = use.service /\ l[2] = e
  BY <1>2
<1> QED
  BY <1>1, <1>2, <1>4, <1>5 DEF IsLocatedUse

\* One step of extract keeps it.
LEMMA LocatedByExtract ==
    ASSUME CallsSpelledOut, TypeOK, Located, ExtractNext
    PROVE  Located'
<1> USE DEF Located
<1>1. CASE StartExtract
  <2>1. ext'.pc = "producers" /\ edges' = edges
    BY <1>1 DEF StartExtract, AtRest, store
  <2> QED
    BY <2>1
<1>2. ASSUME NEW x \in Slots, ExtractProducer(x) PROVE Located'
  <2>1. ext'.pc = "producers" /\ edges' = edges
    BY <1>2 DEF ExtractProducer, TypeOK, ExtractTypeOK, ExtractProcess
  <2> QED
    BY <2>1
<1>3. CASE ExtractManifests
  <2>1. ext'.pc = "manifests" /\ edges' = edges
    BY <1>3 DEF ExtractManifests, store, TypeOK, ExtractTypeOK, ExtractProcess
  <2> QED
    BY <2>1
<1>8. ASSUME NEW s \in Services, ReadManifest(s) PROVE Located'
  <2>1. ext'.pc = "manifests" /\ edges' = edges
    BY <1>8 DEF ReadManifest, store, TypeOK, ExtractTypeOK, ExtractProcess
  <2> QED
    BY <2>1
<1>4. ASSUME NEW k \in Links, SeedManifestEdge(k) PROVE Located'
  <2>1. ext'.pc = "manifests"
    BY <1>4 DEF SeedManifestEdge, TypeOK, ExtractTypeOK, ExtractProcess
  <2>2. \A l \in DOMAIN edges' :
            \/ l \in DOMAIN edges /\ edges'[l] = edges[l]
            \/ edges'[l].confidence = "medium" /\ edges'[l].from_file = NoFile
    BY <1>4 DEF SeedManifestEdge, UpsertEdge
  <2> QED
    BY <2>1, <2>2
<1>5. CASE IndexProducers
  <2>1. /\ edges' = edges
        /\ \A x \in ext'.links : \E use \in Uses : use.file = x[2] /\ x[1] \in LinksOf(use)
    BY <1>5 DEF IndexProducers, store, TypeOK, ExtractTypeOK, ExtractProcess
  <2>2. \A x \in ext'.links : IsLocatedUse(x[1], x[2])
    BY <2>1, IndexedAreUses
  <2> QED
    BY <2>1, <2>2
<1>6. ASSUME NEW k \in Links, NEW f \in Files, ResolveCodeEdge(k, f) PROVE Located'
  <2>1. ext.pc = "code" /\ <<k, f>> \in ext.links /\ ext'.links \subseteq ext.links
    BY <1>6 DEF ResolveCodeEdge, TypeOK, ExtractTypeOK, ExtractProcess
  <2>2. IsLocatedUse(k, f) /\ f # NoFile
    BY <2>1, GitAssumption DEF NoFile
  <2>3. \A l \in DOMAIN edges' :
            \/ l \in DOMAIN edges /\ edges'[l] = edges[l]
            \/ l = k /\ edges'[l].from_file = f
    BY <1>6, <2>2 DEF ResolveCodeEdge, UpsertEdge
  <2> QED
    BY <2>1, <2>2, <2>3
<1>7. CASE ExtractFinish \/ ExtractCrash
  <2>1. ext'.pc = "idle" /\ edges' = edges
    BY <1>7 DEF ExtractFinish, ExtractCrash, AtRest, store
  <2> QED
    BY <2>1
<1> QED
  BY <1>1, <1>2, <1>3, <1>4, <1>5, <1>6, <1>7, <1>8 DEF ExtractNext, ExtractStep

LEMMA LocatedStep ==
    ASSUME CallsSpelledOut, TypeOK, Located, [Next]_vars
    PROVE  Located'
<1>1. CASE ExtractNext
  BY <1>1, LocatedByExtract
<1>2. CASE UNCHANGED <<edges, ext>>
  BY <1>2 DEF Located
<1>3. CASE DeveloperCommits \/ UNCHANGED vars
  BY <1>2, <1>3 DEF DeveloperCommits, vars, store, extVars
<1>4. CASE IngestNext
  BY <1>2, <1>4
     DEF IngestNext, RunIngest, StartIngest, IngestStep, IngestEntity, IngestBounds,
         IngestSummarize, IngestAppend, IngestNextCommit, IngestFinish, IngestCrash, store,
         extVars
<1> QED
  BY <1>1, <1>3, <1>4 DEF Next

\* The invariant, for every run and with whatever ingest and the crashes do in between.
LEMMA EdgesLocated ==
    ASSUME CallsSpelledOut
    PROVE  Spec => []Located
<1>1. Init => Located
  BY DEF Init, StoreInit, ExtractInit, AtRest, Located
<1>2. TypeOK /\ Located /\ [Next]_vars => Located'
  BY LocatedStep
<1> QED
  BY <1>1, <1>2, Typed, PTL DEF Spec

\* An edge with a code location is a use, whatever other names there are, as long as
\* no call interpolates a value into the middle of its path: the name an extract looks a
\* use up by leads to what the code means, and to no contract of the service itself.
THEOREM CodeEdgesSound ==
    ASSUME CallsSpelledOut
    PROVE  Spec => []CodeEdgesAreUses
<1>1. Located => CodeEdgesAreUses
  BY DEF Located, CodeEdgesAreUses, IsLocatedUse
<1> QED
  BY <1>1, EdgesLocated, PTL

-----------------------------------------------------------------------------
(* Every use of what is declared is found. *)

\* The paths declared and called are well formed, and a call's begins with a slash.
RoutesWellFormed ==
    /\ \A e \in Entities : KindOf[e] = "http_route" => WellFormed(NameOf[e].path)
    /\ \A use \in Uses : use.by = "call" =>
        HasPath(use.name.path) /\ WellFormed(PathOf(use.name.path))

\* What the use means is found under its name.
LEMMA UsedIsFound ==
    ASSUME CallsSpelledOut, RoutesWellFormed, NEW use \in Uses, NEW e \in Entities,
           IsUseOf(use, e)
    PROVE  /\ KindOf[e] \in UsedKinds(use)
           /\ LocalName(e) = Wanted(use)
           /\ Recognised(use)
<1>1. use.by \in ConsumerTags
  BY IndexAssumption
<1>2. CASE use.by = "call"
  <2>1. KindOf[e] = "http_route"
    BY <1>2 DEF IsUseOf
  <2>2. NameOf[e] \in RouteNames /\ use.name \in RouteNames
    BY <1>2, <2>1, IndexAssumption
  <2>3. PICK p \in Paths, m \in Methods : NameOf[e] = [method |-> m, path |-> p]
    BY <2>2 DEF RouteNames
  <2>4. PICK url \in Paths, n \in Methods : use.name = [method |-> n, path |-> url]
    BY <2>2 DEF RouteNames
  <2>5. LocalName(e) = [method |-> m, path |-> Normalize(p)]
    BY <2>1, <2>3 DEF LocalName, RouteName
  <2>6. Wanted(use) = [method |-> n, path |-> Normalize(PathOf(url))]
    <3>1. [use.name EXCEPT !.path = PathOf(@)] = [method |-> n, path |-> PathOf(url)]
      BY <2>4
    <3>2. RouteName([method |-> n, path |-> PathOf(url)])
            = [method |-> n, path |-> Normalize(PathOf(url))]
      BY DEF RouteName
    <3> QED
      BY <1>2, <3>1, <3>2 DEF Wanted
  <2>7. m = n /\ SameRoute(p, Tail(url))
    BY <1>2, <2>3, <2>4 DEF IsUseOf
  <2>8. PathOf(url) \in Paths /\ ShiftedBy(Tail(url), PathOf(url), 1)
    BY <1>2, <2>4, PathOfIsPath DEF CallsSpelledOut
  <2>9. SameRoute(p, PathOf(url))
    BY <2>7, <2>8, NotShifted, ShiftKeepsRoute
  <2>10. WellFormed(p) /\ WellFormed(PathOf(url)) /\ HasPath(url)
    BY <1>2, <2>1, <2>3, <2>4 DEF RoutesWellFormed
  <2>11. Normalize(p) = Normalize(PathOf(url))
    BY <2>8, <2>9, <2>10, SameRouteSameName
  <2> QED
    BY <1>2, <2>1, <2>4, <2>5, <2>6, <2>7, <2>10, <2>11 DEF UsedKinds, Recognised
<1>3. CASE use.by = "import"
  BY <1>3 DEF UsedKinds, LocalName, Wanted, IsUseOf, Recognised
<1>4. CASE use.by = "subscribe"
  BY <1>4 DEF UsedKinds, LocalName, Wanted, IsUseOf, Recognised
<1> QED
  BY <1>1, <1>2, <1>3, <1>4 DEF ConsumerTags

\* The use means another service's contract, and no other.
Resolvable(use, e) ==
    /\ IsUseOf(use, e)
    /\ OwnerOf[e] # use.service
    /\ \A other \in Entities \ {e} : ~IsUseOf(use, other)

\* When the producer is known, such a use is resolved to it and to nothing else.
LEMMA ResolvedToProducer ==
    ASSUME CallsSpelledOut, RoutesWellFormed, TypeOK, NEW use \in Uses,
           NEW e \in DOMAIN entities, Resolvable(use, e)
    PROVE  /\ <<use.service, e, EdgeKind(use, e)>> \in LinksOf(use)
           /\ <<use.service, e, EdgeKind(use, e)>> \in Links
<1>1. DOMAIN entities \subseteq Entities /\ e \in Entities
  BY DEF TypeOK, StoreTypeOK
<1>2. KindOf[e] \in UsedKinds(use) /\ LocalName(e) = Wanted(use) /\ Recognised(use)
  BY <1>1, UsedIsFound DEF Resolvable
<1>3. \A kind \in UsedKinds(use) :
          Named(kind, Wanted(use)) = IF kind = KindOf[e] THEN {e} ELSE {}
  <2>1. ASSUME NEW kind \in UsedKinds(use), NEW x \in Named(kind, Wanted(use))
        PROVE  x = e
    <3>1. x \in Entities /\ KindOf[x] \in UsedKinds(use) /\ LocalName(x) = Wanted(use)
      BY <1>1 DEF Named
    <3>2. IsUseOf(use, x)
      BY <3>1, FoundIsUsed
    <3> QED
      BY <3>1, <3>2 DEF Resolvable
  <2>2. e \in Named(KindOf[e], Wanted(use))
    BY <1>2 DEF Named
  <2>3. \A kind : e \in Named(kind, Wanted(use)) => kind = KindOf[e]
    BY DEF Named
  <2> QED
    BY <1>2, <2>1, <2>2, <2>3
<1>4. LastById({e}) = {e}
  BY <1>1, IndexAssumption DEF LastById
<1>5. use.by \in ConsumerTags
  BY IndexAssumption
<1>6. e \in Producer(use)
  <2>1. CASE use.by = "call"
    <3>1. KindOf[e] = "http_route" /\ Named("http_route", Wanted(use)) = {e}
      BY <1>2, <1>3, <2>1 DEF UsedKinds
    <3> QED
      BY <1>4, <2>1, <3>1 DEF Producer
  <2>2. CASE use.by = "import"
    <3>1. CASE KindOf[e] = "schema_model"
      <4>1. Named("schema_model", Wanted(use)) = {e}
        BY <1>2, <1>3, <2>2, <3>1 DEF UsedKinds
      <4> QED
        BY <1>4, <2>2, <4>1 DEF Producer, Symbol
    <3>2. CASE KindOf[e] = "export"
      <4>1. Named("schema_model", Wanted(use)) = {} /\ Named("export", Wanted(use)) = {e}
        BY <1>2, <1>3, <2>2, <3>2 DEF UsedKinds
      <4> QED
        BY <1>4, <2>2, <4>1 DEF Producer, Symbol
    <3> QED
      BY <1>2, <2>2, <3>1, <3>2 DEF UsedKinds
  <2>3. CASE use.by = "subscribe"
    <3>1. KindOf[e] = "queue_topic" /\ Named("queue_topic", Wanted(use)) = {e}
      BY <1>2, <1>3, <2>3 DEF UsedKinds
    <3> QED
      BY <1>4, <2>3, <3>1 DEF Producer
  <2> QED
    BY <1>5, <2>1, <2>2, <2>3 DEF ConsumerTags
<1>7. OwnerOf[e] # use.service
  BY DEF Resolvable
<1>8. <<use.service, e, EdgeKind(use, e)>> \in LinksOf(use)
  BY <1>2, <1>6, <1>7 DEF LinksOf
<1>9. <<use.service, e, EdgeKind(use, e)>> \in Links
  BY <1>1, <1>2, <1>7, ExtractAssumption
<1> QED
  BY <1>8, <1>9

\* The use has its edge, with a location.
ResolvedEdge(use, e) ==
    \E l \in DOMAIN edges : /\ l[1] = use.service
                            /\ l[2] = e
                            /\ edges[l].confidence = "high"
                            /\ edges[l].from_file # NoFile

\* Extract has registered every contract of its tree when it indexes the producers, and
\* what it has not written yet of the edges in code it still has to write.
Registered ==
    ext.pc # "idle" =>
        \A s \in Slots : ext.tree[s] # Absent =>
            \/ s[2] \in DOMAIN entities
            \/ ext.pc = "producers" /\ s \in ext.slots
Linked ==
    ext.pc = "code" =>
        \A use \in Uses, s \in Slots :
            ext.tree[s] # Absent /\ Resolvable(use, s[2]) =>
                \/ <<<<use.service, s[2], EdgeKind(use, s[2])>>, use.file>> \in ext.links
                \/ ResolvedEdge(use, s[2])

\* No step takes an edge found away.
LEMMA ResolvedEdgeKept ==
    ASSUME [Next]_vars, NEW use, NEW e, ResolvedEdge(use, e)
    PROVE  ResolvedEdge(use, e)'
<1>1. PICK l \in DOMAIN edges : /\ l[1] = use.service
                                /\ l[2] = e
                                /\ edges[l].confidence = "high"
                                /\ edges[l].from_file # NoFile
  BY DEF ResolvedEdge
<1>2. /\ l \in DOMAIN edges'
      /\ edges'[l].confidence = "high"
      /\ edges'[l].from_file # NoFile
  BY <1>1, EdgesBetter DEF BetterEdges
<1> QED
  BY <1>1, <1>2 DEF ResolvedEdge

LEMMA RegisteredStep ==
    ASSUME TypeOK, Registered, [Next]_vars
    PROVE  Registered'
<1>0. ext \in ExtractProcess /\ DOMAIN entities \subseteq DOMAIN entities'
  BY RowsOnlyGrow DEF TypeOK, ExtractTypeOK
<1>1. CASE ext'.pc = "idle"
  BY <1>1 DEF Registered
<1>2. CASE UNCHANGED ext
  BY <1>0, <1>2 DEF Registered
<1>3. CASE StartExtract
  BY <1>3 DEF StartExtract, AtRest, Registered
<1>4. ASSUME NEW x \in Slots, ExtractProducer(x) PROVE Registered'
  <2>1. /\ ext.pc = "producers" /\ ext'.pc = "producers"
        /\ ext'.tree = ext.tree /\ ext'.slots = ext.slots \ {x}
    BY <1>0, <1>4 DEF ExtractProducer, ExtractProcess
  <2>2. x[2] \in DOMAIN entities'
    BY <1>4 DEF ExtractProducer, UpsertEntity
  <2> QED
    BY <1>0, <2>1, <2>2 DEF Registered
<1>5. CASE ExtractManifests
  <2>1. ext.pc = "producers" /\ ext.slots = {} /\ ext'.tree = ext.tree
    BY <1>0, <1>5 DEF ExtractManifests, ExtractProcess
  <2> QED
    BY <1>0, <2>1 DEF Registered
<1>6. CASE \/ \E s \in Services : ReadManifest(s)
           \/ \E l \in Links : SeedManifestEdge(l)
           \/ IndexProducers
           \/ \E l \in Links, f \in Files : ResolveCodeEdge(l, f)
  <2>1. ext.pc \notin {"idle", "producers"} /\ ext'.tree = ext.tree
    BY <1>0, <1>6 DEF ReadManifest, SeedManifestEdge, IndexProducers, ResolveCodeEdge,
                       ExtractProcess
  <2> QED
    BY <1>0, <2>1 DEF Registered
<1>7. CASE ExtractFinish \/ ExtractCrash
  BY <1>1, <1>7 DEF ExtractFinish, ExtractCrash, AtRest
<1>8. CASE ExtractNext
  BY <1>3, <1>4, <1>5, <1>6, <1>7, <1>8 DEF ExtractNext, ExtractStep
<1>9. CASE DeveloperCommits \/ IngestNext \/ UNCHANGED vars
  BY <1>2, <1>9 DEF DeveloperCommits, IngestNext, vars, extVars
<1> QED
  BY <1>8, <1>9 DEF Next

LEMMA LinkedStep ==
    ASSUME CallsSpelledOut, RoutesWellFormed, TypeOK, Registered, Linked, [Next]_vars
    PROVE  Linked'
<1>0. ext \in ExtractProcess
  BY DEF TypeOK, ExtractTypeOK
<1>1. CASE ext'.pc # "code"
  BY <1>1 DEF Linked
<1>2. CASE UNCHANGED ext
  BY <1>2, ResolvedEdgeKept DEF Linked
<1>3. CASE IndexProducers
  <2>1. /\ ext.pc = "manifests" /\ ext'.tree = ext.tree
        /\ ext'.links = {x \in Links \X Files :
                            \E use \in Uses : use.file = x[2] /\ x[1] \in LinksOf(use)}
    BY <1>0, <1>3 DEF IndexProducers, ExtractProcess
  <2>2. ASSUME NEW use \in Uses, NEW s \in Slots,
               ext.tree[s] # Absent, Resolvable(use, s[2])
        PROVE  <<<<use.service, s[2], EdgeKind(use, s[2])>>, use.file>> \in ext'.links
    <3>1. s[2] \in DOMAIN entities
      BY <2>1, <2>2 DEF Registered
    <3>2. /\ <<use.service, s[2], EdgeKind(use, s[2])>> \in LinksOf(use)
          /\ <<use.service, s[2], EdgeKind(use, s[2])>> \in Links
      BY <2>2, <3>1, ResolvedToProducer
    <3>3. use.file \in Files
      BY IndexAssumption
    <3> QED
      BY <2>1, <3>2, <3>3
  <2> QED
    BY <2>1, <2>2 DEF Linked
<1>4. ASSUME NEW k \in Links, NEW f \in Files, ResolveCodeEdge(k, f) PROVE Linked'
  <2>1. /\ ext.pc = "code" /\ ext'.tree = ext.tree
        /\ ext'.links = ext.links \ {<<k, f>>}
    BY <1>0, <1>4 DEF ResolveCodeEdge, ExtractProcess
  <2>2. k \in DOMAIN edges' /\ edges'[k].confidence = "high" /\ edges'[k].from_file # NoFile
    BY <1>4, GitAssumption DEF ResolveCodeEdge, UpsertEdge, NoFile
  <2>3. ASSUME NEW use \in Uses, NEW s \in Slots,
               ext.tree[s] # Absent, Resolvable(use, s[2])
        PROVE  \/ <<<<use.service, s[2], EdgeKind(use, s[2])>>, use.file>> \in ext'.links
               \/ ResolvedEdge(use, s[2])'
    <3>1. CASE k = <<use.service, s[2], EdgeKind(use, s[2])>>
      <4>1. k[1] = use.service /\ k[2] = s[2]
        BY <3>1
      <4> QED
        BY <2>2, <4>1 DEF ResolvedEdge
    <3>2. CASE k # <<use.service, s[2], EdgeKind(use, s[2])>>
      BY <2>1, <2>3, <3>2, ResolvedEdgeKept DEF Linked
    <3> QED
      BY <3>1, <3>2
  <2> QED
    BY <2>1, <2>3 DEF Linked
<1>5. CASE ExtractNext
  <2>1. CASE StartExtract
    BY <1>1, <2>1 DEF StartExtract, AtRest
  <2>2. ASSUME NEW x \in Slots, ExtractProducer(x) PROVE Linked'
    BY <1>0, <1>1, <2>2 DEF ExtractProducer, ExtractProcess
  <2>3. CASE ExtractManifests
    BY <1>0, <1>1, <2>3 DEF ExtractManifests, ExtractProcess
  <2>6. ASSUME NEW s \in Services, ReadManifest(s) PROVE Linked'
    BY <1>0, <1>1, <2>6 DEF ReadManifest, ExtractProcess
  <2>4. ASSUME NEW l \in Links, SeedManifestEdge(l) PROVE Linked'
    BY <1>0, <1>1, <2>4 DEF SeedManifestEdge, ExtractProcess
  <2>5. CASE ExtractFinish \/ ExtractCrash
    BY <1>1, <2>5 DEF ExtractFinish, ExtractCrash, AtRest
  <2> QED
    BY <1>3, <1>4, <1>5, <2>1, <2>2, <2>3, <2>4, <2>5, <2>6 DEF ExtractNext, ExtractStep
<1>6. CASE DeveloperCommits \/ IngestNext \/ UNCHANGED vars
  BY <1>2, <1>6 DEF DeveloperCommits, IngestNext, vars, extVars
<1> QED
  BY <1>5, <1>6 DEF Next

\* No use of a contract is missed: when an extract completes, every use of a contract its
\* tree declares is an edge with a location, whatever is ingested, crashes or is extracted
\* before, if no other entity is meant by the use, no slash is doubled in a path, and no
\* call interpolates a value into the middle of its path.
THEOREM CodeUsesFound ==
    ASSUME CallsSpelledOut, RoutesWellFormed
    PROVE  Spec => CodeUsesResolved
<1> DEFINE Found ==
        ExtractFinish =>
            \A use \in Uses, s \in Slots :
                (/\ ext.tree[s] # Absent
                 /\ IsUseOf(use, s[2])
                 /\ OwnerOf[s[2]] # use.service
                 /\ \A e \in Entities \ {s[2]} : ~IsUseOf(use, e)) =>
                    \E l \in DOMAIN edges' : /\ l[1] = use.service
                                             /\ l[2] = s[2]
                                             /\ edges'[l].confidence = "high"
                                             /\ edges'[l].from_file # NoFile
<1>1. Init => Registered /\ Linked
  BY DEF Init, ExtractInit, AtRest, Registered, Linked
<1>2. TypeOK /\ Registered /\ Linked /\ [Next]_vars => (Registered /\ Linked)'
  BY RegisteredStep, LinkedStep
<1>3. ASSUME Linked PROVE Found
  <2> SUFFICES ASSUME ExtractFinish, NEW use \in Uses, NEW s \in Slots,
                      ext.tree[s] # Absent, Resolvable(use, s[2])
               PROVE  \E l \in DOMAIN edges' : /\ l[1] = use.service
                                               /\ l[2] = s[2]
                                               /\ edges'[l].confidence = "high"
                                               /\ edges'[l].from_file # NoFile
    BY DEF Resolvable
  <2>1. ext.pc = "code" /\ ext.links = {} /\ edges' = edges
    BY DEF ExtractFinish, store
  <2>2. ResolvedEdge(use, s[2])
    BY <1>3, <2>1 DEF Linked
  <2> QED
    BY <2>1, <2>2 DEF ResolvedEdge
<1> QED
  BY <1>1, <1>2, <1>3, Typed, PTL DEF Spec, CodeUsesResolved
-----------------------------------------------------------------------------
(* A flag is never invented. *)

\* Some commit's manifests declare the link.
DeclaredOnce(l) == \E d \in Commits : l \in ManifestsAt(d)

\* An edge without a location was declared once, and so was what extract is about to seed.
Declared ==
    /\ \A l \in DOMAIN edges : edges[l].from_file # NoFile \/ DeclaredOnce(l)
    /\ ext.pc \in {"producers", "manifests"} => \A x \in ext.links : DeclaredOnce(x[1])

LEMMA DeclaredOnceKept ==
    ASSUME TypeOK, [Next]_vars, NEW l, DeclaredOnce(l)
    PROVE  DeclaredOnce(l)'
<1>1. PICK d \in Commits : l \in ManifestsAt(d)
  BY DEF DeclaredOnce
<1>2. history' = history \/ (\E x : history' = Append(history, x))
  BY HistoryStep
<1>3. d \in Commits' /\ history'[d] = history[d]
  <2>1. CASE history' = history
    BY <1>1, <2>1 DEF Commits
  <2>2. CASE \E x : history' = Append(history, x)
    BY <1>1, <2>2, HistoryOnlyGrows DEF TypeOK
  <2> QED
    BY <1>2, <2>1, <2>2
<1>4. l \in ManifestsAt(d)'
  BY <1>1, <1>3 DEF ManifestsAt
<1> QED
  BY <1>3, <1>4 DEF DeclaredOnce

LEMMA DeclaredByExtract ==
    ASSUME TypeOK, Declared, ExtractNext
    PROVE  Declared'
<1>0. ext \in ExtractProcess /\ \A l : DeclaredOnce(l) => DeclaredOnce(l)'
  BY DeclaredOnceKept DEF TypeOK, ExtractTypeOK, Next
<1>1. CASE StartExtract \/ ExtractFinish \/ ExtractCrash
  <2>1. ext'.links = {} /\ edges' = edges
    <3>1. CASE StartExtract
      BY <3>1 DEF StartExtract, AtRest, store
    <3>2. CASE ExtractFinish \/ ExtractCrash
      BY <3>2 DEF ExtractFinish, ExtractCrash, AtRest, store
    <3> QED
      BY <1>1, <3>1, <3>2
  <2> QED
    BY <1>0, <2>1 DEF Declared
<1>2. ASSUME NEW x \in Slots, ExtractProducer(x) PROVE Declared'
  <2>1. ext.pc = "producers" /\ ext'.links = ext.links /\ edges' = edges
    BY <1>0, <1>2 DEF ExtractProducer, ExtractProcess
  <2> QED
    BY <1>0, <2>1 DEF Declared
<1>3. CASE ExtractManifests
  <2>1. ext.pc = "producers" /\ ext'.links = ext.links /\ edges' = edges
    BY <1>0, <1>3 DEF ExtractManifests, ExtractProcess, store
  <2> QED
    BY <1>0, <2>1 DEF Declared
<1>4. ASSUME NEW s \in Services, ReadManifest(s) PROVE Declared'
  <2>1. ext'.links = Manifest(s) \X {NoFile} /\ edges' = edges
    BY <1>0, <1>4 DEF ReadManifest, ExtractProcess, store
  <2>2. ASSUME NEW l \in Manifest(s) PROVE DeclaredOnce(l)
    <3>1. l \in ManifestsAt(HEAD) /\ HEAD # NoCommit
      BY DEF Manifest, ManifestsAt
    <3>2. HEAD \in Commits
      BY <3>1, HEADType DEF TypeOK, Commits, HEAD, NoCommit
    <3> QED
      BY <3>1, <3>2 DEF DeclaredOnce
  <2> QED
    BY <1>0, <2>1, <2>2 DEF Declared
<1>5. ASSUME NEW k \in Links, SeedManifestEdge(k) PROVE Declared'
  <2>1. /\ ext.pc = "manifests" /\ <<k, NoFile>> \in ext.links
        /\ ext'.links \subseteq ext.links
    BY <1>0, <1>5 DEF SeedManifestEdge, ExtractProcess
  <2>2. DeclaredOnce(k)
    BY <2>1 DEF Declared
  <2>3. \A l \in DOMAIN edges' : l = k \/ (l \in DOMAIN edges /\ edges'[l] = edges[l])
    BY <1>5 DEF SeedManifestEdge, UpsertEdge
  <2> QED
    BY <1>0, <2>1, <2>2, <2>3 DEF Declared
<1>6. CASE IndexProducers
  <2>1. ext'.pc = "code" /\ edges' = edges
    BY <1>0, <1>6 DEF IndexProducers, ExtractProcess, store
  <2> QED
    BY <1>0, <2>1 DEF Declared
<1>7. ASSUME NEW k \in Links, NEW f \in Files, ResolveCodeEdge(k, f) PROVE Declared'
  <2>1. ext'.pc = "code" /\ f # NoFile
    BY <1>0, <1>7, GitAssumption DEF ResolveCodeEdge, ExtractProcess, NoFile
  <2>2. \A l \in DOMAIN edges' :
            \/ l \in DOMAIN edges /\ edges'[l] = edges[l]
            \/ edges'[l].from_file # NoFile
    BY <1>7, <2>1 DEF ResolveCodeEdge, UpsertEdge
  <2> QED
    BY <1>0, <2>1, <2>2 DEF Declared
<1> QED
  BY <1>1, <1>2, <1>3, <1>4, <1>5, <1>6, <1>7 DEF ExtractNext, ExtractStep

LEMMA DeclaredInvStep ==
    ASSUME TypeOK, Declared, [Next]_vars
    PROVE  Declared'
<1>1. CASE ExtractNext
  BY <1>1, DeclaredByExtract
<1>2. CASE UNCHANGED <<edges, ext>>
  BY <1>2, DeclaredOnceKept DEF Declared
<1>3. CASE DeveloperCommits \/ UNCHANGED vars
  BY <1>2, <1>3 DEF DeveloperCommits, vars, store, extVars
<1>4. CASE IngestNext
  BY <1>2, <1>4
     DEF IngestNext, RunIngest, StartIngest, IngestStep, IngestEntity, IngestBounds,
         IngestSummarize, IngestAppend, IngestNextCommit, IngestFinish, IngestCrash, store,
         extVars
<1> QED
  BY <1>1, <1>3, <1>4 DEF Next

\* No breaking flag without someone who depends on the contract, in the manifests of some
\* commit or in code, whatever a model answers; and with the rule-based verdicts none
\* without a contract change in the commit.  The edges in code are uses as long as no call
\* interpolates a value into the middle of its path.
THEOREM Sound ==
    ASSUME CallsSpelledOut
    PROVE  Spec => []BreakingSound
<1>1. Init => Declared
  BY DEF Init, StoreInit, ExtractInit, AtRest, Declared
<1>2. IInv /\ Declared /\ [Next]_vars => Declared'
  BY DeclaredInvStep DEF IInv
<1>3. ASSUME IInv, Located, Declared PROVE BreakingSound
  <2> SUFFICES ASSUME NEW i \in DOMAIN events, events[i].breaking
               PROVE  /\ DependedOn(events[i].entity)
                      /\ ~RealLLM => \E s \in Work(events[i].commit) :
                            /\ s[2] = events[i].entity
                            /\ Structural(events[i].commit, s[1], s[2]) \in BreakingKinds
    BY DEF BreakingSound
  <2>1. events[i].kind \in BreakingKinds /\ HasInboundEdge(events[i].entity)
    BY <1>3 DEF IInv, FlagsBacked
  <2>2. DependedOn(events[i].entity)
    <3>1. PICK l \in DOMAIN edges : l[2] = events[i].entity
      BY <2>1 DEF HasInboundEdge
    <3>2. CASE DeclaredOnce(l)
      BY <3>1, <3>2 DEF DeclaredOnce, DependedOn
    <3>3. CASE edges[l].from_file # NoFile
      <4>1. IsLocatedUse(l, edges[l].from_file)
        BY <1>3, <3>3 DEF Located
      <4> QED
        BY <3>1, <4>1 DEF IsLocatedUse, DependedOn
    <3> QED
      BY <1>3, <3>2, <3>3 DEF Declared
  <2>3. ~RealLLM => \E s \in Work(events[i].commit) :
            /\ s[2] = events[i].entity
            /\ events[i].kind = Structural(events[i].commit, s[1], s[2])
    BY <1>3 DEF IInv, EventsExact
  <2> QED
    BY <2>1, <2>2, <2>3
<1> QED
  BY <1>1, <1>2, <1>3, Inductive, EdgesLocated, PTL DEF Spec

-----------------------------------------------------------------------------
(* The index. *)

\* However a call is spelled, it finds the declared routes that it means and no others,
\* if no declared path doubles a slash.
THEOREM SpellingsFound ==
    ASSUME \A e \in Entities : KindOf[e] = "http_route" => WellFormed(NameOf[e].path)
    PROVE  Spec => SpellingsFindRoute
<1> DEFINE Found ==
        \A e \in DOMAIN entities : KindOf[e] = "http_route" =>
            LET declared == NameOf[e].path
            IN  /\ \A p \in Spellings :
                    Normalize(p) = LocalName(e).path <=> SameRoute(p, declared)
                /\ Normalize(LocalName(e).path) = LocalName(e).path
<1>1. ASSUME TypeOK PROVE Found
  <2> SUFFICES ASSUME NEW e \in DOMAIN entities, KindOf[e] = "http_route"
               PROVE  LET declared == NameOf[e].path
                      IN  /\ \A p \in Spellings :
                              Normalize(p) = LocalName(e).path <=> SameRoute(p, declared)
                          /\ Normalize(LocalName(e).path) = LocalName(e).path
    OBVIOUS
  <2>1. e \in Entities
    BY <1>1 DEF TypeOK, StoreTypeOK
  <2>2. NameOf[e] \in RouteNames
    BY <2>1, IndexAssumption
  <2>3. PICK q \in Paths, m \in Methods : NameOf[e] = [method |-> m, path |-> q]
    BY <2>2 DEF RouteNames
  <2>4. LocalName(e) = [method |-> m, path |-> Normalize(q)]
    BY <2>3 DEF LocalName, RouteName
  <2>5. LocalName(e).path = Normalize(q) /\ NameOf[e].path = q /\ WellFormed(q)
    BY <2>1, <2>3, <2>4
  <2>6. \A p \in Spellings : Normalize(p) = Normalize(q) <=> SameRoute(p, q)
    BY <2>5, IndexAssumption, RoutesAgree
  <2>7. Normalize(Normalize(q)) = Normalize(q)
    BY <2>5, NormalizeTwice
  <2> QED
    BY <2>5, <2>6, <2>7
<1>2. Found => [IndexProducers => Found]_vars
  OBVIOUS
<1> QED
  BY <1>1, <1>2, Typed, PTL DEF SpellingsFindRoute
=================================================================================
