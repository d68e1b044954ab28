---------------------------- MODULE WindowLemmas ----------------------------
(***************************************************************************)
(* What the proofs about the digests share: induction over numbers and     *)
(* sequences, and the windows of a sequence.                               *)
(***************************************************************************)
EXTENDS Integers, FiniteSets, Sequences, FiniteSetTheorems, SequenceTheorems, TLAPS

-----------------------------------------------------------------------------
(* Induction                                                               *)

\* How many of S come before x.
Rank(S, x) == Cardinality({y \in S : y < x})

\* In a finite set of n numbers there is one of each rank below n.
LEMMA Ranks ==
    ASSUME NEW S \in SUBSET Int, IsFiniteSet(S)
    PROVE  /\ Cardinality(S) \in Nat
           /\ \A x \in S : Rank(S, x) \in 0..(Cardinality(S) - 1)
           /\ \A x, y \in S : Rank(S, x) = Rank(S, y) => x = y
           /\ \A r \in 0..(Cardinality(S) - 1) : \E x \in S : Rank(S, x) = r
<1> DEFINE before(x) == {y \in S : y < x}
           ranks     == 0..(Cardinality(S) - 1)
           f         == [x \in S |-> Rank(S, x)]
<1>1. Cardinality(S) \in Nat
  BY FS_CardinalityType
<1>2. ASSUME NEW x \in S
      PROVE  IsFiniteSet(before(x)) /\ Rank(S, x) \in ranks
  <2>1. before(x) \in SUBSET (S \ {x})
    OBVIOUS
  <2>2. IsFiniteSet(S \ {x}) /\ Cardinality(S \ {x}) = Cardinality(S) - 1
    BY FS_RemoveElement
  <2>3. IsFiniteSet(before(x)) /\ Cardinality(before(x)) <= Cardinality(S) - 1
    BY <2>1, <2>2, FS_Subset
  <2>4. Cardinality(before(x)) \in Nat
    BY <2>3, FS_CardinalityType
  <2> QED
    BY <2>3, <2>4, <1>1 DEF Rank
<1>3. ASSUME NEW x \in S, NEW y \in S, x < y
      PROVE  Rank(S, x) # Rank(S, y)
  <2>1. before(x) \in SUBSET before(y) /\ x \in before(y) /\ x \notin before(x)
    <3>1. x \in Int /\ y \in Int /\ \A z \in S : z \in Int
      OBVIOUS
    <3>2. \A z \in S : z < x => z < y
      BY <3>1, <1>3
    <3>3. before(x) \in SUBSET before(y)
      BY <3>2
    <3>4. x \in before(y) /\ ~ (x < x)
      BY <3>1, <1>3
    <3> QED
      BY <3>3, <3>4
  <2>2. IsFiniteSet(before(y))
    BY <1>2
  <2>3. Cardinality(before(y)) # Cardinality(before(x))
    BY <2>1, <2>2, FS_Subset
  <2> QED
    BY <2>3 DEF Rank
<1>4. \A x, y \in S : Rank(S, x) = Rank(S, y) => x = y
  BY <1>3
<1>5. f \in Injection(S, ranks)
  BY <1>2, <1>4 DEF Injection, IsInjective
<1>6. IsFiniteSet(ranks) /\ Cardinality(ranks) = Cardinality(S)
  <2> DEFINE n == Cardinality(S)
  <2>1. n \in Nat
    BY <1>1
  <2> HIDE DEF n
  <2>2. n - 1 \in Int /\ 0 \in Int
    BY <2>1
  <2>3. IsFiniteSet(0..(n - 1)) /\ Cardinality(0..(n - 1)) = IF 0 > n - 1 THEN 0 ELSE (n - 1) - 0 + 1
    BY <2>2, FS_Interval
  <2>4. (IF 0 > n - 1 THEN 0 ELSE (n - 1) - 0 + 1) = n
    BY <2>1
  <2>5. IsFiniteSet(0..(n - 1)) /\ Cardinality(0..(n - 1)) = n
    BY <2>3, <2>4
  <2> QED
    BY <2>5 DEF n
<1>7. f \in Surjection(S, ranks)
  BY <1>5, <1>6, FS_Injection
<1>8. \A r \in ranks : \E x \in S : Rank(S, x) = r
  BY <1>7 DEF Surjection
<1> QED
  BY <1>1, <1>2, <1>4, <1>8

\* Induction over the numbers, for a set of them.
LEMMA Induction ==
    ASSUME NEW S \in SUBSET Nat, 0 \in S, \A m \in S : m + 1 \in S
    PROVE  \A m \in Nat : m \in S
<1> SUFFICES ASSUME NEW m \in Nat, m \notin S PROVE FALSE
  OBVIOUS
<1> DEFINE gaps == (0..m) \ S
<1>1. IsFiniteSet(gaps) /\ gaps \in SUBSET Int /\ m \in gaps
  <2>1. IsFiniteSet(0..m)
    BY FS_Interval
  <2>2. gaps \in SUBSET (0..m) /\ 0..m \subseteq Int
    OBVIOUS
  <2> QED
    BY <2>1, <2>2, FS_Subset
<1>2. PICK x \in gaps : Rank(gaps, x) = 0
  <2> HIDE DEF gaps
  <2>1. /\ Cardinality(gaps) \in Nat
        /\ Rank(gaps, m) \in 0..(Cardinality(gaps) - 1)
        /\ \A r \in 0..(Cardinality(gaps) - 1) : \E x \in gaps : Rank(gaps, x) = r
    BY <1>1, Ranks
  <2> QED
    BY <2>1
<1>3. {y \in gaps : y < x} = {}
  <2> DEFINE low == {y \in gaps : y < x}
  <2>1. IsFiniteSet(low) /\ Cardinality(low) = 0
    BY <1>1, <1>2, FS_Subset DEF Rank
  <2> QED
    BY <2>1, FS_EmptySet
<1>4. x \in 0..m /\ x \notin S /\ x # 0
  OBVIOUS
<1>5. x - 1 \in 0..m /\ x - 1 < x /\ (x - 1) + 1 = x
  BY <1>4
<1>6. x - 1 \in S
  BY <1>3, <1>5
<1> QED
  BY <1>4, <1>5, <1>6

\* f is a, and then h of each number and of f before it.
Recursive(f, V, a, h, m) ==
    f \in [0..m -> V] /\ f[0] = a /\ \A i \in 1..m : f[i] = h[<<i, f[i - 1]>>]

\* Recursion over the first numbers defines a function.
LEMMA Recursion ==
    ASSUME NEW V, NEW a \in V, NEW h, h \in [Nat \X V -> V], NEW m \in Nat
    PROVE  \E f : Recursive(f, V, a, h, m)
<1> DEFINE ok(f, j) == f \in [0..j -> V] /\ f[0] = a /\ \A i \in 1..j : f[i] = h[<<i, f[i - 1]>>]
           S == {j \in Nat : \E f : ok(f, j)}
<1>1. 0 \in S
  <2> DEFINE f == [i \in 0..0 |-> a]
  <2>1. ok(f, 0)
    OBVIOUS
  <2> HIDE DEF f, ok
  <2> QED
    BY <2>1
<1>2. ASSUME NEW j \in S PROVE j + 1 \in S
  <2>1. j \in Nat
    OBVIOUS
  <2>2. PICK f : ok(f, j)
    OBVIOUS
  <2> DEFINE v == h[<<j + 1, f[j]>>]
             g == [i \in 0..(j + 1) |-> IF i = j + 1 THEN v ELSE f[i]]
  <2>3. v \in V
    <3>1. j + 1 \in Nat /\ f[j] \in V
      BY <2>1, <2>2
    <3> QED
      BY <3>1
  <2> HIDE DEF v
  <2>4. \A i \in 0..(j + 1) : i # j + 1 => i \in 0..j
    BY <2>1
  <2>5. g \in [0..(j + 1) -> V]
    BY <2>2, <2>3, <2>4
  <2>6. g[0] = a
    BY <2>1, <2>2
  <2>7. ASSUME NEW i \in 1..(j + 1) PROVE g[i] = h[<<i, g[i - 1]>>]
    <3>1. i - 1 \in 0..(j + 1) /\ i - 1 # j + 1 /\ i \in 0..(j + 1)
      BY <2>1
    <3>2. g[i - 1] = f[i - 1]
      BY <3>1
    <3>3. CASE i = j + 1
      <4>1. g[i] = v /\ i - 1 = j
        BY <2>1, <3>1, <3>3
      <4> QED
        BY <3>2, <3>3, <4>1 DEF v
    <3>4. CASE i # j + 1
      <4>1. i \in 1..j
        BY <2>1, <3>4
      <4>2. g[i] = f[i]
        BY <3>1, <3>4
      <4> HIDE DEF g
      <4> QED
        BY <2>2, <3>2, <4>1, <4>2
    <3> QED
      BY <3>3, <3>4
  <2> HIDE DEF g
  <2>8. ok(g, j + 1)
    BY <2>5, <2>6, <2>7
  <2> HIDE DEF ok
  <2> QED
    BY <2>1, <2>8
<1>3. \A j \in Nat : j \in S
  <2>1. S \in SUBSET Nat
    OBVIOUS
  <2> HIDE DEF S
  <2> QED
    BY <1>1, <1>2, <2>1, Induction
<1>4. PICK f : ok(f, m)
  BY <1>3
<1>5. Recursive(f, V, a, h, m)
  BY <1>4 DEF Recursive
<1> HIDE DEF ok
<1> QED
  BY <1>5

\* The powers of two are the sizes of the powersets.
LEMMA PowerOfTwo ==
    ASSUME NEW m \in Nat
    PROVE  2^m \in Nat \ {0} /\ 2^(m + 1) = 2 * 2^m
<1> DEFINE S == 1..m
           T == 1..(m + 1)
           N == {X \union {m + 1} : X \in SUBSET S}
<1>1. /\ IsFiniteSet(S) /\ Cardinality(S) = m
      /\ IsFiniteSet(T) /\ Cardinality(T) = m + 1
  BY FS_Interval
<1>2. /\ IsFiniteSet(SUBSET S) /\ Cardinality(SUBSET S) = 2^m
      /\ IsFiniteSet(SUBSET T) /\ Cardinality(SUBSET T) = 2^(m + 1)
  BY <1>1, FS_SUBSET
<1>3. 2^m \in Nat /\ 2^(m + 1) \in Nat
  BY <1>2, FS_CardinalityType
<1>4. 2^m # 0
  <2>1. SUBSET S # {}
    OBVIOUS
  <2> QED
    BY <2>1, <1>2, FS_EmptySet
<1>5. m + 1 \notin S /\ T = S \union {m + 1}
  OBVIOUS
<1>6. IsFiniteSet(N) /\ Cardinality(N) = 2^m
  <2> DEFINE f == [X \in SUBSET S |-> X \union {m + 1}]
  <2>1. f \in Bijection(SUBSET S, N)
    <3>1. f \in [SUBSET S -> N]
      OBVIOUS
    <3>2. \A X, Y \in SUBSET S : X \union {m + 1} = Y \union {m + 1} => X = Y
      BY <1>5
    <3>3. \A X, Y \in SUBSET S : f[X] = f[Y] => X = Y
      BY <3>2
    <3>4. \A Z \in N : \E X \in SUBSET S : f[X] = Z
      OBVIOUS
    <3> HIDE DEF f, N, S
    <3> QED
      BY <3>1, <3>3, <3>4 DEF Bijection, Injection, Surjection, IsInjective
  <2> HIDE DEF N, S, f
  <2>2. ExistsBijection(SUBSET S, N)
    BY <2>1 DEF ExistsBijection
  <2> QED
    BY <1>2, <2>2, FS_Bijection
<1>7. SUBSET T = (SUBSET S) \union N /\ (SUBSET S) \intersect N = {}
  <2>1. ASSUME NEW X \in SUBSET T PROVE X \in SUBSET S \/ X \in N
    <3>1. CASE m + 1 \in X
      <4>1. X \ {m + 1} \in SUBSET S /\ X = (X \ {m + 1}) \union {m + 1}
        BY <1>5, <3>1
      <4> QED
        BY <4>1
    <3>2. CASE m + 1 \notin X
      BY <1>5, <3>2
    <3> QED
      BY <3>1, <3>2
  <2>2. \A X \in SUBSET S : X \in SUBSET T /\ X \notin N
    BY <1>5
  <2>3. \A X \in N : X \in SUBSET T
    BY <1>5
  <2> HIDE DEF S, T, N
  <2> QED
    BY <2>1, <2>2, <2>3
<1>8. Cardinality(SUBSET T) = Cardinality(SUBSET S) + Cardinality(N)
  <2> DEFINE P == SUBSET S
  <2>1. IsFiniteSet(P) /\ IsFiniteSet(N) /\ P \intersect N = {} /\ SUBSET T = P \union N
    BY <1>2, <1>6, <1>7
  <2> HIDE DEF S, T, N, P
  <2>2. Cardinality(P \union N) = Cardinality(P) + Cardinality(N) - Cardinality(P \intersect N)
    BY <2>1, FS_Union
  <2>3. Cardinality(P) \in Nat /\ Cardinality(N) \in Nat /\ Cardinality(P \intersect N) = 0
    BY <2>1, FS_CardinalityType, FS_EmptySet
  <2>4. Cardinality(P \union N) = Cardinality(P) + Cardinality(N)
    BY <2>2, <2>3
  <2>5. Cardinality(SUBSET T) = Cardinality(P \union N)
    BY <2>1, Zenon
  <2> QED
    BY <2>4, <2>5 DEF P
<1> HIDE DEF S, T, N
<1> QED
  BY <1>2, <1>3, <1>4, <1>6, <1>8

\* Induction over the sequences, for a set of their lengths.
LEMMA LastByte ==
    ASSUME NEW S, NEW w \in Seq(S), NEW m \in Nat, Len(w) = m + 1
    PROVE  /\ SubSeq(w, 1, m) \in Seq(S) /\ Len(SubSeq(w, 1, m)) = m
           /\ w[m + 1] \in S
           /\ w = Append(SubSeq(w, 1, m), w[m + 1])
<1> DEFINE v == SubSeq(w, 1, m)
<1>1. v \in Seq(S) /\ Len(v) = m /\ \A i \in 1..m : v[i] = w[i]
  OBVIOUS
<1>2. w[m + 1] \in S
  OBVIOUS
<1> HIDE DEF v
<1> DEFINE u == Append(v, w[m + 1])
<1>3. u \in Seq(S) /\ Len(u) = m + 1 /\ \A i \in 1..(m + 1) : u[i] = w[i]
  BY <1>1, <1>2
<1> HIDE DEF u
<1>4. w = u
  BY <1>3, SeqEqual
<1> QED
  BY <1>1, <1>2, <1>4 DEF u, v

-----------------------------------------------------------------------------
(* Windows                                                                 *)

\* A sequence is its first byte and the others.
LEMMA FirstAndRest ==
    ASSUME NEW S, NEW w \in Seq(S), w # <<>>
    PROVE  /\ w[1] \in S /\ Tail(w) \in Seq(S) /\ Len(Tail(w)) \in Nat
           /\ Len(w) = Len(Tail(w)) + 1
           /\ w = <<w[1]>> \o Tail(w)
<1> DEFINE x == w[1]
           t == Tail(w)
<1>1. x \in S /\ t \in Seq(S) /\ Len(t) \in Nat /\ Len(w) = Len(t) + 1
  OBVIOUS
<1>2. w = <<x>> \o t
  <2>1. \A i \in 1..Len(t) : t[i] = w[i + 1]
    OBVIOUS
  <2> HIDE DEF x, t
  <2>2. <<x>> \in Seq(S) /\ Len(<<x>>) = 1 /\ <<x>>[1] = x
    BY <1>1
  <2> DEFINE o == <<x>>
             v == o \o t
  <2> HIDE DEF o
  <2>3. o \in Seq(S) /\ Len(o) = 1 /\ o[1] = x
    BY <2>2 DEF o
  <2>4. /\ v \in Seq(S) /\ Len(v) = Len(o) + Len(t)
        /\ \A i \in 1..(Len(o) + Len(t)) : v[i] = IF i <= Len(o) THEN o[i] ELSE t[i - Len(o)]
    BY <1>1, <2>3, ConcatProperties
  <2> HIDE DEF v
  <2>5. ASSUME NEW i \in 1..Len(w) PROVE w[i] = v[i]
    <3>1. CASE i = 1
      <4>1. v[1] = o[1]
        BY <1>1, <2>3, <2>4
      <4> QED
        BY <3>1, <4>1, <2>3 DEF x
    <3>2. CASE i # 1
      <4>1. i - 1 \in 1..Len(t) /\ v[i] = t[i - 1] /\ (i - 1) + 1 = i
        BY <3>2, <1>1, <2>3, <2>4
      <4> QED
        BY <4>1, <2>1
    <3> QED
      BY <3>1, <3>2
  <2>6. Len(v) = Len(w)
    BY <1>1, <2>3, <2>4
  <2>7. w = v
    BY <2>4, <2>5, <2>6, SeqEqual
  <2> QED
    BY <2>7 DEF v, o
<1> QED
  BY <1>1, <1>2

\* The window of w bytes at position i.
WindowAt(data, w, i) == SubSeq(data, i + 1, i + w)

\* The next window is this one moved by one.
LEMMA NextWindow ==
    ASSUME NEW S, NEW data \in Seq(S), NEW w \in Nat \ {0}, NEW i \in Nat, i + 1 + w <= Len(data)
    PROVE  /\ WindowAt(data, w, i) \in Seq(S) /\ WindowAt(data, w, i) # <<>>
           /\ Len(WindowAt(data, w, i)) = w /\ WindowAt(data, w, i)[1] = data[i + 1]
           /\ data[(i + 1) + w] \in S
           /\ WindowAt(data, w, i + 1)
                = Append(Tail(WindowAt(data, w, i)), data[(i + 1) + w])
<1> DEFINE v == WindowAt(data, w, i)
           u == WindowAt(data, w, i + 1)
           c == data[(i + 1) + w]
<1>1. v \in Seq(S) /\ Len(v) = w /\ \A j \in 1..w : v[j] = data[i + j]
  BY DEF WindowAt
<1>2. u \in Seq(S) /\ Len(u) = w /\ \A j \in 1..w : u[j] = data[(i + 1) + j]
  BY DEF WindowAt
<1>3. c \in S
  <2>1. (i + 1) + w \in 1..Len(data)
    OBVIOUS
  <2> QED
    BY <2>1
<1> HIDE DEF v, u, c
<1>4. v # <<>> /\ 1 \in 1..w
  BY <1>1
<1> DEFINE t == Tail(v)
<1>5. t \in Seq(S) /\ Len(t) = w - 1 /\ \A j \in 1..(w - 1) : t[j] = v[j + 1]
  BY <1>1, <1>4
<1> HIDE DEF t
<1> DEFINE n1 == Append(t, c)
<1>6. /\ n1 \in Seq(S) /\ Len(n1) = w
      /\ \A j \in 1..w : n1[j] = IF j < w THEN v[j + 1] ELSE c
  BY <1>3, <1>5
<1> HIDE DEF n1
<1>7. ASSUME NEW j \in 1..w PROVE u[j] = n1[j]
  <2>1. u[j] = data[(i + 1) + j]
    BY <1>2
  <2>2. CASE j = w
    BY <2>1, <2>2, <1>6 DEF c
  <2>3. CASE j # w
    <3>1. j + 1 \in 1..w /\ j < w /\ i + (j + 1) = (i + 1) + j
      BY <2>3
    <3>2. v[j + 1] = data[i + (j + 1)]
      BY <3>1, <1>1
    <3> QED
      BY <2>1, <3>1, <3>2, <1>6
  <2> QED
    BY <2>2, <2>3
<1>8. u = n1
  BY <1>2, <1>6, <1>7, SeqEqual
<1> QED
  BY <1>1, <1>3, <1>4, <1>8 DEF v, u, c, t, n1
=============================================================================
