-------------------------- MODULE RabinKarpProofs --------------------------
(***************************************************************************)
(* The rabinkarp64 digest and the arithmetic under it, for every word and  *)
(* byte size, every modulus of degree ByteWidth or more, and every window. *)
(*                                                                         *)
(*   - The checksum after any Write, Roll and Reset, and each one that     *)
(*     BatchRoll and BatchBoundaries find, is that of the window, which    *)
(*     is the remainder of the window's polynomial modulo pol.             *)
(*   - Mul panics exactly when the product does not fit.                   *)
(*   - DivMod, GCD, MulMod, qp and Irreducible are what they are called;   *)
(*     DerivePolynomial gives any irreducible polynomial, and no other.    *)
(*                                                                         *)
(* The polynomials that the proofs reason about (Poly) have any degree;    *)
(* Times is their product, of which mul keeps the low bits.  Deg, DivMod,  *)
(* GCD and the others are defined by CHOOSE or as recursive functions:     *)
(* each is shown to exist, by Induction on a degree or a count, and so to  *)
(* satisfy its equation; what it computes follows, by Induction again.     *)
(* There is one remainder (OneRemainder), so that whatever is congruent    *)
(* to the window and of a lower degree than pol is its checksum.           *)
(*                                                                         *)
(* What Ben-Or's test says of irreducibility rests on one fact: modulo a   *)
(* prime polynomial, one of degree m has at most m roots (RootBound).      *)
(* Squaring has x^(2^i) at its i-th place, a root of the prime as x is     *)
(* (PowerIsRoot), so that it is back at x within the degree (ReturnsSoon); *)
(* and where it is back, every residue y is a root of y^(2^i) - y, which   *)
(* therefore is not before the degree (ReturnsLate).                       *)
(***************************************************************************)
EXTENDS MCRabinKarp, WindowLemmas

-----------------------------------------------------------------------------
(* Polynomials of any degree.                                              *)

Poly == {z \in SUBSET Nat : IsFiniteSet(z)}

Odd(S) == Cardinality(S) % 2 = 1

\* z times a power of x.
Shift(z, e) == {i + e : i \in z}

\* The product of two polynomials of any degree.
Times(q, p) == {j \in Nat : Odd({i \in q : j - i \in p})}

\* Add is the sum of vectors of bits.
LEMMA AddIsXor ==
    ASSUME NEW x, NEW y
    PROVE  \A i : i \in Add(x, y) <=> ~ (i \in x <=> i \in y)
  BY DEF Add

LEMMA AddRules ==
    ASSUME NEW x, NEW y, NEW z
    PROVE  /\ Add(x, y) = Add(y, x)
           /\ Add(x, Add(y, z)) = Add(Add(x, y), z)
           /\ Add(x, x) = {} /\ Add(x, {}) = x /\ Add({}, x) = x
           /\ Add(Add(x, y), Add(x, z)) = Add(y, z)
           /\ Add(x, Add(x, y)) = y
           /\ Add(x, y) \subseteq x \union y
           /\ x \intersect y = {} => x \union y = Add(x, y)
<1>1. Add(x, y) = Add(y, x) /\ Add(x, x) = {} /\ Add(x, {}) = x /\ Add({}, x) = x
  BY DEF Add
<1>3. Add(x, Add(y, z)) = Add(Add(x, y), z)
  BY DEF Add
<1>4. Add(Add(x, y), Add(x, z)) = Add(y, z)
  BY DEF Add
<1>5. Add(x, Add(x, y)) = y /\ Add(x, y) \subseteq x \union y
  BY DEF Add
<1>6. x \intersect y = {} => x \union y = Add(x, y)
  BY DEF Add
<1> QED
  BY <1>1, <1>3, <1>4, <1>5, <1>6

LEMMA NoDifference == ASSUME NEW x, NEW y, Add(x, y) = {} PROVE x = y
  BY AddIsXor

LEMMA SumOfPolys ==
    ASSUME NEW x \in Poly, NEW y \in Poly
    PROVE  Add(x, y) \in Poly
<1>1. IsFiniteSet(x \union y) /\ x \union y \in SUBSET Nat
  BY FS_Union DEF Poly
<1>2. Add(x, y) \in SUBSET (x \union y)
  BY DEF Add
<1>3. IsFiniteSet(Add(x, y))
  BY <1>1, <1>2, FS_Subset
<1> QED
  BY <1>1, <1>2, <1>3 DEF Poly

\* A part of a polynomial is a polynomial, and those of a bounded degree are polynomials.
LEMMA PartOfPoly ==
    ASSUME NEW x \in Poly, NEW y \in SUBSET x
    PROVE  y \in Poly /\ IsFiniteSet(y)
<1>1. IsFiniteSet(x) /\ x \in SUBSET Nat
  BY DEF Poly
<1>2. IsFiniteSet(y)
  BY <1>1, FS_Subset
<1> QED
  BY <1>1, <1>2 DEF Poly

LEMMA BoundedPoly ==
    ASSUME NEW m \in Int, NEW x \in SUBSET (0..m)
    PROVE  x \in Poly /\ IsFiniteSet(x)
<1>1. IsFiniteSet(0..m)
  BY FS_Interval
<1>2. IsFiniteSet(x)
  BY <1>1, FS_Subset
<1>3. x \in SUBSET Nat
  OBVIOUS
<1> QED
  BY <1>2, <1>3 DEF Poly

\* How many elements a sum has, modulo 2.
LEMMA OddSum ==
    ASSUME NEW A, NEW B, IsFiniteSet(A), IsFiniteSet(B)
    PROVE  Odd(Add(A, B)) <=> ~ (Odd(A) <=> Odd(B))
<1> DEFINE C == A \intersect B
           D == Add(A, B)
           U == A \union B
<1>1. IsFiniteSet(C) /\ IsFiniteSet(U) /\ IsFiniteSet(D)
  <2>1. IsFiniteSet(U)
    BY FS_Union
  <2>2. C \in SUBSET U /\ D \in SUBSET U
    BY DEF Add
  <2> HIDE DEF C, D, U
  <2> QED
    BY <2>1, <2>2, FS_Subset
<1>2. Cardinality(U) = Cardinality(A) + Cardinality(B) - Cardinality(C)
  BY FS_Union
<1>3. Cardinality(U) = Cardinality(D) + Cardinality(C)
  <2>1. U = D \union C /\ D \intersect C = {}
    BY DEF Add
  <2> HIDE DEF C, D, U
  <2>2. Cardinality(D \union C) = Cardinality(D) + Cardinality(C) - Cardinality(D \intersect C)
    BY <1>1, FS_Union
  <2>3. Cardinality(D \intersect C) = 0
    BY <2>1, FS_EmptySet
  <2>4. Cardinality(D) \in Nat /\ Cardinality(C) \in Nat
    BY <1>1, FS_CardinalityType
  <2> QED
    BY <2>1, <2>2, <2>3, <2>4
<1>4. /\ Cardinality(A) \in Nat /\ Cardinality(B) \in Nat
      /\ Cardinality(C) \in Nat /\ Cardinality(D) \in Nat
  BY <1>1, FS_CardinalityType
<1> DEFINE a == Cardinality(A)
           b == Cardinality(B)
           c == Cardinality(C)
           d == Cardinality(D)
<1>5. d = a + b - 2 * c /\ a \in Nat /\ b \in Nat /\ c \in Nat /\ d \in Nat
  <2>1. d + c = a + b - c /\ a \in Nat /\ b \in Nat /\ c \in Nat /\ d \in Nat
    BY <1>2, <1>3, <1>4
  <2> HIDE DEF a, b, c, d
  <2> QED
    BY <2>1
<1>6. (d % 2 = 1) <=> ~ ((a % 2 = 1) <=> (b % 2 = 1))
  <2> HIDE DEF a, b, c, d
  <2> QED
    BY <1>5
<1> QED
  BY <1>6 DEF Odd

LEMMA OddNone == ~ Odd({})
<1>1. Cardinality({}) = 0
  BY FS_EmptySet
<1> QED
  BY <1>1 DEF Odd

LEMMA OddOne == ASSUME NEW e PROVE Odd({e})
<1>1. Cardinality({e}) = 1
  BY FS_Singleton
<1> QED
  BY <1>1 DEF Odd

LEMMA SameOdd ==
    ASSUME NEW A, NEW B, IsFiniteSet(A), NEW f \in Bijection(A, B)
    PROVE  Odd(A) <=> Odd(B)
<1>1. Cardinality(A) = Cardinality(B)
  BY FS_Bijection DEF ExistsBijection
<1> QED
  BY <1>1 DEF Odd

-----------------------------------------------------------------------------
(* Products.                                                               *)

\* The product distributes over the sum.
LEMMA TimesSum ==
    ASSUME NEW q \in Poly, NEW r \in Poly, NEW p
    PROVE  Times(Add(q, r), p) = Add(Times(q, p), Times(r, p))
<1>1. ASSUME NEW j \in Nat
      PROVE  j \in Times(Add(q, r), p) <=> j \in Add(Times(q, p), Times(r, p))
  <2> DEFINE A == {i \in q : j - i \in p}
             B == {i \in r : j - i \in p}
             C == {i \in Add(q, r) : j - i \in p}
  <2>1. IsFiniteSet(A) /\ IsFiniteSet(B)
    <3>1. A \in SUBSET q /\ B \in SUBSET r
      OBVIOUS
    <3> HIDE DEF A, B
    <3> QED
      BY <3>1, PartOfPoly
  <2>2. C = Add(A, B)
    BY DEF Add
  <2>3. Odd(C) <=> ~ (Odd(A) <=> Odd(B))
    <3> HIDE DEF A, B, C
    <3> QED
      BY <2>1, <2>2, OddSum
  <2>4. /\ j \in Times(Add(q, r), p) <=> Odd(C)
        /\ j \in Times(q, p) <=> Odd(A)
        /\ j \in Times(r, p) <=> Odd(B)
    BY DEF Times
  <2> HIDE DEF A, B, C
  <2> QED
    BY <2>3, <2>4, AddIsXor
<1>2. Times(Add(q, r), p) \in SUBSET Nat /\ Add(Times(q, p), Times(r, p)) \in SUBSET Nat
  BY DEF Times, Add
<1> DEFINE S == Times(Add(q, r), p)
           T == Add(Times(q, p), Times(r, p))
<1>3. S \in SUBSET Nat /\ T \in SUBSET Nat /\ \A j \in Nat : j \in S <=> j \in T
  BY <1>1, <1>2
<1> HIDE DEF S, T
<1>4. S = T
  BY <1>3
<1> QED
  BY <1>4 DEF S, T

LEMMA TimesNone == ASSUME NEW p PROVE Times({}, p) = {}
<1>1. ASSUME NEW j \in Nat PROVE {i \in {} : j - i \in p} = {}
  OBVIOUS
<1> QED
  BY <1>1, OddNone DEF Times

\* The product by a power of x.
LEMMA TimesPower ==
    ASSUME NEW e \in Nat, NEW p \in SUBSET Nat
    PROVE  Times({e}, p) = Shift(p, e)
<1>1. ASSUME NEW j \in Nat PROVE j \in Times({e}, p) <=> j \in Shift(p, e)
  <2> DEFINE A == {i \in {e} : j - i \in p}
  <2>1. j \in Times({e}, p) <=> Odd(A)
    BY DEF Times
  <2>2. CASE j - e \in p
    <3>1. A = {e}
      BY <2>2
    <3>2. j = (j - e) + e
      OBVIOUS
    <3>3. j \in Shift(p, e)
      BY <2>2, <3>2 DEF Shift
    <3> QED
      BY <2>1, <3>1, <3>3, OddOne
  <2>3. CASE j - e \notin p
    <3>1. A = {}
      BY <2>3
    <3>2. ASSUME NEW i \in p, j = i + e PROVE FALSE
      <4>1. i \in Nat /\ j - e = i
        BY <3>2
      <4> QED
        BY <4>1, <2>3
    <3>3. j \notin Shift(p, e)
      BY <3>2 DEF Shift
    <3> QED
      BY <2>1, <3>1, <3>3, OddNone
  <2> QED
    BY <2>2, <2>3
<1>2. Times({e}, p) \in SUBSET Nat /\ Shift(p, e) \in SUBSET Nat
  BY DEF Times, Shift
<1> QED
  BY <1>1, <1>2

\* The product of a multiple by a power of x.
LEMMA TimesShift ==
    ASSUME NEW q \in Poly, NEW p \in Poly, NEW e \in Nat
    PROVE  Times(Shift(q, e), p) = Shift(Times(q, p), e)
<1>0. q \in SUBSET Nat /\ p \in SUBSET Nat
  BY DEF Poly
<1>1. ASSUME NEW j \in Nat
      PROVE  j \in Times(Shift(q, e), p) <=> j \in Shift(Times(q, p), e)
  <2> DEFINE A == {i \in Shift(q, e) : j - i \in p}
             B == {i \in q : (j - e) - i \in p}
             f == [i \in B |-> i + e]
  <2>1. j \in Times(Shift(q, e), p) <=> Odd(A)
    BY DEF Times
  <2>2. j \in Shift(Times(q, p), e) <=> j - e \in Nat /\ Odd(B)
    <3>1. ASSUME NEW i \in Times(q, p), j = i + e PROVE j - e = i
      <4>1. i \in Nat
        BY DEF Times
      <4> QED
        BY <3>1, <4>1
    <3>2. j = (j - e) + e
      OBVIOUS
    <3>3. j \in Shift(Times(q, p), e) <=> j - e \in Times(q, p)
      BY <3>1, <3>2 DEF Shift
    <3> QED
      BY <3>3 DEF Times
  <2>3. IsFiniteSet(B)
    <3>1. B \in SUBSET q
      OBVIOUS
    <3> HIDE DEF B
    <3> QED
      BY <3>1, PartOfPoly
  <2>4. f \in Bijection(B, A)
    <3>1. ASSUME NEW i \in B PROVE i + e \in A /\ i \in Nat
      <4>1. i \in q /\ i \in Nat /\ j - (i + e) = (j - e) - i
        BY <1>0
      <4> QED
        BY <4>1 DEF Shift
    <3>2. ASSUME NEW a \in A PROVE \E i \in B : i + e = a
      <4>1. PICK i \in q : a = i + e
        BY DEF Shift
      <4>2. j - (i + e) = (j - e) - i
        BY <1>0
      <4> QED
        BY <4>1, <4>2
    <3> HIDE DEF A, B
    <3>3. f \in [B -> A]
      BY <3>1
    <3>4. \A i, k \in B : f[i] = f[k] => i = k
      BY <3>1
    <3>5. \A a \in A : \E i \in B : f[i] = a
      BY <3>2
    <3> HIDE DEF f
    <3> QED
      BY <3>3, <3>4, <3>5 DEF Bijection, Injection, Surjection, IsInjective
  <2>5. Odd(B) <=> Odd(A)
    <3> HIDE DEF A, B, f
    <3> QED
      BY <2>3, <2>4, SameOdd
  <2>6. CASE j - e \in Nat
    BY <2>1, <2>2, <2>5, <2>6
  <2>7. CASE j - e \notin Nat
    <3>1. ASSUME NEW i \in q PROVE (j - e) - i \notin p
      BY <1>0, <2>7
    <3>2. B = {}
      BY <3>1
    <3> QED
      BY <3>2, <2>1, <2>2, <2>5, <2>7, OddNone
  <2> QED
    BY <2>6, <2>7
<1>2. Times(Shift(q, e), p) \in SUBSET Nat /\ Shift(Times(q, p), e) \in SUBSET Nat
  <2>1. \A z : Times(z, p) \in SUBSET Nat
    BY DEF Times
  <2>2. ASSUME NEW z \in SUBSET Nat PROVE Shift(z, e) \in SUBSET Nat
    BY DEF Shift
  <2> QED
    BY <2>1, <2>2
<1> QED
  BY <1>1, <1>2

\* The order of the factors is of no importance.
LEMMA TimesCommutes ==
    ASSUME NEW q \in Poly, NEW p \in Poly
    PROVE  Times(q, p) = Times(p, q)
<1>0. q \in SUBSET Nat /\ p \in SUBSET Nat
  BY DEF Poly
<1>1. ASSUME NEW j \in Nat PROVE j \in Times(q, p) <=> j \in Times(p, q)
  <2> DEFINE A == {i \in q : j - i \in p}
             B == {i \in p : j - i \in q}
             f == [i \in A |-> j - i]
  <2>1. (j \in Times(q, p) <=> Odd(A)) /\ (j \in Times(p, q) <=> Odd(B))
    BY DEF Times
  <2>2. IsFiniteSet(A)
    <3>1. A \in SUBSET q
      OBVIOUS
    <3> HIDE DEF A
    <3> QED
      BY <3>1, PartOfPoly
  <2>3. f \in Bijection(A, B)
    <3>1. ASSUME NEW i \in A PROVE j - i \in B /\ i \in Nat
      <4>1. i \in q /\ i \in Nat /\ j - (j - i) = i
        BY <1>0
      <4> QED
        BY <4>1
    <3>2. ASSUME NEW b \in B PROVE \E i \in A : j - i = b
      <4>1. b \in p /\ b \in Nat /\ j - (j - b) = b
        BY <1>0
      <4> QED
        BY <4>1
    <3> HIDE DEF A, B
    <3>3. f \in [A -> B]
      BY <3>1
    <3>4. \A i, k \in A : f[i] = f[k] => i = k
      BY <3>1
    <3>5. \A b \in B : \E i \in A : f[i] = b
      BY <3>2
    <3> HIDE DEF f
    <3> QED
      BY <3>3, <3>4, <3>5 DEF Bijection, Injection, Surjection, IsInjective
  <2> HIDE DEF A, B, f
  <2> QED
    BY <2>1, <2>2, <2>3, SameOdd
<1>2. Times(q, p) \in SUBSET Nat /\ Times(p, q) \in SUBSET Nat
  BY DEF Times
<1> QED
  BY <1>1, <1>2

-----------------------------------------------------------------------------
(* Degrees.                                                                *)

\* Deg is the highest power.
LEMMA Highest ==
    ASSUME NEW z \in Poly, z # {}
    PROVE  Deg(z) \in z /\ Deg(z) \in Nat /\ \A j \in z : j <= Deg(z)
<1>0. z \in SUBSET Nat /\ z \in SUBSET Int /\ IsFiniteSet(z)
  BY DEF Poly
<1> DEFINE m == Cardinality(z)
<1>1. /\ m \in Nat
      /\ \A x \in z : Rank(z, x) \in 0..(m - 1)
      /\ \A r \in 0..(m - 1) : \E x \in z : Rank(z, x) = r
  BY <1>0, Ranks
<1>2. m # 0
  BY <1>0, FS_EmptySet
<1>3. PICK e \in z : Rank(z, e) = m - 1
  <2> HIDE DEF m
  <2>1. m - 1 \in 0..(m - 1)
    BY <1>1, <1>2
  <2> QED
    BY <1>1, <2>1
<1>4. \A j \in z : j <= e
  <2> DEFINE B == {y \in z : y < e}
             C == z \ {e}
  <2>1. IsFiniteSet(C) /\ Cardinality(C) = m - 1
    BY <1>0, FS_RemoveElement
  <2>2. B \in SUBSET C
    BY <1>0
  <2>3. Cardinality(B) = m - 1
    BY <1>3 DEF Rank
  <2>4. B = C
    <3> HIDE DEF B, C, m
    <3> QED
      BY <2>1, <2>2, <2>3, FS_Subset
  <2> QED
    BY <2>4, <1>0
<1>5. Deg(z) \in z /\ \A j \in z : j <= Deg(z)
  BY <1>4 DEF Deg, Zero
<1> QED
  BY <1>5, <1>0

LEMMA DegIs ==
    ASSUME NEW z \in Poly, NEW e \in z, \A j \in z : j <= e
    PROVE  Deg(z) = e
<1>1. Deg(z) \in z /\ \A j \in z : j <= Deg(z)
  BY Highest
<1>2. e \in Nat /\ Deg(z) \in Nat
  BY <1>1 DEF Poly
<1> QED
  BY <1>1, <1>2

\* The degree of a product is the sum of the degrees.
LEMMA TimesTop ==
    ASSUME NEW q \in Poly, NEW p \in Poly, q # {}, p # {}
    PROVE  /\ Deg(q) + Deg(p) \in Times(q, p)
           /\ \A j \in Times(q, p) : j <= Deg(q) + Deg(p)
<1>0. q \in SUBSET Nat /\ p \in SUBSET Nat
  BY DEF Poly
<1> DEFINE e == Deg(q)
           k == Deg(p)
<1>1. /\ e \in q /\ e \in Nat /\ \A j \in q : j <= e
      /\ k \in p /\ k \in Nat /\ \A j \in p : j <= k
  BY Highest
<1> HIDE DEF e, k
<1>2. {i \in q : (e + k) - i \in p} = {e}
  <2>1. ASSUME NEW i \in q, (e + k) - i \in p PROVE i = e
    <3>1. i \in Nat /\ i <= e /\ (e + k) - i <= k
      BY <1>0, <1>1, <2>1
    <3> QED
      BY <3>1, <1>1
  <2>2. (e + k) - e = k
    BY <1>1
  <2> QED
    BY <2>1, <2>2, <1>1
<1>3. e + k \in Times(q, p)
  <2>1. Odd({i \in q : (e + k) - i \in p})
    BY <1>2, OddOne
  <2>2. e + k \in Nat
    BY <1>1
  <2> QED
    BY <2>1, <2>2 DEF Times
<1>4. ASSUME NEW j \in Times(q, p) PROVE j <= e + k
  <2> SUFFICES ASSUME ~ (j <= e + k) PROVE FALSE
    OBVIOUS
  <2>1. j \in Nat /\ Odd({i \in q : j - i \in p})
    BY DEF Times
  <2>2. ASSUME NEW i \in q, j - i \in p PROVE FALSE
    <3>1. i \in Nat /\ i <= e /\ j - i <= k
      BY <1>0, <1>1, <2>2
    <3> QED
      BY <3>1, <2>1, <1>1
  <2>3. {i \in q : j - i \in p} = {}
    BY <2>2
  <2> QED
    BY <2>1, <2>3, OddNone
<1> QED
  BY <1>3, <1>4 DEF e, k

LEMMA TimesIsPoly ==
    ASSUME NEW q \in Poly, NEW p \in Poly
    PROVE  Times(q, p) \in Poly
<1>1. CASE q = {}
  <2>1. IsFiniteSet({})
    BY FS_EmptySet
  <2>2. {} \in Poly
    BY <2>1 DEF Poly
  <2> QED
    BY <1>1, <2>2, TimesNone
<1>2. CASE p = {}
  <2>1. IsFiniteSet({})
    BY FS_EmptySet
  <2>2. {} \in Poly
    BY <2>1 DEF Poly
  <2>3. Times(p, q) = {}
    BY <1>2, TimesNone
  <2> QED
    BY <2>2, <2>3, TimesCommutes
<1>3. CASE q # {} /\ p # {}
  <2> DEFINE m == Deg(q) + Deg(p)
  <2>1. m \in Nat
    BY <1>3, Highest
  <2>2. \A j \in Times(q, p) : j \in Nat /\ j <= m
    BY <1>3, TimesTop DEF Times
  <2> HIDE DEF m
  <2>3. Times(q, p) \in SUBSET (0..m)
    BY <2>1, <2>2
  <2>4. m \in Int
    BY <2>1
  <2> QED
    BY <2>3, <2>4, BoundedPoly
<1> QED
  BY <1>1, <1>2, <1>3

\* No multiple of p has a lower degree than p, but for zero.
LEMMA SmallMultiple ==
    ASSUME NEW q \in Poly, NEW p \in Poly, p # {}, \A j \in Times(q, p) : j < Deg(p)
    PROVE  q = {}
<1> SUFFICES ASSUME q # {} PROVE FALSE
  OBVIOUS
<1>1. Deg(q) + Deg(p) \in Times(q, p)
  BY TimesTop
<1>2. Deg(q) \in Nat /\ Deg(p) \in Nat
  BY Highest
<1> DEFINE e == Deg(q) + Deg(p)
<1>3. e < Deg(p)
  BY <1>1
<1> QED
  BY <1>2, <1>3

-----------------------------------------------------------------------------
(* Division, in a word.                                                    *)

LEMMA PolIsPoly ==
    /\ Width \in Nat \ {0} /\ Pol \subseteq Poly
    /\ \A z \in Pol : z \in SUBSET Nat /\ \A i \in z : i \in 0..(Width - 1)
    /\ \A x, y \in Pol : Add(x, y) \in Pol
<1>1. Width \in Nat \ {0} /\ Width - 1 \in Int
  BY WidthAssumption
<1>2. ASSUME NEW z \in Pol
      PROVE  /\ z \in SUBSET Nat /\ z \in SUBSET (0..(Width - 1))
             /\ \A i \in z : i \in 0..(Width - 1)
  <2>1. z \in SUBSET (0..(Width - 1))
    BY DEF Pol
  <2> QED
    BY <2>1
<1>3. \A z \in Pol : z \in Poly
  BY <1>1, <1>2, BoundedPoly
<1>4. \A x, y \in Pol : Add(x, y) \in Pol
  BY DEF Add, Pol
<1> QED
  BY <1>1, <1>2, <1>3, <1>4

\* What fits is not truncated.
LEMMA ShlFits ==
    ASSUME NEW z \in Pol, NEW e \in Nat, \A i \in z : i + e < Width
    PROVE  Shl(z, e) = Shift(z, e) /\ Shl(z, e) \in Pol
<1>1. Width \in Nat /\ \A i \in z : i \in Nat
  BY PolIsPoly
<1>2. \A i \in z : i + e \in 0..(Width - 1)
  BY <1>1
<1> QED
  BY <1>2 DEF Shl, Shift, Pol

\* One step of the division: the highest bit goes.
Rest(z, d) == Add(z, Shl(d, Deg(z) - Deg(d)))

LEMMA RestIsLower ==
    ASSUME NEW z \in Pol, NEW d \in Pol, d # {}, Deg(d) <= Deg(z)
    PROVE  /\ Deg(z) \in 0..(Width - 1) /\ Deg(z) - Deg(d) \in 0..(Width - 1)
           /\ Rest(z, d) \in Pol /\ \A i \in Rest(z, d) : i \in Nat /\ i < Deg(z)
           /\ Rest(z, d) = Add(z, Shift(d, Deg(z) - Deg(d)))
<1>1. Width \in Nat \ {0} /\ z \in Poly /\ d \in Poly /\ z \in SUBSET Nat /\ d \in SUBSET Nat
  BY PolIsPoly
<1> DEFINE e == Deg(z)
           k == Deg(d)
<1>2. k \in d /\ k \in Nat /\ \A j \in d : j <= k
  BY <1>1, Highest
<1>3. z # {}
  <2>1. z = {} => Deg(z) = -1
    BY DEF Deg, Zero
  <2> QED
    BY <2>1, <1>2
<1>4. e \in z /\ e \in Nat /\ \A j \in z : j <= e
  BY <1>1, <1>3, Highest
<1>5. Width \in Nat /\ e \in 0..(Width - 1) /\ k <= e
  BY <1>4, PolIsPoly
<1> HIDE DEF e, k
<1> DEFINE s == Shl(d, e - k)
<1>6. e - k \in Nat /\ e - k \in 0..(Width - 1)
  BY <1>2, <1>5
<1>7. s = Shift(d, e - k) /\ s \in Pol
  <2>1. \A i \in d : i + (e - k) < Width
    <3>1. \A i \in d : i \in Nat /\ i <= k
      BY <1>1, <1>2
    <3> QED
      BY <3>1, <1>2, <1>5
  <2> QED
    BY <2>1, <1>6, ShlFits
<1>8. e \in s /\ \A i \in s : i \in Nat /\ i <= e
  <2>1. e = k + (e - k)
    BY <1>2, <1>4
  <2>2. e \in Shift(d, e - k)
    BY <1>2, <2>1 DEF Shift
  <2>3. \A i \in d : i + (e - k) \in Nat /\ i + (e - k) <= e
    <3>1. \A i \in d : i \in Nat /\ i <= k
      BY <1>1, <1>2
    <3> QED
      BY <3>1, <1>2, <1>5, <1>6
  <2>4. \A i \in Shift(d, e - k) : i \in Nat /\ i <= e
    BY <2>3 DEF Shift
  <2> QED
    BY <2>2, <2>4, <1>7
<1> HIDE DEF s
<1>9. Add(z, s) \in Pol
  BY <1>7, PolIsPoly
<1>10. ASSUME NEW i \in Add(z, s) PROVE i \in Nat /\ i < e
  <2>1. i \in z \/ i \in s
    BY AddIsXor
  <2>2. i # e
    BY AddIsXor, <1>4, <1>8
  <2>3. i \in Nat /\ i <= e
    BY <2>1, <1>1, <1>4, <1>8
  <2> QED
    BY <2>2, <2>3, <1>4
<1>11. Rest(z, d) = Add(z, s)
  BY DEF Rest, s, e, k
<1> QED
  BY <1>5, <1>6, <1>7, <1>9, <1>10, <1>11 DEF e, k

\* The equation of `divided'.
Divided(f, z, d) ==
    IF Deg(z) - Deg(d) < 0 THEN [q |-> Zero, r |-> z]
    ELSE [q |-> f[Rest(z, d)].q \union {Deg(z) - Deg(d)}, r |-> f[Rest(z, d)].r]

Quotients(d) == CHOOSE f : f = [z \in Pol |-> Divided(f, z, d)]

LEMMA DivModIsQuotients ==
    ASSUME NEW x, NEW d PROVE DivMod(x, d) = Quotients(d)[x]
  BY DEF DivMod, Quotients, Divided, Rest

\* DivMod's recursion defines a function.
LEMMA QuotientsExist ==
    ASSUME NEW d \in Pol, d # {}
    PROVE  Quotients(d) = [z \in Pol |-> Divided(Quotients(d), z, d)]
<1> DEFINE below(m) == {z \in Pol : \A i \in z : i < m}
           upTo(f, m) == f = [z \in Pol |-> IF z \in below(m) THEN Divided(f, z, d) ELSE <<>>]
           S == {m \in Nat : \E f : upTo(f, m)}
<1>0. Deg(d) \in Nat
  BY PolIsPoly, Highest
<1>1. 0 \in S
  <2> DEFINE f == [z \in Pol |-> IF z \in below(0) THEN [q |-> Zero, r |-> z] ELSE <<>>]
  <2>1. ASSUME NEW z \in below(0) PROVE Divided(f, z, d) = [q |-> Zero, r |-> z]
    <3>1. z = {}
      BY PolIsPoly
    <3>2. Deg(z) = -1
      BY <3>1 DEF Deg, Zero
    <3> HIDE DEF f
    <3> QED
      BY <1>0, <3>2 DEF Divided
  <2>2. upTo(f, 0)
    <3> HIDE DEF below
    <3> QED
      BY <2>1
  <2> HIDE DEF f
  <2> QED
    BY <2>2
<1>2. ASSUME NEW m \in S PROVE m + 1 \in S
  <2>1. m \in Nat
    OBVIOUS
  <2>2. PICK f : upTo(f, m)
    OBVIOUS
  <2> DEFINE g == [z \in Pol |-> IF z \in below(m + 1) THEN Divided(f, z, d) ELSE <<>>]
  <2>3. ASSUME NEW z \in below(m + 1) PROVE Divided(g, z, d) = Divided(f, z, d)
    <3>1. CASE Deg(z) - Deg(d) < 0
      BY <3>1 DEF Divided
    <3>2. CASE ~ (Deg(z) - Deg(d) < 0)
      <4>1. z \in Pol /\ z \in Poly
        BY PolIsPoly
      <4>2. z # {}
        <5>1. z = {} => Deg(z) = -1
          BY DEF Deg, Zero
        <5> QED
          BY <5>1, <3>2, <1>0
      <4>3. Deg(z) \in z /\ Deg(z) \in Nat
        BY <4>1, <4>2, Highest
      <4>4. Deg(z) < m + 1 /\ Deg(d) <= Deg(z)
        BY <4>3, <3>2, <1>0
      <4>5. Rest(z, d) \in Pol /\ \A i \in Rest(z, d) : i \in Nat /\ i < Deg(z)
        BY <4>1, <4>4, RestIsLower
      <4>6. Rest(z, d) \in below(m) /\ Rest(z, d) \in below(m + 1)
        BY <4>3, <4>4, <4>5, <2>1
      <4> DEFINE y == Rest(z, d)
      <4> HIDE DEF y
      <4>7. y \in Pol /\ y \in below(m) /\ y \in below(m + 1)
        BY <4>5, <4>6 DEF y
      <4>8. f[y] = Divided(f, y, d)
        <5> HIDE DEF below
        <5> QED
          BY <4>7, <2>2
      <4>9. g[y] = Divided(f, y, d)
        <5> HIDE DEF below
        <5> QED
          BY <4>7
      <4> HIDE DEF g
      <4>10. g[Rest(z, d)] = f[Rest(z, d)]
        BY <4>8, <4>9 DEF y
      <4> QED
        BY <4>10 DEF Divided
    <3> QED
      BY <3>1, <3>2
  <2>4. upTo(g, m + 1)
    <3> HIDE DEF below
    <3> QED
      BY <2>3
  <2> HIDE DEF g, upTo
  <2> QED
    BY <2>1, <2>4
<1>3. \A m \in Nat : m \in S
  <2>1. S \in SUBSET Nat
    OBVIOUS
  <2> HIDE DEF S
  <2> QED
    BY <1>1, <1>2, <2>1, Induction
<1>4. PICK f : upTo(f, Width)
  <2>1. Width \in S
    BY <1>3, PolIsPoly
  <2> HIDE DEF upTo
  <2> QED
    BY <2>1
<1>5. \A z \in Pol : z \in below(Width)
  <2>1. ASSUME NEW z \in Pol, NEW i \in z PROVE i < Width
    <3>1. i \in 0..(Width - 1) /\ Width \in Nat
      BY PolIsPoly
    <3> QED
      BY <3>1
  <2> QED
    BY <2>1
<1>6. f = [z \in Pol |-> Divided(f, z, d)]
  <2> HIDE DEF below
  <2>1. f = [z \in Pol |-> IF z \in below(Width) THEN Divided(f, z, d) ELSE <<>>]
    BY <1>4
  <2>2. [z \in Pol |-> IF z \in below(Width) THEN Divided(f, z, d) ELSE <<>>]
          = [z \in Pol |-> Divided(f, z, d)]
    BY <1>5
  <2> QED
    BY <2>1, <2>2, Zenon
<1> QED
  BY <1>6, Zenon DEF Quotients

\* z is a multiple of d and a remainder of a lower degree.
LEMMA Division ==
    ASSUME NEW d \in Pol, d # {}, NEW z \in Pol
    PROVE  /\ Div(z, d) \in Pol /\ Mod(z, d) \in Pol
           /\ \A i \in Mod(z, d) : i < Deg(d)
           /\ Add(z, Mod(z, d)) = Times(Div(z, d), d)
<1> DEFINE F == Quotients(d)
           k == Deg(d)
           right(y) == /\ F[y].q \in Pol /\ F[y].r \in Pol
                       /\ \A i \in F[y].r : i < k
                       /\ Add(y, F[y].r) = Times(F[y].q, d)
           S == {m \in Nat : \A y \in Pol : (\A i \in y : i < m) => right(y)}
<1>1. /\ \A y \in Pol : F[y] = Divided(F, y, d)
      /\ k \in Nat /\ d \in Poly /\ Pol \subseteq Poly
  <2>1. F = [y \in Pol |-> Divided(F, y, d)]
    BY QuotientsExist
  <2>2. k \in Nat /\ d \in Poly /\ Pol \subseteq Poly
    BY PolIsPoly, Highest
  <2> HIDE DEF F, k
  <2>3. \A y \in Pol : F[y] = Divided(F, y, d)
    BY <2>1
  <2> QED
    BY <2>2, <2>3
<1> HIDE DEF F
<1>2. ASSUME NEW y \in Pol, Deg(y) < k, Deg(y) \in Int PROVE right(y)
  <2>1. F[y] = [q |-> Zero, r |-> y]
    <3>1. Deg(y) - Deg(d) < 0
      BY <1>1, <1>2
    <3> QED
      BY <3>1, <1>1 DEF Divided
  <2>2. F[y].q = {} /\ F[y].r = y
    BY <2>1 DEF Zero
  <2>3. {} \in Pol
    BY DEF Pol
  <2>4. \A i \in y : i < k
    <3> SUFFICES ASSUME NEW i \in y PROVE i < k
      OBVIOUS
    <3>1. y \in Poly /\ y # {}
      BY <1>1
    <3>2. i <= Deg(y) /\ i \in Nat
      BY <3>1, Highest, PolIsPoly
    <3> HIDE DEF k
    <3> QED
      BY <3>2, <1>1, <1>2
  <2>5. Add(y, y) = Times({}, d)
    BY AddRules, TimesNone
  <2> QED
    BY <2>2, <2>3, <2>4, <2>5
<1>3. ASSUME NEW y \in Pol, k <= Deg(y), right(Rest(y, d)) PROVE right(y)
  <2> DEFINE u == Rest(y, d)
             e == Deg(y) - k
  <2>1. /\ Deg(y) \in 0..(Width - 1) /\ e \in 0..(Width - 1)
        /\ u \in Pol /\ u = Add(y, Shift(d, e))
        /\ \A i \in u : i \in Nat /\ i < Deg(y)
    BY <1>3, RestIsLower
  <2>2. e \in Nat /\ ~ (e < 0) /\ Deg(y) \in Nat
    BY <2>1
  <2>3. F[y] = [q |-> F[u].q \union {e}, r |-> F[u].r]
    <3>1. ~ (Deg(y) - Deg(d) < 0)
      BY <2>2
    <3> QED
      BY <3>1, <1>1 DEF Divided
  <2> HIDE DEF u
  <2>4. right(u)
    BY <1>3 DEF u
  <2> HIDE DEF e
  <2>5. F[y].q = F[u].q \union {e} /\ F[y].r = F[u].r
    BY <2>3
  <2>6. F[y].q \in Pol
    <3>1. {e} \in Pol
      BY <2>1 DEF Pol
    <3>2. F[u].q \in Pol
      BY <2>4
    <3>3. F[u].q \union {e} \in Pol
      BY <3>1, <3>2 DEF Pol
    <3> QED
      BY <3>3, <2>5
  <2>7. e \notin F[u].q
    <3> SUFFICES ASSUME e \in F[u].q PROVE FALSE
      OBVIOUS
    <3> DEFINE q == F[u].q
               t == Times(q, d)
    <3>1. q \in Poly /\ q # {} /\ e \in q
      BY <2>4, <1>1
    <3>2. e <= Deg(q) /\ Deg(q) \in Nat /\ Deg(q) + k \in t
      BY <3>1, <1>1, Highest, TimesTop
    <3>3. t = Add(u, F[u].r)
      BY <2>4
    <3>4. \A i \in t : i < Deg(y)
      <4>1. \A i \in t : i \in u \/ i \in F[u].r
        BY <3>3, AddIsXor
      <4>2. \A i \in F[u].r : i \in Nat /\ i < k
        BY <2>4, PolIsPoly
      <4>3. \A i \in F[u].r : i < Deg(y)
        <5> HIDE DEF k
        <5> QED
          BY <4>2, <1>1, <1>3, <2>2
      <4> QED
        BY <4>1, <4>3, <2>1
    <3>5. Deg(q) + k < Deg(y)
      BY <3>2, <3>4
    <3>6. e + k = Deg(y)
      <4> HIDE DEF k
      <4> QED
        BY <1>1, <2>2 DEF e
    <3> HIDE DEF k, q
    <3> QED
      BY <3>2, <3>5, <3>6, <1>1, <2>2
  <2>8. Times(F[y].q, d) = Add(y, F[y].r)
    <3> DEFINE q == F[u].q
               r == F[u].r
    <3>1. q \in Poly /\ {e} \in Poly
      <4>1. {e} \in Pol
        BY <2>1 DEF Pol
      <4> QED
        BY <4>1, <2>4, <1>1
    <3>2. Add(u, r) = Times(q, d)
      BY <2>4
    <3> HIDE DEF q, r
    <3>3. q \union {e} = Add(q, {e})
      BY <2>7, AddRules DEF q
    <3>4. Times({e}, d) = Shift(d, e)
      <4>1. d \in SUBSET Nat
        BY <1>1 DEF Poly
      <4> QED
        BY <4>1, <2>2, TimesPower
    <3>5. Times(Add(q, {e}), d) = Add(Add(u, r), Shift(d, e))
      BY <3>1, <3>2, <3>4, <1>1, TimesSum
    <3>6. Add(Add(u, r), Shift(d, e)) = Add(y, r)
      BY <2>1 DEF Add
    <3> QED
      BY <3>3, <3>5, <3>6, <2>5 DEF q, r
  <2>9. F[y].r \in Pol /\ \A i \in F[y].r : i < k
    BY <2>4, <2>5
  <2> QED
    BY <2>6, <2>8, <2>9
<1>4. 0 \in S
  <2> SUFFICES ASSUME NEW y \in Pol, \A i \in y : i < 0 PROVE right(y)
    OBVIOUS
  <2>1. y = {}
    BY PolIsPoly
  <2>2. Deg(y) = -1
    BY <2>1 DEF Deg, Zero
  <2>3. Deg(y) < k /\ Deg(y) \in Int
    <3> HIDE DEF k
    <3> QED
      BY <2>2, <1>1
  <2> HIDE DEF right
  <2> QED
    BY <2>3, <1>2
<1>5. ASSUME NEW m \in S PROVE m + 1 \in S
  <2>1. m \in Nat /\ \A y \in Pol : (\A i \in y : i < m) => right(y)
    OBVIOUS
  <2> HIDE DEF right
  <2> SUFFICES ASSUME NEW y \in Pol, \A i \in y : i < m + 1 PROVE right(y)
    BY <2>1
  <2>2. CASE y = {}
    <3>1. \A i \in y : i < m
      BY <2>2
    <3> QED
      BY <3>1, <2>1
  <2>3. CASE y # {}
    <3>1. Deg(y) \in y /\ Deg(y) \in Nat
      BY <2>3, <1>1, Highest
    <3>2. Deg(y) < m + 1
      BY <3>1
    <3>3. CASE Deg(y) < k
      BY <3>1, <3>3, <1>2
    <3>4. CASE k <= Deg(y)
      <4>1. Rest(y, d) \in Pol /\ \A i \in Rest(y, d) : i \in Nat /\ i < Deg(y)
        BY <3>4, RestIsLower
      <4>2. \A i \in Rest(y, d) : i < m
        BY <4>1, <3>1, <3>2, <2>1
      <4>3. right(Rest(y, d))
        BY <4>1, <4>2, <2>1
      <4> QED
        BY <4>3, <3>4, <1>3
    <3> HIDE DEF k
    <3> QED
      BY <3>1, <3>3, <3>4, <1>1
  <2> QED
    BY <2>2, <2>3
<1>6. \A m \in Nat : m \in S
  <2>1. S \in SUBSET Nat
    OBVIOUS
  <2> HIDE DEF S
  <2> QED
    BY <1>4, <1>5, <2>1, Induction
<1>7. right(z)
  <2>1. Width \in S
    BY <1>6, PolIsPoly
  <2>2. \A i \in z : i < Width
    <3>1. \A i \in z : i \in 0..(Width - 1)
      BY PolIsPoly
    <3>2. Width \in Nat
      BY PolIsPoly
    <3> QED
      BY <3>1, <3>2
  <2> HIDE DEF right
  <2> QED
    BY <2>1, <2>2
<1>8. Div(z, d) = F[z].q /\ Mod(z, d) = F[z].r
  BY DivModIsQuotients DEF Div, Mod, F
<1> QED
  BY <1>7, <1>8

\* There is one quotient and one remainder.
LEMMA OneRemainder ==
    ASSUME NEW d \in Pol, d # {}, NEW z \in Pol, NEW q \in Poly, NEW r,
           \A i \in r : i < Deg(d), Add(z, r) = Times(q, d)
    PROVE  Div(z, d) = q /\ Mod(z, d) = r
<1> DEFINE p == Div(z, d)
           s == Mod(z, d)
<1>1. p \in Pol /\ p \in Poly /\ (\A i \in s : i < Deg(d)) /\ Add(z, s) = Times(p, d) /\ d \in Poly
  BY Division, PolIsPoly
<1> HIDE DEF p, s
<1>2. Times(Add(p, q), d) = Add(s, r)
  <2>1. Times(Add(p, q), d) = Add(Times(p, d), Times(q, d))
    BY <1>1, TimesSum
  <2>2. Add(Add(z, s), Add(z, r)) = Add(s, r)
    BY AddRules
  <2> QED
    BY <2>1, <2>2, <1>1
<1>3. \A j \in Times(Add(p, q), d) : j < Deg(d)
  BY <1>1, <1>2, AddIsXor
<1>4. Add(p, q) = {}
  BY <1>1, <1>3, SumOfPolys, SmallMultiple
<1>5. Add(s, r) = {}
  BY <1>2, <1>4, TimesNone
<1>6. p = q /\ s = r
  BY <1>4, <1>5, NoDifference
<1> QED
  BY <1>6 DEF p, s

LEMMA SmallMod ==
    ASSUME NEW d \in Pol, d # {}, NEW z \in Pol, \A i \in z : i < Deg(d)
    PROVE  Mod(z, d) = z
<1>1. Add(z, z) = Times({}, d)
  BY AddRules, TimesNone
<1>2. {} \in Poly
  BY BoundedPoly
<1> QED
  BY <1>1, <1>2, OneRemainder

\* The remainder of a sum is the sum of the remainders.
LEMMA ModSum ==
    ASSUME NEW d \in Pol, d # {}, NEW y \in Pol, NEW z \in Pol
    PROVE  Mod(Add(y, z), d) = Add(Mod(y, d), Mod(z, d))
<1> DEFINE r == Mod(y, d)
           s == Mod(z, d)
           p == Div(y, d)
           q == Div(z, d)
<1>1. /\ p \in Poly /\ (\A i \in r : i < Deg(d)) /\ Add(y, r) = Times(p, d)
      /\ q \in Poly /\ (\A i \in s : i < Deg(d)) /\ Add(z, s) = Times(q, d)
      /\ d \in Poly
  BY Division, PolIsPoly
<1> HIDE DEF p, q, r, s
<1>2. Add(Add(y, z), Add(r, s)) = Times(Add(p, q), d)
  <2>1. Times(Add(p, q), d) = Add(Times(p, d), Times(q, d))
    BY <1>1, TimesSum
  <2>2. Add(Add(y, z), Add(r, s)) = Add(Add(y, r), Add(z, s))
    BY DEF Add
  <2> QED
    BY <2>1, <2>2, <1>1
<1>3. Add(p, q) \in Poly /\ Add(y, z) \in Pol
  BY <1>1, SumOfPolys, PolIsPoly
<1>4. \A i \in Add(r, s) : i < Deg(d)
  BY <1>1, AddIsXor
<1>5. Mod(Add(y, z), d) = Add(r, s)
  BY <1>2, <1>3, <1>4, OneRemainder
<1> QED
  BY <1>5 DEF r, s

-----------------------------------------------------------------------------
(* Hash, byte by byte.                                                     *)

\* The modulus leaves room for a byte below its degree.
LEMMA Sizes ==
    ASSUME pol \in Moduli
    PROVE  /\ Width \in Nat \ {0} /\ ByteWidth \in Nat \ {0} /\ Deg(pol) \in Nat
           /\ ByteWidth <= Deg(pol) /\ Deg(pol) < Width
           /\ pol \in Pol /\ pol # {}
           /\ \A b \in Byte : /\ b \in Pol /\ b \in SUBSET Nat
                              /\ \A i \in b : i \in Nat /\ i < ByteWidth
           /\ Zero \in Byte
<1>1. pol \in Pol /\ pol # {} /\ ByteWidth \in Nat \ {0}
  BY RabinKarpAssumption DEF Zero
<1>2. Width \in Nat \ {0} /\ Deg(pol) \in pol /\ Deg(pol) \in Nat /\ Deg(pol) \in 0..(Width - 1)
  BY <1>1, PolIsPoly, Highest
<1>3. ByteWidth <= Deg(pol)
  BY HighModuli DEF High
<1>4. Deg(pol) < Width
  BY <1>2
<1>5. ASSUME NEW b \in Byte
      PROVE  b \in Pol /\ b \in SUBSET Nat /\ \A i \in b : i \in Nat /\ i < ByteWidth
  <2>1. b \in SUBSET (0..(ByteWidth - 1))
    BY DEF Byte
  <2>2. \A i \in b : i \in Nat /\ i < ByteWidth
    BY <2>1, <1>1
  <2>3. \A i \in b : i \in 0..(Width - 1)
    BY <2>2, <1>1, <1>2, <1>3, <1>4
  <2> QED
    BY <2>2, <2>3 DEF Pol
<1>6. Zero \in Byte
  BY DEF Zero, Byte
<1> QED
  BY <1>1, <1>2, <1>3, <1>4, <1>5, <1>6

LEMMA ShlSum ==
    ASSUME NEW y \in Pol, NEW z \in Pol, NEW e \in Nat
    PROVE  Shl(Add(y, z), e) = Add(Shl(y, e), Shl(z, e)) /\ Shl(z, e) \in Pol
<1>1. ASSUME NEW x \in Pol, NEW j \in 0..(Width - 1)
      PROVE  j \in Shl(x, e) <=> j - e \in x
  <2>1. \A i \in x : i \in Nat
    BY PolIsPoly
  <2>2. j \in Int
    OBVIOUS
  <2>3. ASSUME NEW i \in x, j = i + e PROVE j - e = i
    BY <2>1, <2>3
  <2>4. j = (j - e) + e
    BY <2>2
  <2> QED
    BY <2>3, <2>4 DEF Shl
<1>2. \A x : Shl(x, e) \in SUBSET (0..(Width - 1))
  BY DEF Shl
<1>3. Add(y, z) \in Pol
  BY PolIsPoly
<1> DEFINE A == Shl(Add(y, z), e)
           B == Add(Shl(y, e), Shl(z, e))
<1>4. \A j \in 0..(Width - 1) : j \in A <=> j \in B
  <2> SUFFICES ASSUME NEW j \in 0..(Width - 1) PROVE j \in A <=> j \in B
    OBVIOUS
  <2>1. j \in A <=> j - e \in Add(y, z)
    BY <1>1, <1>3
  <2>2. (j \in Shl(y, e) <=> j - e \in y) /\ (j \in Shl(z, e) <=> j - e \in z)
    BY <1>1
  <2> HIDE DEF A
  <2> QED
    BY <2>1, <2>2, AddIsXor
<1>5. A \in SUBSET (0..(Width - 1)) /\ B \in SUBSET (0..(Width - 1))
  BY <1>2, AddIsXor
<1>6. A = B
  <2> HIDE DEF A, B
  <2> QED
    BY <1>4, <1>5
<1>7. Shl(z, e) \in Pol
  BY <1>2 DEF Pol
<1> QED
  BY <1>6, <1>7

\* The remainders of pol: the values of a checksum.
Residues == {r \in Pol : \A i \in r : i < Deg(pol)}

\* One step of Horner's rule is linear.
LEMMA HornerSum ==
    ASSUME pol \in Moduli, NEW h \in Residues, NEW g \in Residues, NEW b \in Byte, NEW c \in Byte
    PROVE  /\ Horner(h, b) \in Residues
           /\ Horner(Add(h, g), Add(b, c)) = Add(Horner(h, b), Horner(g, c))
           /\ Add(h, g) \in Residues
<1>1. /\ pol \in Pol /\ pol # {} /\ ByteWidth \in Nat /\ b \in Pol /\ c \in Pol
      /\ h \in Pol /\ g \in Pol /\ Add(h, g) \in Pol /\ Add(b, c) \in Pol
  BY Sizes, PolIsPoly DEF Residues
<1>2. \A i : (i \in b \/ i \in c) => i \in Nat /\ i < ByteWidth
  BY Sizes
<1>3. ASSUME NEW x \in Pol, NEW d, \A i \in d : i \in Nat /\ i < ByteWidth
      PROVE  Shl(x, ByteWidth) \union d = Add(Shl(x, ByteWidth), d)
  <2>1. ASSUME NEW j \in Shl(x, ByteWidth) PROVE j \notin d
    <3>1. PICK i \in x : j = i + ByteWidth
      BY DEF Shl
    <3>2. i \in Nat
      BY PolIsPoly
    <3>3. ~ (j < ByteWidth)
      BY <3>1, <3>2, <1>1
    <3> QED
      BY <3>3, <1>3
  <2> QED
    BY <2>1, AddRules
<1> DEFINE H == Shl(h, ByteWidth)
           G == Shl(g, ByteWidth)
<1>4. H \in Pol /\ G \in Pol /\ Shl(Add(h, g), ByteWidth) = Add(H, G)
  BY <1>1, ShlSum
<1>5. H \union b = Add(H, b) /\ G \union c = Add(G, c)
  BY <1>1, <1>2, <1>3
<1>6. Shl(Add(h, g), ByteWidth) \union Add(b, c) = Add(Shl(Add(h, g), ByteWidth), Add(b, c))
  <2>1. \A i \in Add(b, c) : i \in Nat /\ i < ByteWidth
    BY <1>2, AddIsXor
  <2> QED
    BY <1>1, <2>1, <1>3
<1>7. Horner(Add(h, g), Add(b, c)) = Mod(Add(Add(H, G), Add(b, c)), pol)
  BY <1>4, <1>6 DEF Horner
<1>8. Horner(h, b) = Mod(Add(H, b), pol) /\ Horner(g, c) = Mod(Add(G, c), pol)
  BY <1>5 DEF Horner
<1> HIDE DEF H, G
<1>9. Add(Add(H, G), Add(b, c)) = Add(Add(H, b), Add(G, c))
  BY DEF Add
<1>10. Add(H, b) \in Pol /\ Add(G, c) \in Pol
  BY <1>1, <1>4, PolIsPoly
<1>11. Mod(Add(Add(H, b), Add(G, c)), pol) = Add(Mod(Add(H, b), pol), Mod(Add(G, c), pol))
  BY <1>1, <1>10, ModSum
<1>12. Horner(h, b) \in Residues
  BY <1>1, <1>8, <1>10, Division DEF Residues
<1>13. Add(h, g) \in Residues
  BY <1>1, AddIsXor DEF Residues
<1> QED
  BY <1>7, <1>8, <1>9, <1>11, <1>12, <1>13

\* The checksums of w's prefixes, of 0 to m bytes.
Unrolled(w, m, h) == [i \in 0..m |-> IF i = 0 THEN Zero ELSE Horner(h[i - 1], w[i])]
Sums(w, m) == CHOOSE h : h = Unrolled(w, m, h)

LEMMA HashIsLastSum == ASSUME NEW w PROVE Hash(w) = Sums(w, Len(w))[Len(w)]
  BY DEF Hash, Sums, Unrolled

\* Hash's recursion defines a function.
LEMMA SumsExist ==
    ASSUME NEW w, NEW m \in Nat
    PROVE  Sums(w, m) = Unrolled(w, m, Sums(w, m))
<1> DEFINE S == {j \in Nat : \E h : h = Unrolled(w, j, h)}
<1>1. 0 \in S
  <2> DEFINE h == [i \in 0..0 |-> Zero]
  <2>1. h = Unrolled(w, 0, h)
    BY DEF Unrolled
  <2> HIDE DEF h
  <2> QED
    BY <2>1
<1>2. ASSUME NEW j \in S PROVE j + 1 \in S
  <2>1. PICK h : h = Unrolled(w, j, h)
    OBVIOUS
  <2> DEFINE g == [i \in 0..(j + 1) |-> IF i = j + 1 THEN Horner(h[j], w[j + 1]) ELSE h[i]]
  <2>2. j \in Nat
    OBVIOUS
  <2>3. \A i \in 0..(j + 1) :
           (IF i = j + 1 THEN Horner(h[j], w[j + 1]) ELSE h[i])
             = IF i = 0 THEN Zero ELSE Horner(g[i - 1], w[i])
    <3> SUFFICES ASSUME NEW i \in 0..(j + 1)
                 PROVE  (IF i = j + 1 THEN Horner(h[j], w[j + 1]) ELSE h[i])
                           = IF i = 0 THEN Zero ELSE Horner(g[i - 1], w[i])
      OBVIOUS
    <3>1. CASE i = j + 1
      <4>1. g[i - 1] = h[j] /\ i # 0
        BY <2>2, <3>1
      <4> QED
        BY <3>1, <4>1
    <3>2. CASE i # j + 1 /\ i = 0
      BY <2>1, <2>2, <3>2 DEF Unrolled
    <3>3. CASE i # j + 1 /\ i # 0
      <4>1. i \in 0..j /\ i - 1 \in 0..(j + 1) /\ i - 1 # j + 1
        BY <2>2, <3>3
      <4>2. g[i - 1] = h[i - 1]
        BY <4>1
      <4>3. h[i] = Horner(h[i - 1], w[i])
        BY <2>1, <3>3, <4>1 DEF Unrolled
      <4> QED
        BY <3>3, <4>2, <4>3
    <3> QED
      BY <3>1, <3>2, <3>3
  <2>4. g = Unrolled(w, j + 1, g)
    BY <2>3 DEF Unrolled
  <2> HIDE DEF g
  <2> QED
    BY <2>2, <2>4
<1>3. \A j \in Nat : j \in S
  <2> HIDE DEF S
  <2>1. S \in SUBSET Nat
    BY DEF S
  <2> QED
    BY <1>1, <1>2, <2>1, Induction
<1>4. PICK h : h = Unrolled(w, m, h)
  BY <1>3
<1> QED
  BY <1>4, Zenon DEF Sums

\* The checksum of a prefix depends on the prefix alone.
LEMMA SumsAgree ==
    ASSUME NEW v, NEW w, NEW l \in Nat, NEW m \in Nat, l <= m,
           \A i \in 1..l : v[i] = w[i]
    PROVE  Sums(v, l)[l] = Sums(w, m)[l]
<1> DEFINE f == Sums(v, l)
           g == Sums(w, m)
           S == {j \in Nat : j <= l => f[j] = g[j]}
<1>1. /\ \A i \in 0..l : f[i] = IF i = 0 THEN Zero ELSE Horner(f[i - 1], v[i])
      /\ \A i \in 0..m : g[i] = IF i = 0 THEN Zero ELSE Horner(g[i - 1], w[i])
  <2>1. f = Unrolled(v, l, f) /\ g = Unrolled(w, m, g)
    BY SumsExist
  <2> HIDE DEF f, g
  <2> QED
    BY <2>1 DEF Unrolled
<1> HIDE DEF f, g
<1>2. 0 \in S
  BY <1>1
<1>3. ASSUME NEW j \in S PROVE j + 1 \in S
  <2> SUFFICES ASSUME j + 1 <= l PROVE f[j + 1] = g[j + 1]
    OBVIOUS
  <2>1. f[j] = g[j] /\ j + 1 \in 0..l /\ j + 1 \in 0..m /\ (j + 1) - 1 = j /\ j + 1 # 0
    OBVIOUS
  <2>2. v[j + 1] = w[j + 1]
    BY <2>1
  <2>3. f[j + 1] = Horner(f[j], v[j + 1]) /\ g[j + 1] = Horner(g[j], w[j + 1])
    BY <1>1, <2>1
  <2> QED
    BY <2>1, <2>2, <2>3
<1>4. S \in SUBSET Nat
  OBVIOUS
<1>5. \A j \in Nat : j \in S
  <2> HIDE DEF S
  <2> QED
    BY <1>2, <1>3, <1>4, Induction
<1> QED
  BY <1>5 DEF f, g

LEMMA HashNone == Hash(<<>>) = Zero
<1>1. Len(<<>>) = 0
  OBVIOUS
<1>2. Sums(<<>>, 0) = Unrolled(<<>>, 0, Sums(<<>>, 0))
  BY SumsExist
<1>3. Sums(<<>>, 0)[0] = Zero
  BY <1>2 DEF Unrolled
<1> QED
  BY <1>1, <1>3, HashIsLastSum

LEMMA HashAppend ==
    ASSUME NEW S, NEW w \in Seq(S), NEW c \in S
    PROVE  Hash(Append(w, c)) = Horner(Hash(w), c)
<1> DEFINE v == Append(w, c)
           m == Len(w)
           g == Sums(v, m + 1)
<1>1. m \in Nat /\ Len(v) = m + 1 /\ v[m + 1] = c /\ \A i \in 1..m : w[i] = v[i]
  OBVIOUS
<1> HIDE DEF v
<1>2. g = Unrolled(v, m + 1, g)
  BY <1>1, SumsExist
<1> HIDE DEF m, g
<1>3. g[m + 1] = Horner(g[m], c)
  <2>1. m + 1 \in 0..(m + 1) /\ m + 1 # 0 /\ (m + 1) - 1 = m
    BY <1>1
  <2> QED
    BY <1>1, <1>2, <2>1 DEF Unrolled
<1>4. Sums(w, m)[m] = g[m]
  BY <1>1, SumsAgree DEF g
<1>5. Hash(v) = g[m + 1] /\ Hash(w) = Sums(w, m)[m]
  BY <1>1, HashIsLastSum DEF g, m
<1> QED
  BY <1>3, <1>4, <1>5 DEF v


-----------------------------------------------------------------------------
(* Rolling.                                                                *)

Zeros(m) == [i \in 1..m |-> Zero]

LEMMA MoreZeros ==
    ASSUME NEW m \in Nat, Zero \in Byte
    PROVE  Zeros(m) \in Seq(Byte) /\ Len(Zeros(m)) = m /\ Zeros(m + 1) = Append(Zeros(m), Zero)
<1>1. ASSUME NEW l \in Nat PROVE Zeros(l) \in Seq(Byte) /\ Len(Zeros(l)) = l
  BY DEF Zeros
<1> DEFINE u == Zeros(m)
           v == Zeros(m + 1)
<1>2. u \in Seq(Byte) /\ Len(u) = m /\ v \in Seq(Byte) /\ Len(v) = m + 1
  BY <1>1
<1>3. (\A i \in 1..m : u[i] = Zero) /\ (\A i \in 1..(m + 1) : v[i] = Zero)
  BY DEF Zeros
<1> HIDE DEF u, v
<1> DEFINE n1 == Append(u, Zero)
<1>4. n1 \in Seq(Byte) /\ Len(n1) = m + 1 /\ \A i \in 1..(m + 1) : n1[i] = Zero
  BY <1>2, <1>3
<1> HIDE DEF n1
<1>5. v = n1
  BY <1>2, <1>3, <1>4, SeqEqual
<1> QED
  BY <1>2, <1>5 DEF u, v, n1

\* A checksum is what it would be without the first byte, and that byte's weight.
LEMMA FirstByte ==
    ASSUME pol \in Moduli, NEW x \in Byte, NEW w \in Seq(Byte)
    PROVE  /\ Hash(w) \in Residues /\ out(Len(w) + 1, x) \in Residues
           /\ Hash(<<x>> \o w) = Add(Hash(w), out(Len(w) + 1, x))
<1> DEFINE P(v) == /\ Hash(v) \in Residues /\ out(Len(v) + 1, x) \in Residues
                   /\ Hash(<<x>> \o v) = Add(Hash(v), out(Len(v) + 1, x))
           S == {m \in Nat : \A v \in Seq(Byte) : Len(v) = m => P(v)}
<1>0. Zero \in Residues /\ Zero \in Byte
  BY Sizes DEF Residues, Zero, Pol
<1>1. ASSUME NEW m \in Nat PROVE out(m + 1, x) = Hash(<<x>> \o Zeros(m))
  <2>1. (m + 1) - 1 = m
    OBVIOUS
  <2> QED
    BY <2>1 DEF out, Zeros
<1>2. 0 \in S
  <2> SUFFICES ASSUME NEW v \in Seq(Byte), Len(v) = 0 PROVE P(v)
    OBVIOUS
  <2>1. v = <<>> /\ <<x>> \o v = Append(<<>>, x) /\ <<>> \in Seq(Byte) /\ 0 \in Nat
    OBVIOUS
  <2>2. Zeros(0) = <<>>
    <3>1. Zeros(0) \in Seq(Byte) /\ Len(Zeros(0)) = 0
      BY <1>0, <2>1, MoreZeros
    <3> QED
      BY <3>1
  <2>3. out(0 + 1, x) = Hash(Append(<<>>, x))
    BY <1>1, <2>1, <2>2
  <2>4. Hash(Append(<<>>, x)) = Horner(Zero, x)
    BY <2>1, HashAppend, HashNone
  <2>5. Horner(Zero, x) \in Residues
    BY <1>0, HornerSum
  <2>6. Hash(v) = Zero
    BY <2>1, HashNone
  <2>7. out(Len(v) + 1, x) = Hash(<<x>> \o v)
    BY <2>1, <2>3
  <2>8. Hash(<<x>> \o v) \in Residues
    BY <2>1, <2>4, <2>5
  <2>9. Hash(<<x>> \o v) = Add(Zero, Hash(<<x>> \o v))
    BY AddRules DEF Zero
  <2> QED
    BY <1>0, <2>6, <2>7, <2>8, <2>9
<1>3. ASSUME NEW m \in S PROVE m + 1 \in S
  <2> SUFFICES ASSUME NEW v \in Seq(Byte), Len(v) = m + 1 PROVE P(v)
    OBVIOUS
  <2>1. m \in Nat
    OBVIOUS
  <2> DEFINE u == SubSeq(v, 1, m)
             c == v[m + 1]
  <2>2. u \in Seq(Byte) /\ Len(u) = m /\ c \in Byte /\ v = Append(u, c)
    BY <2>1, LastByte
  <2> HIDE DEF u, c
  <2>3. P(u)
    BY <2>2
  <2> HIDE DEF S
  <2> DEFINE h == Hash(u)
             o == out(m + 1, x)
  <2>4. h \in Residues /\ o \in Residues /\ Hash(<<x>> \o u) = Add(h, o)
    BY <2>2, <2>3
  <2>5. <<x>> \o v = Append(<<x>> \o u, c) /\ <<x>> \o u \in Seq(Byte)
    BY <2>2
  <2>6. Hash(v) = Horner(h, c)
    BY <2>2, HashAppend
  <2>7. Hash(<<x>> \o v) = Horner(Add(h, o), c)
    BY <2>2, <2>4, <2>5, HashAppend
  <2>8. out((m + 1) + 1, x) = Horner(o, Zero)
    <3>1. out((m + 1) + 1, x) = Hash(<<x>> \o Zeros(m + 1)) /\ o = Hash(<<x>> \o Zeros(m))
      <4>1. m + 1 \in Nat
        BY <2>1
      <4>2. out((m + 1) + 1, x) = Hash(<<x>> \o Zeros(m + 1))
        BY <1>1, <4>1
      <4>3. out(m + 1, x) = Hash(<<x>> \o Zeros(m))
        BY <1>1, <2>1
      <4> QED
        BY <4>2, <4>3
    <3> DEFINE z == Zeros(m)
    <3>2. z \in Seq(Byte) /\ Zeros(m + 1) = Append(z, Zero)
      BY <1>0, <2>1, MoreZeros
    <3> HIDE DEF z
    <3>3. <<x>> \o Append(z, Zero) = Append(<<x>> \o z, Zero) /\ <<x>> \o z \in Seq(Byte)
      BY <1>0, <3>2
    <3>4. Hash(Append(<<x>> \o z, Zero)) = Horner(Hash(<<x>> \o z), Zero)
      BY <1>0, <3>3, HashAppend
    <3> HIDE DEF o
    <3> QED
      BY <3>1, <3>2, <3>3, <3>4 DEF z
  <2> HIDE DEF h, o
  <2>9. /\ Horner(h, c) \in Residues /\ Horner(o, Zero) \in Residues
        /\ Horner(Add(h, o), Add(c, Zero)) = Add(Horner(h, c), Horner(o, Zero))
    <3>1. pol \in Moduli /\ Zero \in Byte
      BY <1>0
    <3>2. h \in Residues /\ o \in Residues /\ c \in Byte
      BY <2>2, <2>4
    <3>3. /\ Horner(h, c) \in Residues
          /\ Horner(Add(h, o), Add(c, Zero)) = Add(Horner(h, c), Horner(o, Zero))
      BY <3>1, <3>2, HornerSum
    <3>4. Horner(o, Zero) \in Residues
      BY <3>1, <3>2, HornerSum
    <3> QED
      BY <3>3, <3>4
  <2>10. Add(c, Zero) = c
    BY AddRules DEF Zero
  <2> QED
    BY <2>2, <2>6, <2>7, <2>8, <2>9, <2>10
<1>4. S \in SUBSET Nat
  OBVIOUS
<1>5. \A m \in Nat : m \in S
  <2> HIDE DEF S
  <2> QED
    BY <1>2, <1>3, <1>4, Induction
<1>6. Len(w) \in S
  BY <1>5
<1> QED
  BY <1>6

\* The bits that are shifted past the degree of pol come back reduced.
LEMMA ShiftAndReduce ==
    ASSUME pol \in Moduli, NEW h \in Residues, NEW c \in Byte
    PROVE  Add(Shl(h, ByteWidth) \union c, mod(TopByte(h))) = Horner(h, c)
<1> DEFINE k == Deg(pol)
           T == TopByte(h)
           H == Shl(h, ByteWidth)
           M == Shl(T, k)
           R == Mod(M, pol)
           L == {j \in H : j < k} \union c
<1>1. /\ Width \in Nat \ {0} /\ ByteWidth \in Nat \ {0} /\ k \in Nat
      /\ ByteWidth <= k /\ k < Width /\ pol \in Pol /\ pol # {}
      /\ c \in Pol /\ \A i \in c : i \in Nat /\ i < ByteWidth
  BY Sizes
<1>2. h \in Pol /\ \A i \in h : i \in Nat /\ i < k
  BY PolIsPoly DEF Residues
<1>3. polShift = k - ByteWidth
  <2> HIDE DEF k
  <2>1. (k - ByteWidth) % Width = k - ByteWidth
    BY <1>1
  <2> QED
    BY <2>1 DEF polShift, k
<1>4. T \in Pol /\ \A i \in T : i \in Nat
  <2>1. T \in SUBSET (0..(ByteWidth - 1))
    BY DEF TopByte
  <2>2. T \in Byte
    BY <2>1 DEF Byte
  <2> QED
    BY <2>2, Sizes
<1> HIDE DEF k
<1>5. ASSUME NEW j PROVE j \in M <=> j \in H /\ ~ (j < k)
  <2>1. ASSUME j \in M PROVE j \in H /\ ~ (j < k)
    <3>1. PICK t \in T : j = t + k /\ j \in 0..(Width - 1)
      BY <2>1 DEF Shl
    <3>2. PICK i \in h : t = i - polShift
      BY DEF TopByte
    <3>3. i \in Nat /\ t \in Nat /\ t = i - (k - ByteWidth)
      BY <1>2, <1>3, <1>4, <3>2
    <3>4. j = i + ByteWidth /\ ~ (j < k)
      BY <1>1, <3>1, <3>3
    <3>5. j \in H
      BY <3>1, <3>4 DEF Shl
    <3> QED
      BY <3>4, <3>5
  <2>2. ASSUME j \in H, ~ (j < k) PROVE j \in M
    <3>1. PICK i \in h : j = i + ByteWidth /\ j \in 0..(Width - 1)
      BY <2>2 DEF Shl
    <3>2. i \in Nat /\ i < k
      BY <1>2
    <3>3. i - (k - ByteWidth) \in 0..(ByteWidth - 1)
      BY <1>1, <2>2, <3>1, <3>2
    <3>4. i - (k - ByteWidth) \in T
      BY <1>3, <3>3 DEF TopByte
    <3>5. j = (i - (k - ByteWidth)) + k
      BY <1>1, <3>1, <3>2
    <3> HIDE DEF T
    <3> QED
      BY <3>1, <3>4, <3>5 DEF Shl
  <2> QED
    BY <2>1, <2>2
<1>6. M \in Pol /\ H \in Pol
  <2> HIDE DEF T
  <2>1. {} \in Pol
    BY DEF Pol
  <2> QED
    BY <1>1, <1>2, <1>4, <2>1, ShlSum
<1> HIDE DEF T, H, M
<1>7. R \in Pol /\ \A i \in R : i < k
  BY <1>1, <1>6, Division DEF k
<1> HIDE DEF R
<1>8. mod(T) = Add(M, R)
  <2>1. mod(T) = R \union M
    BY DEF mod, R, M, k
  <2>2. M \intersect R = {}
    BY <1>5, <1>7
  <2>3. M \union R = Add(M, R)
    BY <2>2, AddRules
  <2> QED
    BY <2>1, <2>3
<1>9. L \in Pol /\ \A i \in L : i < k
  <2>1. L \in Pol
    BY <1>1, <1>6 DEF Pol
  <2>2. \A i \in c : i < k
    BY <1>1
  <2> QED
    BY <2>1, <2>2
<1>10. H \union c = Add(M, L)
  <2>1. \A i \in c : i < k
    BY <1>1
  <2>2. M \intersect L = {}
    BY <1>5, <2>1
  <2>3. H \union c = M \union L
    BY <1>5
  <2> QED
    BY <2>2, <2>3, AddRules
<1> HIDE DEF L
<1>11. Horner(h, c) = Add(R, L)
  <2>1. Mod(Add(M, L), pol) = Add(Mod(M, pol), Mod(L, pol))
    BY <1>1, <1>6, <1>9, ModSum
  <2>2. Mod(L, pol) = L
    BY <1>1, <1>9, SmallMod DEF k
  <2> QED
    BY <2>1, <2>2, <1>10 DEF Horner, R, H
<1>12. Add(Add(M, L), Add(M, R)) = Add(L, R) /\ Add(L, R) = Add(R, L)
  BY AddRules
<1> QED
  BY <1>8, <1>10, <1>11, <1>12 DEF H, T

\* Taking the first byte out with its weight and one more in gives the checksum of the
\* window that has moved by one.
LEMMA SlideIsHash ==
    ASSUME pol \in Moduli, NEW w \in Seq(Byte), w # <<>>, NEW c \in Byte
    PROVE  Slide(Hash(w), Len(w), w[1], c) = Hash(Append(Tail(w), c))
<1> DEFINE x == w[1]
           t == Tail(w)
<1>1. /\ x \in Byte /\ t \in Seq(Byte) /\ Len(t) \in Nat /\ Len(w) = Len(t) + 1
      /\ w = <<x>> \o t
  BY FirstAndRest
<1> HIDE DEF x, t
<1>2. /\ Hash(t) \in Residues
      /\ Hash(<<x>> \o t) = Add(Hash(t), out(Len(t) + 1, x))
  BY <1>1, FirstByte
<1>3. Add(Hash(w), out(Len(w), x)) = Hash(t)
  <2> DEFINE h == Hash(t)
             o == out(Len(t) + 1, x)
  <2>1. Hash(w) = Add(h, o) /\ out(Len(w), x) = o
    BY <1>1, <1>2
  <2> HIDE DEF h, o
  <2>2. Add(Add(h, o), o) = h
    BY DEF Add
  <2> QED
    BY <2>1, <2>2 DEF h
<1>4. Slide(Hash(w), Len(w), x, c) = Add(Shl(Hash(t), ByteWidth) \union c, mod(TopByte(Hash(t))))
  BY <1>3 DEF Slide
<1>5. Hash(Append(t, c)) = Horner(Hash(t), c)
  BY <1>1, HashAppend
<1> QED
  BY <1>2, <1>4, <1>5, ShiftAndReduce DEF x, t

-----------------------------------------------------------------------------
(* BatchRoll and BatchBoundaries.                                          *)

\* A lane's sums are the checksums of its windows.
LEMMA LaneIsHash ==
    ASSUME pol \in Moduli, NEW data \in Seq(Byte), NEW w \in Nat \ {0},
           NEW first \in Nat, NEW last \in Int, last + w <= Len(data)
    PROVE  \A i \in first..last :
               Lane(data, w, first, last)[i] = Hash(WindowAt(data, w, i))
<1> DEFINE F(v) == [i \in first..last |->
                       IF i = first THEN Hash(SubSeq(data, first + 1, first + w))
                       ELSE Slide(v[i - 1], w, data[i], data[i + w])]
           g    == [i \in first..last |-> Hash(WindowAt(data, w, i))]
           L    == CHOOSE v : v = F(v)
<1>1. ASSUME NEW i \in Nat, i + 1 + w <= Len(data)
      PROVE  Slide(Hash(WindowAt(data, w, i)), w, data[i + 1], data[(i + 1) + w])
               = Hash(WindowAt(data, w, i + 1))
  <2> DEFINE v == WindowAt(data, w, i)
             c == data[(i + 1) + w]
  <2>1. /\ v \in Seq(Byte) /\ v # <<>> /\ Len(v) = w /\ v[1] = data[i + 1] /\ c \in Byte
        /\ WindowAt(data, w, i + 1) = Append(Tail(v), c)
    BY <1>1, NextWindow
  <2> HIDE DEF v, c
  <2>2. Slide(Hash(v), Len(v), v[1], c) = Hash(Append(Tail(v), c))
    BY <2>1, SlideIsHash
  <2> QED
    BY <2>1, <2>2 DEF v, c
<1>2. g = F(g)
  <2>1. ASSUME NEW i \in first..last
        PROVE  Hash(WindowAt(data, w, i))
                 = IF i = first THEN Hash(SubSeq(data, first + 1, first + w))
                   ELSE Slide(g[i - 1], w, data[i], data[i + w])
    <3>1. CASE i = first
      BY <3>1 DEF WindowAt
    <3>2. CASE i # first
      <4>1. /\ i - 1 \in first..last /\ i - 1 \in Nat /\ (i - 1) + 1 + w <= Len(data)
            /\ (i - 1) + 1 = i
        BY <3>2
      <4>2. g[i - 1] = Hash(WindowAt(data, w, i - 1))
        BY <4>1
      <4> DEFINE j == i - 1
      <4> HIDE DEF j, g
      <4>3. j \in Nat /\ j + 1 + w <= Len(data) /\ j + 1 = i /\ g[i - 1] = Hash(WindowAt(data, w, j))
        BY <4>1, <4>2 DEF j
      <4>4. Slide(Hash(WindowAt(data, w, j)), w, data[j + 1], data[(j + 1) + w])
              = Hash(WindowAt(data, w, j + 1))
        BY <4>3, <1>1
      <4> QED
        BY <3>2, <4>3, <4>4
    <3> QED
      BY <3>1, <3>2
  <2> QED
    BY <2>1
<1>3. L = F(L)
  <2> HIDE DEF g, F
  <2> QED
    BY <1>2, Zenon
<1>4. Lane(data, w, first, last) = L
  BY DEF Lane
<1>5. ASSUME NEW i \in first..last
      PROVE  L[i] = IF i = first THEN Hash(WindowAt(data, w, first))
                    ELSE Slide(L[i - 1], w, data[i], data[i + w])
  <2> HIDE DEF L
  <2> QED
    BY <1>3 DEF WindowAt
<1> HIDE DEF L, F, g
<1> DEFINE S == {j \in Nat : first + j <= last => L[first + j] = Hash(WindowAt(data, w, first + j))}
<1>6. 0 \in S
  <2> SUFFICES ASSUME first + 0 <= last PROVE L[first + 0] = Hash(WindowAt(data, w, first + 0))
    OBVIOUS
  <2>1. first + 0 = first /\ first \in first..last
    OBVIOUS
  <2> QED
    BY <2>1, <1>5
<1>7. ASSUME NEW j \in S PROVE j + 1 \in S
  <2> SUFFICES ASSUME first + (j + 1) <= last
               PROVE  L[first + (j + 1)] = Hash(WindowAt(data, w, first + (j + 1)))
    OBVIOUS
  <2> DEFINE i == first + j
  <2>1. /\ j \in Nat /\ i \in Nat /\ i <= last /\ first + (j + 1) = i + 1
        /\ i + 1 \in first..last /\ i + 1 # first /\ (i + 1) - 1 = i
        /\ i + 1 + w <= Len(data)
    OBVIOUS
  <2>2. L[i] = Hash(WindowAt(data, w, i))
    BY <2>1
  <2> HIDE DEF i
  <2>3. L[i + 1] = Slide(L[i], w, data[i + 1], data[(i + 1) + w])
    BY <2>1, <1>5
  <2> QED
    BY <2>1, <2>2, <2>3, <1>1
<1>8. S \in SUBSET Nat
  OBVIOUS
<1>9. \A j \in Nat : j \in S
  <2> HIDE DEF S
  <2> QED
    BY <1>6, <1>7, <1>8, Induction
<1>10. ASSUME NEW i \in first..last PROVE L[i] = Hash(WindowAt(data, w, i))
  <2>1. i - first \in Nat /\ first + (i - first) = i /\ first + (i - first) <= last
    OBVIOUS
  <2>2. L[first + (i - first)] = Hash(WindowAt(data, w, first + (i - first)))
    BY <2>1, <1>9
  <2> QED
    BY <2>1, <2>2
<1> QED
  BY <1>4, <1>10

\* BatchRoll gives the checksums of all windows of its data.
LEMMA BatchIsHash ==
    ASSUME pol \in Moduli, NEW data \in Seq(Byte), NEW w \in 1..Len(data)
    PROVE  BatchRoll(data, w)
             = [i \in 0..(Len(data) - w) |-> Hash(SubSeq(data, i + 1, i + w))]
<1> DEFINE m  == Len(data) - w
           h  == half(m)
           la == IF h > m THEN m ELSE h - 1
           sumsA == Lane(data, w, 0, la)
           sumsB == Lane(data, w, h, m)
<1>1. m \in Nat /\ w \in Nat \ {0} /\ m + w = Len(data) /\ Len(data) \in Nat
  OBVIOUS
<1>2. h \in Nat /\ h >= 1
  <2> HIDE DEF m
  <2>1. (m + 2) \div 2 \in Nat /\ (m + 2) \div 2 >= 1
    BY <1>1
  <2> QED
    BY <2>1 DEF half
<1> HIDE DEF m, h
<1>3. la \in Int /\ la <= m
  BY <1>1, <1>2
<1>4. BatchRoll(data, w) = [i \in 0..m |-> IF i < h \/ h > m THEN sumsA[i] ELSE sumsB[i]]
  BY DEF BatchRoll, m, h
<1>5. \A i \in 0..la : sumsA[i] = Hash(WindowAt(data, w, i))
  <2>1. 0 \in Nat /\ la + w <= Len(data)
    BY <1>1, <1>3
  <2> HIDE DEF la
  <2> QED
    BY <1>1, <1>3, <2>1, LaneIsHash
<1>6. \A i \in h..m : sumsB[i] = Hash(WindowAt(data, w, i))
  <2>1. m \in Int /\ m + w <= Len(data)
    BY <1>1
  <2> QED
    BY <1>1, <1>2, <2>1, LaneIsHash
<1>7. ASSUME NEW i \in 0..m
      PROVE  (IF i < h \/ h > m THEN sumsA[i] ELSE sumsB[i]) = Hash(SubSeq(data, i + 1, i + w))
  <2>1. CASE i < h \/ h > m
    <3>1. i \in 0..la
      BY <2>1, <1>1, <1>2
    <3> HIDE DEF sumsA, sumsB
    <3> QED
      BY <2>1, <3>1, <1>5 DEF WindowAt
  <2>2. CASE ~ (i < h \/ h > m)
    <3>1. i \in h..m
      BY <2>2, <1>1, <1>2
    <3> HIDE DEF sumsA, sumsB
    <3> QED
      BY <2>2, <3>1, <1>6 DEF WindowAt
  <2> QED
    BY <2>1, <2>2
<1> HIDE DEF sumsA, sumsB
<1>8. BatchRoll(data, w) = [i \in 0..m |-> Hash(SubSeq(data, i + 1, i + w))]
  BY <1>4, <1>7
<1> QED
  BY <1>8 DEF m


-----------------------------------------------------------------------------
(* The window's remainder.                                                 *)

\* w as one polynomial.
JoinedOf(w) == UNION {{ByteWidth * (Len(w) - i) + j : j \in w[i]} : i \in 1..Len(w)}

LEMMA JoinedAppend ==
    ASSUME pol \in Moduli, NEW w \in Seq(Byte), NEW c \in Byte
    PROVE  JoinedOf(Append(w, c)) = Shift(JoinedOf(w), ByteWidth) \union c
<1> DEFINE v == Append(w, c)
           m == Len(w)
           J == JoinedOf(w)
           K == JoinedOf(v)
<1>1. m \in Nat /\ Len(v) = m + 1 /\ v[m + 1] = c /\ \A i \in 1..m : v[i] = w[i]
  OBVIOUS
<1>2. ByteWidth \in Nat /\ \A i \in 1..m : w[i] \in Byte
  BY Sizes
<1>3. \A b \in Byte : \A j \in b : j \in Nat
  BY Sizes
<1>4. /\ \A x : x \in J <=> \E i \in 1..m : \E j \in w[i] : x = ByteWidth * (m - i) + j
      /\ \A x : x \in K <=> \E i \in 1..(m + 1) : \E j \in v[i] : x = ByteWidth * ((m + 1) - i) + j
  <2>1. \A x : x \in J <=> \E i \in 1..m : \E j \in w[i] : x = ByteWidth * (m - i) + j
    BY DEF JoinedOf
  <2>2. \A x : x \in K <=> \E i \in 1..Len(v) : \E j \in v[i] : x = ByteWidth * (Len(v) - i) + j
    <3> HIDE DEF v
    <3> QED
      BY DEF JoinedOf
  <2> QED
    BY <2>1, <2>2, <1>1
<1> HIDE DEF v, J, K, m
<1>5. ASSUME NEW i \in 1..m, NEW j \in w[i]
      PROVE  /\ ByteWidth * ((m + 1) - i) + j = (ByteWidth * (m - i) + j) + ByteWidth
             /\ ByteWidth * (m - i) + j \in Int
  <2>1. i \in Int /\ j \in Int /\ m - i \in Int
    BY <1>1, <1>2, <1>3
  <2>2. ByteWidth * ((m + 1) - i) = ByteWidth * (m - i) + ByteWidth /\ ByteWidth * (m - i) \in Int
    BY <1>1, <1>2, <2>1
  <2> QED
    BY <1>2, <2>1, <2>2
<1>6. ASSUME NEW j \in c PROVE ByteWidth * ((m + 1) - (m + 1)) + j = j
  <2>1. j \in Nat
    BY <1>3
  <2> QED
    BY <1>1, <1>2, <2>1
<1>7. ASSUME NEW x \in K PROVE x \in Shift(J, ByteWidth) \union c
  <2>1. PICK i \in 1..(m + 1) : \E j \in v[i] : x = ByteWidth * ((m + 1) - i) + j
    BY <1>4
  <2>2. PICK j \in v[i] : x = ByteWidth * ((m + 1) - i) + j
    BY <2>1
  <2>3. CASE i = m + 1
    BY <2>2, <2>3, <1>1, <1>6
  <2>4. CASE i # m + 1
    <3>1. i \in 1..m
      BY <2>4, <1>1
    <3>2. j \in w[i]
      BY <3>1, <1>1
    <3>3. ByteWidth * (m - i) + j \in J
      BY <3>1, <3>2, <1>4
    <3>4. x = (ByteWidth * (m - i) + j) + ByteWidth
      BY <2>2, <3>1, <3>2, <1>5
    <3> QED
      BY <3>3, <3>4 DEF Shift
  <2> QED
    BY <2>3, <2>4
<1>8. ASSUME NEW x \in Shift(J, ByteWidth) PROVE x \in K
  <2>1. PICK y \in J : x = y + ByteWidth
    BY DEF Shift
  <2>2. PICK i \in 1..m : \E j \in w[i] : y = ByteWidth * (m - i) + j
    BY <1>4
  <2>3. PICK j \in w[i] : y = ByteWidth * (m - i) + j
    BY <2>2
  <2>4. x = ByteWidth * ((m + 1) - i) + j
    BY <2>1, <2>3, <1>5
  <2>5. i \in 1..(m + 1) /\ j \in v[i]
    BY <1>1, <2>2, <2>3
  <2> QED
    BY <2>4, <2>5, <1>4
<1>9. ASSUME NEW x \in c PROVE x \in K
  <2>1. m + 1 \in 1..(m + 1) /\ x \in v[m + 1]
    BY <1>1
  <2>2. x = ByteWidth * ((m + 1) - (m + 1)) + x
    BY <1>6
  <2> QED
    BY <2>1, <2>2, <1>4
<1> QED
  BY <1>7, <1>8, <1>9 DEF K, J, v

\* The window and its checksum differ by a multiple of pol.
LEMMA HashIsResidue ==
    ASSUME pol \in Moduli, Deg(pol) <= Width - ByteWidth, NEW w \in Seq(Byte)
    PROVE  /\ Hash(w) \in Residues
           /\ JoinedOf(w) \in SUBSET Nat /\ \A j \in JoinedOf(w) : j < ByteWidth * Len(w)
           /\ \E q \in Poly : Add(JoinedOf(w), Hash(w)) = Times(q, pol)
<1> DEFINE P(v) == /\ Hash(v) \in Residues
                   /\ JoinedOf(v) \in SUBSET Nat /\ \A j \in JoinedOf(v) : j < ByteWidth * Len(v)
                   /\ \E q \in Poly : Add(JoinedOf(v), Hash(v)) = Times(q, pol)
           S == {m \in Nat : \A v \in Seq(Byte) : Len(v) = m => P(v)}
           k == Deg(pol)
<1>1. /\ Width \in Nat /\ ByteWidth \in Nat /\ k \in Nat /\ pol \in Pol /\ pol # {}
      /\ pol \in Poly /\ k + ByteWidth <= Width
  <2>1. /\ Width \in Nat /\ ByteWidth \in Nat /\ k \in Nat /\ pol \in Pol /\ pol # {}
        /\ pol \in Poly
    BY Sizes, PolIsPoly
  <2> HIDE DEF k
  <2>2. k <= Width - ByteWidth
    BY DEF k
  <2> QED
    BY <2>1, <2>2
<1>2. {} \in Poly
  BY BoundedPoly
<1>3. 0 \in S
  <2> SUFFICES ASSUME NEW v \in Seq(Byte), Len(v) = 0 PROVE P(v)
    OBVIOUS
  <2>1. v = <<>>
    OBVIOUS
  <2>2. Hash(v) = {} /\ {} \in Residues
    BY <2>1, HashNone DEF Zero, Residues, Pol
  <2>3. JoinedOf(v) = {}
    BY DEF JoinedOf
  <2>4. Add({}, {}) = Times({}, pol)
    BY TimesNone, AddRules
  <2> QED
    BY <2>2, <2>3, <2>4, <1>2
<1>4. ASSUME NEW m \in S PROVE m + 1 \in S
  <2> SUFFICES ASSUME NEW v \in Seq(Byte), Len(v) = m + 1 PROVE P(v)
    OBVIOUS
  <2>1. m \in Nat
    OBVIOUS
  <2> DEFINE u == SubSeq(v, 1, m)
             c == v[m + 1]
  <2>2. u \in Seq(Byte) /\ Len(u) = m /\ c \in Byte /\ v = Append(u, c)
    BY <2>1, LastByte
  <2> HIDE DEF u, c
  <2>3. P(u)
    BY <2>2
  <2> HIDE DEF S
  <2> DEFINE h == Hash(u)
             J == JoinedOf(u)
             H == Horner(h, c)
  <2>4. PICK q \in Poly : Add(J, h) = Times(q, pol)
    BY <2>3
  <2>5. h \in Residues /\ J \in SUBSET Nat /\ \A j \in J : j < ByteWidth * m
    BY <2>2, <2>3
  <2>6. c \in Pol /\ \A i \in c : i \in Nat /\ i < ByteWidth
    BY <2>2, Sizes
  <2>7. Hash(v) = H /\ H \in Residues
    <3>1. Hash(v) = H
      BY <2>2, HashAppend
    <3>2. H \in Residues
      BY <2>2, <2>5, HornerSum
    <3> QED
      BY <3>1, <3>2
  <2>8. JoinedOf(v) = Shift(J, ByteWidth) \union c
    BY <2>2, JoinedAppend
  <2> HIDE DEF h, J
  <2> DEFINE Y == Shl(h, ByteWidth) \union c
             r == Div(Y, pol)
  <2>9. Shl(h, ByteWidth) = Shift(h, ByteWidth) /\ Shl(h, ByteWidth) \in Pol
    <3>1. h \in Pol /\ \A i \in h : i \in Nat /\ i < k
      BY <2>5, PolIsPoly DEF Residues
    <3> HIDE DEF k
    <3>2. \A i \in h : i + ByteWidth < Width
      BY <3>1, <1>1
    <3> QED
      BY <3>1, <3>2, <1>1, ShlFits
  <2>10. Y \in Pol
    BY <2>6, <2>9 DEF Pol
  <2>11. H = Mod(Y, pol)
    BY DEF Horner
  <2>12. r \in Poly /\ Add(Y, H) = Times(r, pol)
    <3> HIDE DEF Y, H
    <3> QED
      BY <1>1, <2>10, <2>11, Division, PolIsPoly
  <2>13. Shift(q, ByteWidth) \in Poly
    <3>1. Times({ByteWidth}, q) = Shift(q, ByteWidth)
      BY <1>1, TimesPower DEF Poly
    <3>2. {ByteWidth} \in Poly
      BY <1>1, FS_Singleton DEF Poly
    <3> QED
      BY <3>1, <3>2, TimesIsPoly
  <2>14. Add(Shift(J, ByteWidth), Shift(h, ByteWidth)) = Times(Shift(q, ByteWidth), pol)
    <3>1. Times(Shift(q, ByteWidth), pol) = Shift(Add(J, h), ByteWidth)
      BY <1>1, <2>4, TimesShift
    <3>2. h \in SUBSET Nat /\ J \in SUBSET Nat
      BY <2>5, PolIsPoly DEF Residues
    <3>3. \A i, j \in Nat : i + ByteWidth = j + ByteWidth => i = j
      BY <1>1
    <3>4. Shift(Add(J, h), ByteWidth) = Add(Shift(J, ByteWidth), Shift(h, ByteWidth))
      <4>1. ASSUME NEW A \in SUBSET Nat, NEW B \in SUBSET Nat
            PROVE  Shift(Add(A, B), ByteWidth) = Add(Shift(A, ByteWidth), Shift(B, ByteWidth))
        BY <3>3 DEF Shift, Add
      <4> QED
        BY <3>2, <4>1
    <3> QED
      BY <3>1, <3>4
  <2>15. /\ Shift(J, ByteWidth) \in SUBSET Nat
         /\ \A x \in Shift(J, ByteWidth) : ~ (x < ByteWidth) /\ x < ByteWidth * (m + 1)
    <3> DEFINE e == ByteWidth * m
    <3>1. ByteWidth * (m + 1) = e + ByteWidth /\ e \in Nat
      BY <1>1, <2>1
    <3>2. \A j \in J : j \in Nat /\ j < e
      BY <2>5
    <3> HIDE DEF e
    <3>3. \A j \in J : /\ j + ByteWidth \in Nat /\ ~ (j + ByteWidth < ByteWidth)
                       /\ j + ByteWidth < ByteWidth * (m + 1)
      BY <1>1, <3>1, <3>2
    <3> QED
      BY <3>3 DEF Shift
  <2>16. JoinedOf(v) \in SUBSET Nat /\ \A x \in JoinedOf(v) : x < ByteWidth * (m + 1)
    <3>1. \A x \in c : x < ByteWidth * (m + 1)
      <4> DEFINE e == ByteWidth * m
      <4>1. ByteWidth * (m + 1) = e + ByteWidth /\ e \in Nat
        BY <1>1, <2>1
      <4> HIDE DEF e
      <4> QED
        BY <1>1, <2>6, <4>1
    <3> QED
      BY <2>6, <2>8, <2>15, <3>1
  <2>17. /\ JoinedOf(v) = Add(Shift(J, ByteWidth), c)
         /\ Y = Add(Shift(h, ByteWidth), c)
    <3>1. Shift(J, ByteWidth) \intersect c = {}
      BY <2>6, <2>15
    <3>2. Shift(h, ByteWidth) \intersect c = {}
      <4>1. \A i \in h : i \in Nat
        BY <2>5, PolIsPoly DEF Residues
      <4>2. \A i \in h : ~ (i + ByteWidth < ByteWidth)
        BY <1>1, <4>1
      <4>3. \A x \in Shift(h, ByteWidth) : ~ (x < ByteWidth)
        BY <4>2 DEF Shift
      <4> QED
        BY <2>6, <4>3
    <3> QED
      BY <3>1, <3>2, <2>8, <2>9, AddRules
  <2> HIDE DEF Y, H, r
  <2> DEFINE s == Shift(q, ByteWidth)
  <2>18. Add(JoinedOf(v), H) = Times(Add(s, r), pol)
    <3>1. Times(Add(s, r), pol) = Add(Times(s, pol), Times(r, pol))
      BY <2>12, <2>13, <1>1, TimesSum
    <3> DEFINE A == Shift(J, ByteWidth)
               B == Shift(h, ByteWidth)
    <3>2. Times(s, pol) = Add(A, B) /\ Times(r, pol) = Add(Add(B, c), H)
      BY <2>12, <2>14, <2>17
    <3> HIDE DEF A, B
    <3>3. Add(Add(A, B), Add(Add(B, c), H)) = Add(Add(A, c), H)
      BY DEF Add
    <3> QED
      BY <3>1, <3>2, <3>3, <2>17 DEF A
  <2>19. Add(s, r) \in Poly
    BY <2>12, <2>13, SumOfPolys
  <2> QED
    BY <2>2, <2>7, <2>16, <2>18, <2>19
<1>5. S \in SUBSET Nat
  OBVIOUS
<1>6. \A m \in Nat : m \in S
  <2> HIDE DEF S
  <2> QED
    BY <1>3, <1>4, <1>5, Induction
<1>7. Len(w) \in S
  BY <1>6
<1> QED
  BY <1>7
-----------------------------------------------------------------------------
(* The digest.                                                             *)

IInv ==
    /\ pol \in Moduli
    /\ window \in Seq(Byte) /\ Len(window) <= MaxWindow
    /\ tabled = Len(window)
    /\ value = Hash(window)

LEMMA SamePol ==
    ASSUME pol' = pol, NEW w
    PROVE  window' = w => Hash(window)' = Hash(w)
  BY DEF Hash, Horner, Mod, DivMod

\* The bytes that Write can be called with.
LEMMA Written ==
    ASSUME window \in Seq(Byte), Len(window) <= MaxWindow,
           NEW m \in 1..(MaxWindow - Len(window)), NEW data \in [1..m -> Byte]
    PROVE  window \o data \in Seq(Byte) /\ Len(window \o data) <= MaxWindow
<1>1. data \in Seq(Byte) /\ Len(data) = m
  BY RabinKarpAssumption
<1>2. Len(window \o data) = Len(window) + m
  BY <1>1
<1> QED
  BY <1>1, <1>2, RabinKarpAssumption

\* IInv holds in every reachable state.
THEOREM Invariance == Spec => []IInv
<1>1. Init => IInv
  <2> SUFFICES ASSUME Init PROVE IInv
    OBVIOUS
  <2>1. pol \in Moduli /\ window = <<>> /\ tabled = 0 /\ value = Zero
    BY DEF Init
  <2> QED
    BY <2>1, HashNone, RabinKarpAssumption DEF IInv
<1>2. IInv /\ [Next]_vars => IInv'
  <2> SUFFICES ASSUME IInv, [Next]_vars PROVE IInv'
    OBVIOUS
  <2>0. /\ pol \in Moduli /\ window \in Seq(Byte) /\ Len(window) <= MaxWindow
        /\ tabled = Len(window) /\ value = Hash(window)
    BY DEF IInv
  <2>1. ASSUME NEW m \in 1..(MaxWindow - Len(window)), NEW data \in [1..m -> Byte], Write(data)
        PROVE  IInv'
    <3>1. /\ pol' = pol /\ window' = window \o data /\ value' = Hash(window')
          /\ tabled' = Len(window')
      BY <2>1 DEF Write
    <3>2. window' \in Seq(Byte) /\ Len(window') <= MaxWindow
      BY <2>0, <3>1, Written
    <3>3. Hash(window)' = Hash(window')
      BY <3>1, SamePol
    <3> QED
      BY <2>0, <3>1, <3>2, <3>3 DEF IInv
  <2>2. ASSUME NEW c \in Byte, Roll(c) PROVE IInv'
    <3>1. /\ pol' = pol /\ tabled' = tabled /\ window # <<>>
          /\ window' = Append(Tail(window), c)
          /\ value' = Slide(value, tabled, window[1], c)
      BY <2>2 DEF Roll
    <3>2. window' \in Seq(Byte) /\ Len(window') = Len(window)
      BY <2>0, <3>1
    <3>3. Hash(window)' = Hash(window')
      BY <3>1, SamePol
    <3>4. value' = Hash(window')
      BY <2>0, <3>1, SlideIsHash
    <3> QED
      BY <2>0, <3>1, <3>2, <3>3, <3>4 DEF IInv
  <2>3. CASE Reset
    <3>1. pol' = pol /\ window' = <<>> /\ value' = Zero /\ tabled' = 0
      BY <2>3 DEF Reset
    <3>2. Hash(window)' = Hash(<<>>)
      BY <3>1, SamePol
    <3> QED
      BY <2>0, <3>1, <3>2, HashNone, RabinKarpAssumption DEF IInv
  <2>4. CASE UNCHANGED vars
    <3>1. pol' = pol /\ window' = window /\ value' = value /\ tabled' = tabled
      BY <2>4 DEF vars
    <3>2. Hash(window)' = Hash(window)
      BY <3>1, SamePol
    <3> QED
      BY <2>0, <3>1, <3>2 DEF IInv
  <2> QED
    BY <2>1, <2>2, <2>3, <2>4 DEF Next
<1> QED
  BY <1>1, <1>2, PTL DEF Spec

\* Whatever mix of Write, Roll and Reset led to a window, the checksum is the one that
\* writing it at once would give.
THEOREM RollIsWrite == Spec => []RollAgreesWithWrite
<1>1. IInv => RollAgreesWithWrite
  BY DEF IInv, RollAgreesWithWrite
<1> QED
  BY <1>1, Invariance, PTL

\* The checksum and the test of each window of the data are those of writing it, whichever
\* lane computed them and whatever window the digest's own tables are for.
THEOREM BatchIsWrite == Spec => []BatchAgrees
<1>1. IInv => BatchAgrees
  <2> SUFFICES ASSUME IInv, NEW w \in 1..Len(window)
               PROVE  LET positions == 0..(Len(window) - w)
                          sums      == [i \in positions |-> Hash(SubSeq(window, i + 1, i + w))]
                      IN  /\ BatchRoll(window, w) = sums
                          /\ \A bit \in 0..(Width - 1) :
                                 BatchBoundaries(window, w, {bit})
                                   = {i \in positions : bit \notin sums[i]}
    BY DEF BatchAgrees
  <2> DEFINE positions == 0..(Len(window) - w)
             sums      == [i \in positions |-> Hash(SubSeq(window, i + 1, i + w))]
  <2>1. BatchRoll(window, w) = sums
    BY BatchIsHash DEF IInv
  <2> HIDE DEF sums
  <2>2. ASSUME NEW bit \in 0..(Width - 1)
        PROVE  BatchBoundaries(window, w, {bit}) = {i \in positions : bit \notin sums[i]}
    <3>1. \A i : sums[i] \intersect {bit} = {} <=> bit \notin sums[i]
      OBVIOUS
    <3> QED
      BY <2>1, <3>1 DEF BatchBoundaries
  <2> QED
    BY <2>1, <2>2 DEF sums
<1> QED
  BY <1>1, Invariance, PTL

-----------------------------------------------------------------------------
(* The operators, against their definitions in mathematics.                *)

\* A product that is reckoned up to a bound of its powers.
LEMMA BoundedProduct ==
    ASSUME NEW q \in Poly, NEW p \in Poly, NEW m \in Nat, \A j \in Times(q, p) : j <= m
    PROVE  {j \in 0..m : Cardinality({i \in q : j - i \in p}) % 2 = 1} = Times(q, p)
<1> DEFINE T == {j \in 0..m : Odd({i \in q : j - i \in p})}
<1>1. \A j : j \in T <=> j \in Times(q, p)
  <2>1. \A j \in Times(q, p) : j \in 0..m
    BY DEF Times
  <2> QED
    BY <2>1 DEF Times
<1>2. T = Times(q, p)
  <2> HIDE DEF T
  <2> QED
    BY <1>1
<1> QED
  BY <1>2 DEF Odd

\* Rolled to or written, the checksum is the remainder of the window modulo pol.
THEOREM ValueIsRemainder == Spec => []ValueIsResidue
<1>1. IInv => ValueIsResidue
  <2> SUFFICES ASSUME IInv, Deg(pol) <= Width - ByteWidth
               PROVE  Deg(value) < Deg(pol) /\ Add(Joined, value) \in Multiples
    BY DEF IInv, ValueIsResidue, RollAgreesWithWrite
  <2> DEFINE J == Joined
             k == Deg(pol)
             N == ByteWidth * MaxWindow
             P == Add(J, value)
  <2>1. /\ pol \in Moduli /\ window \in Seq(Byte) /\ Len(window) <= MaxWindow
        /\ value = Hash(window)
    BY DEF IInv
  <2>2. /\ value \in Residues /\ J \in SUBSET Nat /\ \A j \in J : j < ByteWidth * Len(window)
        /\ \E q \in Poly : P = Times(q, pol)
    <3>1. J = JoinedOf(window)
      BY DEF Joined, JoinedOf
    <3> QED
      BY <2>1, <3>1, HashIsResidue
  <2>3. k \in Nat /\ ByteWidth \in Nat /\ pol \in Poly /\ pol # {} /\ MaxWindow \in Nat
    BY <2>1, Sizes, PolIsPoly, RabinKarpAssumption
  <2>4. value \in Poly /\ \A i \in value : i \in Nat /\ i < k
    BY <2>2, PolIsPoly DEF Residues
  <2>5. Deg(value) < k
    <3>1. CASE value = {}
      <4>1. Deg(value) = -1
        BY <3>1 DEF Deg, Zero
      <4> HIDE DEF k
      <4> QED
        BY <4>1, <2>3
    <3>2. CASE value # {}
      BY <2>4, <3>2, Highest
    <3> QED
      BY <3>1, <3>2
  <2>6. N \in Nat /\ \A j \in J : j < N
    <3> DEFINE l == Len(window)
               n == ByteWidth * l
    <3>1. l \in Nat /\ l <= MaxWindow
      BY <2>1
    <3> HIDE DEF l
    <3>2. n \in Nat /\ n <= N /\ N \in Nat
      BY <2>3, <3>1
    <3>3. \A j \in J : j \in Nat /\ j < n
      BY <2>2 DEF l
    <3> HIDE DEF n, N, J
    <3> QED
      BY <3>2, <3>3
  <2>7. PICK q \in Poly : P = Times(q, pol)
    BY <2>2
  <2>8. /\ q \in SUBSET (0..N) /\ \A j \in Times(q, pol) : j <= 2 * N
    <3>1. CASE q = {}
      BY <3>1, TimesNone
    <3>2. CASE q # {}
      <4> DEFINE e == Deg(q) + k
      <4>1. e \in P /\ (\A j \in P : j \in Nat /\ j <= e) /\ Deg(q) \in Nat
        BY <2>3, <2>7, <3>2, TimesTop, Highest DEF Times
      <4>2. e \in J
        <5>1. ~ (e < k)
          <6> HIDE DEF k
          <6> QED
            BY <2>3, <4>1
        <5> HIDE DEF e, J
        <5> QED
          BY <2>4, <4>1, <5>1, AddIsXor
      <4>3. e < N /\ e \in Nat
        BY <2>2, <2>6, <4>2
      <4>4. \A i \in q : i \in Nat /\ i <= Deg(q)
        BY <3>2, Highest DEF Poly
      <4> HIDE DEF P, N, k, J
      <4>5. \A i \in q : i \in 0..N
        BY <2>3, <2>6, <4>1, <4>3, <4>4
      <4> HIDE DEF e
      <4>6. \A j \in P : j <= 2 * N
        BY <2>6, <4>1, <4>3
      <4> QED
        BY <2>7, <4>5, <4>6
    <3> QED
      BY <3>1, <3>2
  <2>9. {j \in 0..(2 * N) : Cardinality({i \in q : j - i \in pol}) % 2 = 1} = P
    <3> HIDE DEF N, P
    <3>1. 2 * N \in Nat
      BY <2>6
    <3> QED
      BY <2>3, <2>7, <2>8, <3>1, BoundedProduct
  <2>10. 2 * ByteWidth * MaxWindow = 2 * N
    BY <2>3
  <2>11. P \in Multiples
    <3> HIDE DEF P
    <3>1. P = {j \in 0..(2 * ByteWidth * MaxWindow) : Cardinality({i \in q : j - i \in pol}) % 2 = 1}
      BY <2>9, <2>10
    <3> QED
      BY <2>8, <3>1 DEF Multiples
  <2> QED
    BY <2>5, <2>11
<1> QED
  BY <1>1, Invariance, PTL

\* The product of two words, of any degree.
LEMMA ProductIsTimes ==
    ASSUME NEW x \in Pol, NEW y \in Pol
    PROVE  /\ Product(x, y) = Times(x, y) /\ Product(x, y) = Times(y, x)
           /\ mul(x, y) = Product(x, y) \intersect 0..(Width - 1)
<1>1. x \in Poly /\ y \in Poly /\ Width \in Nat \ {0}
  BY PolIsPoly
<1>2. \A j \in Times(y, x) : j <= 2 * Width
  <2>1. ASSUME NEW j \in Times(y, x) PROVE j <= 2 * Width
    <3>1. CASE y = {}
      BY <3>1, TimesNone
    <3>2. CASE x = {}
      BY <1>1, <3>2, TimesNone, TimesCommutes
    <3>3. CASE x # {} /\ y # {}
      <4>1. j <= Deg(y) + Deg(x) /\ j \in Nat
        BY <1>1, <3>3, TimesTop DEF Times
      <4>2. Deg(y) \in y /\ Deg(x) \in x
        BY <1>1, <3>3, Highest
      <4>3. Deg(y) \in 0..(Width - 1) /\ Deg(x) \in 0..(Width - 1)
        BY <4>2, PolIsPoly
      <4> QED
        BY <1>1, <4>1, <4>3
    <3> QED
      BY <3>1, <3>2, <3>3
  <2> QED
    BY <2>1
<1>3. Product(x, y) = Times(y, x)
  <2>1. 2 * Width \in Nat
    BY <1>1
  <2> QED
    BY <1>1, <1>2, <2>1, BoundedProduct DEF Product
<1>4. Times(x, y) = Times(y, x)
  BY <1>1, TimesCommutes
<1>5. mul(x, y) = Times(y, x) \intersect 0..(Width - 1)
  BY <1>1 DEF mul, Times, Odd
<1> QED
  BY <1>3, <1>4, <1>5

\* Mul is the product, or it panics and the product does not fit.
LEMMA MulIsProduct ==
    ASSUME NEW x \in Pol, NEW y \in Pol, y # {}
    PROVE  Mul(x, y) = IF Product(x, y) \subseteq 0..(Width - 1) THEN Product(x, y) ELSE Overflow
<1> DEFINE P == Product(x, y)
           M == mul(x, y)
<1>1. P = Times(x, y) /\ P = Times(y, x) /\ M = P \intersect 0..(Width - 1)
  BY ProductIsTimes
<1>2. x \in Poly /\ y \in Poly /\ M \in Pol
  BY <1>1, PolIsPoly DEF Pol
<1>3. (x \in {Zero, One} \/ y = One) => P \in Pol
  <2>1. ASSUME NEW z \in Pol PROVE Times({0}, z) = z
    <3>1. z \in SUBSET Nat
      BY PolIsPoly
    <3>2. Times({0}, z) = Shift(z, 0)
      BY <3>1, TimesPower
    <3>3. \A i \in z : i + 0 = i
      BY <3>1
    <3> QED
      BY <3>2, <3>3 DEF Shift
  <2>2. Times({}, y) = {} /\ {} \in Pol
    BY TimesNone DEF Pol
  <2> HIDE DEF P
  <2>3. CASE x = Zero
    BY <1>1, <2>2, <2>3 DEF Zero
  <2>4. CASE x = One
    BY <1>1, <2>1, <2>4 DEF One
  <2>5. CASE y = One
    BY <1>1, <2>1, <2>5 DEF One
  <2> QED
    BY <2>3, <2>4, <2>5
<1> HIDE DEF P, M
<1>4. CASE P \subseteq 0..(Width - 1)
  <2>1. M = P /\ P \in Pol
    BY <1>1, <1>4 DEF Pol
  <2>2. Add(M, {}) = Times(x, y) /\ \A i \in {} : i < Deg(y)
    <3>1. Add(M, {}) = M
      BY AddRules
    <3> QED
      BY <1>1, <2>1, <3>1
  <2>3. Div(M, y) = x
    BY <1>2, <2>2, OneRemainder
  <2>4. ~ mulOverflows(x, y)
    BY <2>3 DEF mulOverflows, M
  <2> QED
    BY <1>4, <2>1, <2>4 DEF Mul, P, M
<1>5. CASE ~ (P \subseteq 0..(Width - 1))
  <2>1. P \notin Pol
    BY <1>5 DEF Pol
  <2>2. x \notin {Zero, One} /\ y \notin {Zero, One}
    BY <1>3, <2>1 DEF Zero
  <2>3. Div(M, y) # x
    <3> SUFFICES ASSUME Div(M, y) = x PROVE FALSE
      OBVIOUS
    <3> DEFINE r == Mod(M, y)
    <3>1. r \in Pol /\ Add(M, r) = Times(x, y)
      BY <1>2, Division
    <3> HIDE DEF r
    <3>2. P \in Pol
      BY <1>1, <1>2, <3>1, PolIsPoly
    <3> QED
      BY <2>1, <3>2
  <2>4. mulOverflows(x, y)
    BY <2>2, <2>3 DEF mulOverflows, M
  <2> QED
    BY <1>5, <2>4 DEF Mul, P
<1> QED
  BY <1>4, <1>5 DEF P

\* Dividing the truncated product back finds every overflow and none that did not happen.
THEOREM OverflowNoticed == Spec => []OverflowIsNoticed
<1>1. IInv => OverflowIsNoticed
  <2>1. ASSUME pol \in Moduli, NEW x \in Pol
        PROVE  Mul(x, pol) = IF Product(x, pol) \subseteq 0..(Width - 1)
                             THEN Product(x, pol) ELSE Overflow
    <3>1. pol \in Pol /\ pol # {}
      BY <2>1, Sizes
    <3> QED
      BY <3>1, MulIsProduct
  <2> QED
    BY <2>1 DEF IInv, OverflowIsNoticed
<1> QED
  BY <1>1, Invariance, PTL

-----------------------------------------------------------------------------
(* GCD.                                                                    *)

\* Products do not depend on the order of their factors.
LEMMA TimesAssociates ==
    ASSUME NEW q \in Poly, NEW r \in Poly, NEW p \in Poly
    PROVE  Times(q, Times(r, p)) = Times(Times(q, r), p)
<1> DEFINE T == Times(r, p)
           same(z) == Times(z, T) = Times(Times(z, r), p)
           S == {m \in Nat : \A z \in Poly : (\A i \in z : i < m) => same(z)}
<1>1. T \in Poly /\ T \in SUBSET Nat /\ r \in SUBSET Nat
  BY TimesIsPoly DEF Poly
<1>2. 0 \in S
  <2> SUFFICES ASSUME NEW z \in Poly, \A i \in z : i < 0 PROVE same(z)
    OBVIOUS
  <2>1. z = {}
    BY DEF Poly
  <2> QED
    BY <2>1, TimesNone
<1>3. ASSUME NEW m \in S PROVE m + 1 \in S
  <2>1. m \in Nat /\ \A z \in Poly : (\A i \in z : i < m) => same(z)
    OBVIOUS
  <2> SUFFICES ASSUME NEW z \in Poly, \A i \in z : i < m + 1 PROVE same(z)
    BY <2>1
  <2> HIDE DEF S
  <2>2. \A i \in z : i \in Nat /\ (i # m => i < m)
    BY <2>1 DEF Poly
  <2>3. CASE m \notin z
    <3>1. \A i \in z : i < m
      BY <2>2, <2>3
    <3> QED
      BY <2>1, <3>1
  <2>4. CASE m \in z
    <3> DEFINE y == z \ {m}
    <3>1. y \in Poly /\ (\A i \in y : i < m)
      <4>1. y \in SUBSET z
        OBVIOUS
      <4>2. y \in Poly
        BY <4>1, PartOfPoly
      <4> QED
        BY <4>2, <2>2
    <3>2. z = Add(y, {m}) /\ {m} \in Poly
      BY <2>1, <2>4, FS_Singleton DEF Add, Poly
    <3> HIDE DEF y
    <3>3. same(y)
      BY <2>1, <3>1
    <3>4. Times(z, T) = Add(Times(y, T), Shift(T, m))
      BY <1>1, <2>1, <3>1, <3>2, TimesSum, TimesPower
    <3>5. Times(z, r) = Add(Times(y, r), Shift(r, m))
      BY <1>1, <2>1, <3>1, <3>2, TimesSum, TimesPower
    <3>6. Times(y, r) \in Poly /\ Shift(r, m) \in Poly
      <4>1. Times({m}, r) = Shift(r, m)
        BY <1>1, <2>1, TimesPower
      <4> QED
        BY <3>1, <3>2, <4>1, TimesIsPoly
    <3>7. Times(Times(z, r), p) = Add(Times(Times(y, r), p), Times(Shift(r, m), p))
      BY <3>5, <3>6, TimesSum
    <3>8. Times(Shift(r, m), p) = Shift(T, m)
      BY <2>1, TimesShift
    <3> QED
      BY <3>3, <3>4, <3>7, <3>8
  <2> QED
    BY <2>3, <2>4
<1>4. \A m \in Nat : m \in S
  <2>1. S \in SUBSET Nat
    OBVIOUS
  <2> HIDE DEF S
  <2> QED
    BY <1>2, <1>3, <2>1, Induction
<1>5. same(q)
  <2>1. CASE q = {}
    BY <2>1, TimesNone
  <2>2. CASE q # {}
    <3>1. Deg(q) \in Nat /\ \A i \in q : i \in Nat /\ i <= Deg(q)
      BY <2>2, Highest DEF Poly
    <3>2. Deg(q) + 1 \in S
      BY <1>4, <3>1
    <3>3. \A i \in q : i < Deg(q) + 1
      BY <3>1
    <3> QED
      BY <3>2, <3>3
  <2> QED
    BY <2>1, <2>2
<1> QED
  BY <1>5

\* z is a multiple of c.
Multiple(c, z) == \E q \in Poly : Times(q, c) = z

LEMMA MultipleRules ==
    ASSUME NEW c \in Poly
    PROVE  /\ Multiple(c, {}) /\ Multiple(c, c)
           /\ \A y, z : Multiple(c, y) /\ Multiple(c, z) => Multiple(c, Add(y, z))
           /\ \A q \in Poly : \A z : Multiple(c, z) => Multiple(c, Times(q, z))
<1>1. Multiple(c, {})
  <2>1. {} \in Poly
    BY BoundedPoly
  <2> QED
    BY <2>1, TimesNone DEF Multiple
<1>2. Multiple(c, c)
  <2>1. Times({0}, c) = Shift(c, 0) /\ {0} \in Poly /\ c \in SUBSET Nat
    <3>1. c \in SUBSET Nat /\ {0} \in Poly
      BY FS_Singleton DEF Poly
    <3>2. Times({0}, c) = Shift(c, 0)
      BY <3>1, TimesPower
    <3> QED
      BY <3>1, <3>2
  <2>2. \A i \in c : i + 0 = i
    BY <2>1
  <2>3. Shift(c, 0) = c
    BY <2>2 DEF Shift
  <2> QED
    BY <2>1, <2>3 DEF Multiple
<1>3. ASSUME NEW y, NEW z, Multiple(c, y), Multiple(c, z) PROVE Multiple(c, Add(y, z))
  <2>1. PICK q \in Poly : Times(q, c) = y
    BY <1>3 DEF Multiple
  <2>2. PICK r \in Poly : Times(r, c) = z
    BY <1>3 DEF Multiple
  <2>3. Times(Add(q, r), c) = Add(y, z) /\ Add(q, r) \in Poly
    BY <2>1, <2>2, TimesSum, SumOfPolys
  <2> QED
    BY <2>3 DEF Multiple
<1>4. ASSUME NEW q \in Poly, NEW z, Multiple(c, z) PROVE Multiple(c, Times(q, z))
  <2>1. PICK r \in Poly : Times(r, c) = z
    BY <1>4 DEF Multiple
  <2>2. Times(q, z) = Times(Times(q, r), c) /\ Times(q, r) \in Poly
    BY <2>1, TimesAssociates, TimesIsPoly
  <2> QED
    BY <2>2 DEF Multiple
<1> QED
  BY <1>1, <1>2, <1>3, <1>4

\* A divisor in a word is a divisor.
LEMMA DividesIsMultiple ==
    ASSUME NEW d \in Pol, NEW p \in Pol
    PROVE  Divides(d, p) <=> Multiple(d, p)
<1>1. d \in Poly /\ p \in Poly /\ {} \in Pol /\ {} \in Poly /\ Width \in Nat \ {0}
  BY PolIsPoly, BoundedPoly DEF Pol
<1>2. ASSUME Divides(d, p) PROVE Multiple(d, p)
  <2>1. PICK q \in Pol : Product(d, q) = p
    BY <1>2 DEF Divides
  <2>2. Times(q, d) = p /\ q \in Poly
    BY <2>1, ProductIsTimes, PolIsPoly
  <2> QED
    BY <2>2 DEF Multiple
<1>3. ASSUME Multiple(d, p) PROVE Divides(d, p)
  <2>1. PICK q \in Poly : Times(q, d) = p
    BY <1>3 DEF Multiple
  <2>2. \E r \in Pol : Times(r, d) = p
    <3>1. CASE q = {}
      BY <1>1, <2>1, <3>1
    <3>2. CASE d = {}
      <4>1. Times(q, d) = Times({}, d)
        BY <1>1, <3>2, TimesNone, TimesCommutes
      <4> QED
        BY <1>1, <2>1, <4>1
    <3>3. CASE q # {} /\ d # {}
      <4>1. Deg(q) + Deg(d) \in p /\ Deg(q) \in Nat /\ Deg(d) \in Nat
        BY <1>1, <2>1, <3>3, TimesTop, Highest
      <4>2. Deg(q) + Deg(d) \in 0..(Width - 1)
        BY <4>1, PolIsPoly
      <4>3. \A i \in q : i \in Nat /\ i <= Deg(q)
        BY <3>3, Highest DEF Poly
      <4>4. \A i \in q : i \in 0..(Width - 1)
        BY <1>1, <4>1, <4>2, <4>3
      <4> QED
        BY <2>1, <4>4 DEF Pol
    <3> QED
      BY <3>1, <3>2, <3>3
  <2>3. PICK r \in Pol : Times(r, d) = p
    BY <2>2
  <2>4. Product(d, r) = p
    BY <2>3, ProductIsTimes
  <2> QED
    BY <2>4 DEF Divides
<1> QED
  BY <1>2, <1>3

\* The equation of `gcd'.
Euclid(f, p) ==
    IF p[2] = Zero THEN p[1]
    ELSE IF p[1] = Zero THEN p[2]
    ELSE IF Deg(p[1]) < Deg(p[2]) THEN f[<<p[1], Mod(p[2], p[1])>>]
    ELSE f[<<p[2], Mod(p[1], p[2])>>]

Gcds == CHOOSE f : f = [p \in Pol \X Pol |-> Euclid(f, p)]

LEMMA GCDIsGcds == ASSUME NEW x, NEW f PROVE GCD(x, f) = Gcds[<<x, f>>]
  BY DEF GCD, Gcds, Euclid

\* One of a pair has a degree below m.
Low(m) == {p \in Pol \X Pol : (\A i \in p[1] : i < m) \/ (\A i \in p[2] : i < m)}

\* What Euclid's step leads to: the divisor and a remainder of a lower degree.
LEMMA EuclidGoesDown ==
    ASSUME NEW m \in Nat, NEW y \in Pol, NEW z \in Pol, y # {}, z # {}, Deg(z) <= Deg(y),
           <<y, z>> \in Low(m + 1) \/ <<z, y>> \in Low(m + 1)
    PROVE  <<z, Mod(y, z)>> \in Low(m)
<1>1. y \in Poly /\ z \in Poly
  BY PolIsPoly
<1>2. Deg(y) \in y /\ Deg(z) \in z /\ Deg(y) \in Nat /\ Deg(z) \in Nat
  BY <1>1, Highest
<1>3. (\A i \in y : i < m + 1) \/ (\A i \in z : i < m + 1)
  BY DEF Low
<1>4. Deg(z) <= m
  BY <1>2, <1>3
<1>5. Mod(y, z) \in Pol /\ \A i \in Mod(y, z) : i \in Nat /\ i < Deg(z)
  BY Division, PolIsPoly
<1>6. \A i \in Mod(y, z) : i < m
  BY <1>2, <1>4, <1>5
<1> DEFINE r == Mod(y, z)
<1> HIDE DEF r
<1>7. r \in Pol /\ \A i \in r : i < m
  BY <1>5, <1>6 DEF r
<1>8. <<z, r>> \in Low(m)
  BY <1>7 DEF Low
<1> QED
  BY <1>8 DEF r

\* Euclid(f, p) asks f for a lower pair only.
LEMMA EuclidAsksBelow ==
    ASSUME NEW m \in Nat, NEW p \in Low(m + 1), NEW f, NEW g, \A o \in Low(m) : f[o] = g[o]
    PROVE  Euclid(f, p) = Euclid(g, p)
<1>1. p \in Pol \X Pol /\ p = <<p[1], p[2]>> /\ p[1] \in Pol /\ p[2] \in Pol
  BY DEF Low
<1> DEFINE y == p[1]
           z == p[2]
<1>2. y \in Pol /\ z \in Pol /\ <<y, z>> \in Low(m + 1)
  BY <1>1
<1> HIDE DEF y, z
<1>3. CASE y = {} \/ z = {}
  BY <1>3 DEF Euclid, Zero, y, z
<1>4. CASE y # {} /\ z # {}
  <2>1. Deg(y) \in Nat /\ Deg(z) \in Nat
    BY <1>2, <1>4, PolIsPoly, Highest
  <2>2. CASE Deg(y) < Deg(z)
    <3>1. <<y, Mod(z, y)>> \in Low(m)
      <4>1. Deg(y) <= Deg(z)
        BY <2>1, <2>2
      <4> QED
        BY <1>2, <1>4, <4>1, EuclidGoesDown
    <3> QED
      BY <2>2, <3>1, <1>4 DEF Euclid, Zero, y, z
  <2>3. CASE ~ (Deg(y) < Deg(z))
    <3>1. <<z, Mod(y, z)>> \in Low(m)
      <4>1. Deg(z) <= Deg(y)
        BY <2>1, <2>3
      <4> QED
        BY <1>2, <1>4, <4>1, EuclidGoesDown
    <3> QED
      BY <2>3, <3>1, <1>4 DEF Euclid, Zero, y, z
  <2> QED
    BY <2>2, <2>3
<1> QED
  BY <1>3, <1>4

\* GCD's recursion defines a function.
LEMMA GcdsExist == Gcds = [p \in Pol \X Pol |-> Euclid(Gcds, p)]
<1> DEFINE upTo(f, m) == f = [p \in Pol \X Pol |-> IF p \in Low(m) THEN Euclid(f, p) ELSE <<>>]
           S == {m \in Nat : \E f : upTo(f, m)}
<1>1. 0 \in S
  <2> DEFINE e == [p \in Pol \X Pol |-> <<>>]
             f == [p \in Pol \X Pol |-> IF p \in Low(0) THEN Euclid(e, p) ELSE <<>>]
  <2>1. ASSUME NEW p \in Low(0) PROVE Euclid(f, p) = Euclid(e, p)
    <3>1. p[1] \in Pol /\ p[2] \in Pol /\ ((\A i \in p[1] : i < 0) \/ (\A i \in p[2] : i < 0))
      BY DEF Low
    <3>2. p[1] = {} \/ p[2] = {}
      <4>1. \A z \in Pol : \A i \in z : i \in Nat
        BY PolIsPoly
      <4> QED
        BY <3>1, <4>1
    <3> HIDE DEF f, e
    <3> QED
      BY <3>2 DEF Euclid, Zero
  <2>2. upTo(f, 0)
    BY <2>1
  <2> HIDE DEF f
  <2> QED
    BY <2>2
<1>2. ASSUME NEW m \in S PROVE m + 1 \in S
  <2>1. m \in Nat
    OBVIOUS
  <2>2. PICK f : upTo(f, m)
    OBVIOUS
  <2> DEFINE g == [p \in Pol \X Pol |-> IF p \in Low(m + 1) THEN Euclid(f, p) ELSE <<>>]
  <2>3. \A p \in Low(m) : p \in Low(m + 1) /\ p \in Pol \X Pol
    <3>1. ASSUME NEW z \in Pol, \A i \in z : i < m PROVE \A i \in z : i < m + 1
      BY <2>1, <3>1, PolIsPoly
    <3> QED
      BY <3>1 DEF Low
  <2>4. \A p \in Low(m) : g[p] = f[p]
    BY <2>2, <2>3
  <2> HIDE DEF g
  <2>5. \A p \in Low(m + 1) : Euclid(g, p) = Euclid(f, p)
    BY <2>1, <2>4, EuclidAsksBelow
  <2>6. upTo(g, m + 1)
    BY <2>5 DEF g
  <2> HIDE DEF upTo
  <2> QED
    BY <2>1, <2>6
<1>3. \A m \in Nat : m \in S
  <2>1. S \in SUBSET Nat
    OBVIOUS
  <2> HIDE DEF S
  <2> QED
    BY <1>1, <1>2, <2>1, Induction
<1>4. PICK f : upTo(f, Width)
  <2>1. Width \in S
    BY <1>3, PolIsPoly
  <2> HIDE DEF upTo
  <2> QED
    BY <2>1
<1>5. \A p \in Pol \X Pol : p \in Low(Width)
  <2>1. ASSUME NEW z \in Pol, NEW i \in z PROVE i < Width
    <3>1. i \in 0..(Width - 1) /\ Width \in Nat
      BY PolIsPoly
    <3> QED
      BY <3>1
  <2> QED
    BY <2>1 DEF Low
<1>6. f = [p \in Pol \X Pol |-> Euclid(f, p)]
  <2>1. [p \in Pol \X Pol |-> IF p \in Low(Width) THEN Euclid(f, p) ELSE <<>>]
          = [p \in Pol \X Pol |-> Euclid(f, p)]
    BY <1>5
  <2> QED
    BY <1>4, <2>1, Zenon
<1> QED
  BY <1>6, Zenon DEF Gcds

\* A divisor of d divides z iff it divides the remainder.
LEMMA CommonWithRemainder ==
    ASSUME NEW c \in Poly, NEW z \in Pol, NEW d \in Pol, d # {}, Multiple(c, d)
    PROVE  Multiple(c, z) <=> Multiple(c, Mod(z, d))
<1> DEFINE r == Mod(z, d)
           t == Times(Div(z, d), d)
<1>1. Add(z, r) = t /\ Multiple(c, t)
  BY Division, MultipleRules, PolIsPoly
<1> HIDE DEF r, t
<1>2. Add(t, r) = z /\ Add(t, z) = r
  BY <1>1 DEF Add
<1> QED
  BY <1>1, <1>2, MultipleRules DEF r

\* GCD is the greatest common divisor: the divisors of it are the common divisors.
LEMMA GCDMultiples ==
    ASSUME NEW x \in Pol, NEW f \in Pol
    PROVE  /\ GCD(x, f) \in Pol
           /\ \A c \in Poly : Multiple(c, GCD(x, f)) <=> Multiple(c, x) /\ Multiple(c, f)
<1> DEFINE G == Gcds
           right(y, z) == /\ G[<<y, z>>] \in Pol
                          /\ \A c \in Poly : Multiple(c, G[<<y, z>>])
                                               <=> Multiple(c, y) /\ Multiple(c, z)
           S == {m \in Nat : \A y, z \in Pol : <<y, z>> \in Low(m) => right(y, z)}
<1>1. \A y, z \in Pol :
         G[<<y, z>>] = IF z = {} THEN y
                       ELSE IF y = {} THEN z
                       ELSE IF Deg(y) < Deg(z) THEN G[<<y, Mod(z, y)>>]
                       ELSE G[<<z, Mod(y, z)>>]
  <2>1. G = [p \in Pol \X Pol |-> Euclid(G, p)]
    BY GcdsExist
  <2> HIDE DEF G
  <2>2. \A y, z \in Pol : G[<<y, z>>] = Euclid(G, <<y, z>>)
    BY <2>1
  <2>3. ASSUME NEW y \in Pol, NEW z \in Pol
        PROVE  Euclid(G, <<y, z>>) = IF z = {} THEN y
                                     ELSE IF y = {} THEN z
                                     ELSE IF Deg(y) < Deg(z) THEN G[<<y, Mod(z, y)>>]
                                     ELSE G[<<z, Mod(y, z)>>]
    <3> DEFINE p == <<y, z>>
    <3>1. p[1] = y /\ p[2] = z
      OBVIOUS
    <3> HIDE DEF p
    <3>2. Euclid(G, p) = IF z = {} THEN y
                         ELSE IF y = {} THEN z
                         ELSE IF Deg(y) < Deg(z) THEN G[<<y, Mod(z, y)>>]
                         ELSE G[<<z, Mod(y, z)>>]
      BY <3>1, Zenon DEF Euclid, Zero
    <3> QED
      BY <3>2 DEF p
  <2>4. ASSUME NEW y \in Pol, NEW z \in Pol
        PROVE  G[<<y, z>>] = IF z = {} THEN y
                             ELSE IF y = {} THEN z
                             ELSE IF Deg(y) < Deg(z) THEN G[<<y, Mod(z, y)>>]
                             ELSE G[<<z, Mod(y, z)>>]
    <3>1. G[<<y, z>>] = Euclid(G, <<y, z>>)
      BY <2>2
    <3> QED
      BY <3>1, <2>3, Zenon
  <2> QED
    BY <2>4, Zenon
<1> HIDE DEF G
<1>2. ASSUME NEW y \in Pol, NEW z \in Pol, y = {} \/ z = {} PROVE right(y, z)
  <2>1. G[<<y, z>>] = IF z = {} THEN y ELSE z
    BY <1>1, <1>2
  <2>2. \A c \in Poly : Multiple(c, {})
    BY MultipleRules
  <2> QED
    BY <1>2, <2>1, <2>2
<1>3. ASSUME NEW m \in Nat, NEW y \in Pol, NEW z \in Pol, y # {}, z # {},
             <<y, z>> \in Low(m + 1), \A u, v \in Pol : <<u, v>> \in Low(m) => right(u, v)
      PROVE  right(y, z)
  <2>1. Deg(y) \in Nat /\ Deg(z) \in Nat
    BY <1>3, PolIsPoly, Highest
  <2>2. CASE Deg(y) < Deg(z)
    <3> DEFINE r == Mod(z, y)
    <3>1. <<y, r>> \in Low(m) /\ r \in Pol
      <4>1. Deg(y) <= Deg(z)
        BY <2>1, <2>2
      <4> QED
        BY <1>3, <4>1, EuclidGoesDown, Division
    <3>2. G[<<y, z>>] = G[<<y, r>>]
      BY <1>1, <1>3, <2>2
    <3>3. \A c \in Poly : Multiple(c, y) => (Multiple(c, z) <=> Multiple(c, r))
      BY <1>3, CommonWithRemainder
    <3> HIDE DEF r
    <3>4. right(y, r)
      BY <1>3, <3>1
    <3> QED
      BY <3>2, <3>3, <3>4
  <2>3. CASE ~ (Deg(y) < Deg(z))
    <3> DEFINE r == Mod(y, z)
    <3>1. <<z, r>> \in Low(m) /\ r \in Pol
      <4>1. Deg(z) <= Deg(y)
        BY <2>1, <2>3
      <4> QED
        BY <1>3, <4>1, EuclidGoesDown, Division
    <3>2. G[<<y, z>>] = G[<<z, r>>]
      BY <1>1, <1>3, <2>3
    <3>3. \A c \in Poly : Multiple(c, z) => (Multiple(c, y) <=> Multiple(c, r))
      BY <1>3, CommonWithRemainder
    <3> HIDE DEF r
    <3>4. right(z, r)
      BY <1>3, <3>1
    <3> QED
      BY <3>2, <3>3, <3>4
  <2> QED
    BY <2>2, <2>3
<1>4. 0 \in S
  <2> SUFFICES ASSUME NEW y \in Pol, NEW z \in Pol, <<y, z>> \in Low(0) PROVE right(y, z)
    OBVIOUS
  <2>1. (\A i \in y : i < 0) \/ (\A i \in z : i < 0)
    BY DEF Low
  <2>2. y = {} \/ z = {}
    BY <2>1, PolIsPoly
  <2> HIDE DEF right
  <2> QED
    BY <2>2, <1>2
<1>5. ASSUME NEW m \in S PROVE m + 1 \in S
  <2>1. m \in Nat /\ \A u, v \in Pol : <<u, v>> \in Low(m) => right(u, v)
    OBVIOUS
  <2> HIDE DEF right
  <2> SUFFICES ASSUME NEW y \in Pol, NEW z \in Pol, <<y, z>> \in Low(m + 1) PROVE right(y, z)
    BY <2>1
  <2> QED
    BY <2>1, <1>2, <1>3
<1>6. \A m \in Nat : m \in S
  <2>1. S \in SUBSET Nat
    OBVIOUS
  <2> HIDE DEF S
  <2> QED
    BY <1>4, <1>5, <2>1, Induction
<1>7. right(x, f)
  <2>1. Width \in S
    BY <1>6, PolIsPoly
  <2>2. \A i \in x : i < Width
    <3>1. \A i \in x : i \in 0..(Width - 1)
      BY PolIsPoly
    <3>2. Width \in Nat
      BY PolIsPoly
    <3> QED
      BY <3>1, <3>2
  <2>3. <<x, f>> \in Low(Width)
    BY <2>2 DEF Low
  <2> HIDE DEF right
  <2> QED
    BY <2>1, <2>3
<1> QED
  BY <1>7, GCDIsGcds DEF G

\* Whatever the polynomials, a zero one included, what divides GCD(x, f) is what divides
\* both of them (GCD, polynomials.go).
THEOREM GCDIsGreatest ==
    ASSUME NEW x \in Pol, NEW f \in Pol
    PROVE  /\ GCD(x, f) \in Pol
           /\ \A c \in Pol : Divides(c, GCD(x, f)) <=> Divides(c, x) /\ Divides(c, f)
<1>1. GCD(x, f) \in Pol
  BY GCDMultiples
<1>2. ASSUME NEW c \in Pol
      PROVE  Divides(c, GCD(x, f)) <=> Divides(c, x) /\ Divides(c, f)
  <2>1. c \in Poly
    BY PolIsPoly
  <2>2. Multiple(c, GCD(x, f)) <=> Multiple(c, x) /\ Multiple(c, f)
    BY <2>1, GCDMultiples
  <2> QED
    BY <1>1, <2>2, DividesIsMultiple
<1> QED
  BY <1>1, <1>2

-----------------------------------------------------------------------------
(* MulMod and qp.                                                          *)

\* y and z have the same remainder modulo g.
Congruent(y, z, g) == Multiple(g, Add(y, z))

LEMMA CongruentRules ==
    ASSUME NEW g \in Poly
    PROVE  /\ \A y : Congruent(y, y, g)
           /\ \A y, z : Congruent(y, z, g) => Congruent(z, y, g)
           /\ \A y, z, u : Congruent(y, z, g) /\ Congruent(z, u, g) => Congruent(y, u, g)
           /\ \A y, z, u, v : Congruent(y, z, g) /\ Congruent(u, v, g)
                                => Congruent(Add(y, u), Add(z, v), g)
           /\ \A q, y, z \in Poly : Congruent(y, z, g) => Congruent(Times(q, y), Times(q, z), g)
           /\ \A z \in Pol : g \in Pol /\ g # {} => Congruent(z, Mod(z, g), g)
<1>1. \A y : Congruent(y, y, g)
  BY AddRules, MultipleRules DEF Congruent
<1>2. \A y, z : Congruent(y, z, g) => Congruent(z, y, g)
  BY AddRules DEF Congruent
<1>3. ASSUME NEW y, NEW z, NEW u, Congruent(y, z, g), Congruent(z, u, g)
      PROVE  Congruent(y, u, g)
  <2>1. Add(Add(y, z), Add(z, u)) = Add(y, u)
    BY DEF Add
  <2> QED
    BY <2>1, <1>3, MultipleRules DEF Congruent
<1>4. ASSUME NEW y, NEW z, NEW u, NEW v, Congruent(y, z, g), Congruent(u, v, g)
      PROVE  Congruent(Add(y, u), Add(z, v), g)
  <2>1. Add(Add(y, z), Add(u, v)) = Add(Add(y, u), Add(z, v))
    BY DEF Add
  <2> QED
    BY <2>1, <1>4, MultipleRules DEF Congruent
<1>5. ASSUME NEW q \in Poly, NEW y \in Poly, NEW z \in Poly, Congruent(y, z, g)
      PROVE  Congruent(Times(q, y), Times(q, z), g)
  <2>1. Times(q, Add(y, z)) = Add(Times(q, y), Times(q, z))
    <3>1. Times(Add(y, z), q) = Add(Times(y, q), Times(z, q)) /\ Add(y, z) \in Poly
      BY TimesSum, SumOfPolys
    <3> QED
      BY <3>1, TimesCommutes
  <2>2. Multiple(g, Times(q, Add(y, z)))
    BY <1>5, MultipleRules DEF Congruent
  <2> QED
    BY <2>1, <2>2 DEF Congruent
<1>6. ASSUME NEW z \in Pol, g \in Pol, g # {} PROVE Congruent(z, Mod(z, g), g)
  <2>1. Add(z, Mod(z, g)) = Times(Div(z, g), g) /\ Div(z, g) \in Poly
    BY <1>6, Division, PolIsPoly
  <2> QED
    BY <2>1 DEF Congruent, Multiple
<1> QED
  BY <1>1, <1>2, <1>3, <1>4, <1>5, <1>6

\* The powers of x.
LEMMA Powers ==
    ASSUME NEW i \in Nat, NEW j \in Nat
    PROVE  {i} \in Poly /\ Times({i}, {j}) = {i + j}
<1>1. {i} \in Poly
  BY FS_Singleton DEF Poly
<1>2. {j} \in SUBSET Nat
  OBVIOUS
<1>3. Times({i}, {j}) = Shift({j}, i)
  BY <1>2, TimesPower
<1>4. Shift({j}, i) = {j + i} /\ j + i = i + j
  BY DEF Shift
<1> QED
  BY <1>1, <1>3, <1>4

\* z leaves room for one more bit.
Room(z) == \A i \in z : i + 1 < Width

LEMMA ResidueHasRoom ==
    ASSUME NEW g \in Pol, g # {}, NEW z \in Pol, \A i \in z : i < Deg(g)
    PROVE  Room(z)
<1>1. Deg(g) \in g /\ Deg(g) \in 0..(Width - 1) /\ Width \in Nat
  BY PolIsPoly, Highest
<1>2. \A i \in z : i \in Nat
  BY PolIsPoly
<1> QED
  BY <1>1, <1>2 DEF Room

\* Doubling does not overflow what has room.
LEMMA MulByX ==
    ASSUME NEW z \in Pol, Room(z)
    PROVE  Mul(z, X) = Times({1}, z) /\ Mul(z, X) \in Pol
<1>1. Width \in Nat /\ Width >= 2
  BY WidthAssumption
<1>2. X \in Pol /\ X # {}
  BY <1>1 DEF X, Pol
<1>3. Product(z, X) = Times({1}, z)
  BY <1>2, ProductIsTimes DEF X
<1>4. Times({1}, z) = Shift(z, 1) /\ \A i \in z : i \in Nat
  BY PolIsPoly, TimesPower
<1>5. Shift(z, 1) \subseteq 0..(Width - 1)
  <2>1. \A i \in z : i + 1 \in 0..(Width - 1)
    BY <1>1, <1>4 DEF Room
  <2> QED
    BY <2>1 DEF Shift
<1>6. Mul(z, X) = Product(z, X)
  BY <1>2, <1>3, <1>4, <1>5, MulIsProduct
<1> QED
  BY <1>3, <1>4, <1>5, <1>6 DEF Pol

LEMMA OverflowIsNoPol == Overflow \notin Pol
<1>1. -1 \notin Nat
  OBVIOUS
<1>2. Overflow \notin SUBSET Nat
  BY <1>1 DEF Overflow
<1> QED
  BY <1>2, PolIsPoly

\* The equation of `times'.
Timesed(f, a, j, g) ==
    [i \in 0..j |->
        IF i = 0 THEN a
        ELSE IF f[i - 1] = Overflow THEN Overflow
        ELSE IF Mul(f[i - 1], X) = Overflow THEN Overflow ELSE Mod(Mul(f[i - 1], X), g)]

LEMMA TimesXExists ==
    ASSUME NEW a \in Pol, NEW j \in Nat, NEW g \in Pol, g # {}
    PROVE  \E f : f = Timesed(f, a, j, g) /\ TimesX(a, j, g) = f[j]
<1> DEFINE V == Pol \union {Overflow}
           step(z) == IF z = Overflow THEN Overflow
                      ELSE IF Mul(z, X) = Overflow THEN Overflow ELSE Mod(Mul(z, X), g)
           h == [p \in Nat \X V |-> step(p[2])]
           T == CHOOSE f : f = Timesed(f, a, j, g)
<1>1. ASSUME NEW z \in V PROVE step(z) \in V
  <2>1. mul(z, X) \in Pol
    BY DEF mul, Pol
  <2>2. Mul(z, X) \in V
    BY <2>1 DEF Mul
  <2>3. Mul(z, X) # Overflow => Mod(Mul(z, X), g) \in Pol
    BY <2>2, Division
  <2> QED
    BY <2>3
<1>2. h \in [Nat \X V -> V]
  <2>1. \A p \in Nat \X V : step(p[2]) \in V
    <3> HIDE DEF step, V
    <3> QED
      BY <1>1
  <2> HIDE DEF step, V
  <2> QED
    BY <2>1
<1>3. \A i \in Nat, z \in V : h[<<i, z>>] = step(z)
  <2> HIDE DEF step, V
  <2> QED
    OBVIOUS
<1>4. PICK f : Recursive(f, V, a, h, j)
  <2>1. a \in V
    OBVIOUS
  <2> HIDE DEF V, h
  <2> QED
    BY <1>2, <2>1, Recursion
<1>5. f = Timesed(f, a, j, g)
  <2>0. DOMAIN f = 0..j /\ f = [i \in 0..j |-> f[i]]
    BY <1>4 DEF Recursive
  <2>1. ASSUME NEW i \in 0..j
        PROVE  f[i] = IF i = 0 THEN a
                      ELSE IF f[i - 1] = Overflow THEN Overflow
                      ELSE IF Mul(f[i - 1], X) = Overflow THEN Overflow
                      ELSE Mod(Mul(f[i - 1], X), g)
    <3>1. CASE i = 0
      BY <3>1, <1>4 DEF Recursive
    <3>2. CASE i # 0
      <4>1. i \in 1..j /\ i - 1 \in 0..j /\ i \in Nat
        BY <3>2
      <4> HIDE DEF h, step, V
      <4>2. f[i - 1] \in V
        BY <1>4, <4>1 DEF Recursive
      <4>3. f[i] = step(f[i - 1])
        BY <1>3, <1>4, <4>1, <4>2 DEF Recursive
      <4> QED
        BY <3>2, <4>3 DEF step
    <3> QED
      BY <3>1, <3>2
  <2> HIDE DEF h, V, step
  <2> QED
    BY <2>0, <2>1 DEF Timesed
<1>6. T = Timesed(T, a, j, g)
  <2> HIDE DEF h, V, step
  <2> QED
    BY <1>5, Zenon
<1>7. TimesX(a, j, g) = T[j]
  BY DEF TimesX, Timesed
<1> QED
  BY <1>6, <1>7

\* a times x^j, reduced after each doubling, is the remainder, and no product overflows.
LEMMA TimesXIsRemainder ==
    ASSUME NEW a \in Pol, Room(a), NEW j \in Nat, NEW g \in Pol, g # {}
    PROVE  TimesX(a, j, g) \in Pol /\ Congruent(Times({j}, a), TimesX(a, j, g), g)
<1>1. PICK f : f = Timesed(f, a, j, g) /\ TimesX(a, j, g) = f[j]
  BY TimesXExists
<1>2. \A i \in 0..j :
         f[i] = IF i = 0 THEN a
                ELSE IF f[i - 1] = Overflow THEN Overflow
                ELSE IF Mul(f[i - 1], X) = Overflow THEN Overflow ELSE Mod(Mul(f[i - 1], X), g)
  BY <1>1 DEF Timesed
<1> DEFINE right(i) == f[i] \in Pol /\ Room(f[i]) /\ Congruent(Times({i}, a), f[i], g)
           S == {i \in Nat : i <= j => right(i)}
<1>3. g \in Poly /\ a \in Poly
  BY PolIsPoly
<1>4. 0 \in S
  <2>1. f[0] = a
    BY <1>2
  <2>2. Times({0}, a) = a
    <3>1. Times({0}, a) = Shift(a, 0) /\ \A i \in a : i + 0 = i
      BY PolIsPoly, TimesPower
    <3> QED
      BY <3>1 DEF Shift
  <2>3. Congruent(a, a, g)
    BY <1>3, CongruentRules
  <2> QED
    BY <2>1, <2>2, <2>3
<1>5. ASSUME NEW i \in S PROVE i + 1 \in S
  <2> SUFFICES ASSUME i + 1 <= j PROVE right(i + 1)
    OBVIOUS
  <2>1. i \in Nat /\ i + 1 \in 0..j /\ i + 1 # 0 /\ (i + 1) - 1 = i /\ right(i)
    OBVIOUS
  <2> HIDE DEF S
  <2> DEFINE z == f[i]
             y == Mul(z, X)
  <2>2. z \in Pol /\ Room(z) /\ Congruent(Times({i}, a), z, g) /\ z \in Poly
    BY <2>1, PolIsPoly
  <2> HIDE DEF z
  <2>3. y = Times({1}, z) /\ y \in Pol /\ y # Overflow /\ z # Overflow
    BY <2>2, MulByX, OverflowIsNoPol
  <2> HIDE DEF y
  <2>4. f[i + 1] = Mod(y, g)
    BY <1>2, <2>1, <2>3 DEF z, y
  <2>5. /\ Mod(y, g) \in Pol /\ (\A l \in Mod(y, g) : l < Deg(g))
        /\ Room(Mod(y, g)) /\ Congruent(y, Mod(y, g), g)
    BY <1>3, <2>3, Division, ResidueHasRoom, CongruentRules
  <2>6. Congruent(Times({i + 1}, a), y, g)
    <3>1. {1} \in Poly /\ {i} \in Poly /\ Times({1}, {i}) = {i + 1}
      <4>1. 1 \in Nat /\ i \in Nat /\ 1 + i = i + 1
        BY <2>1
      <4>2. {1} \in Poly /\ Times({1}, {i}) = {1 + i}
        BY <4>1, Powers
      <4>3. {i} \in Poly
        BY <4>1, Powers
      <4> QED
        BY <4>1, <4>2, <4>3
    <3>2. Times({1}, Times({i}, a)) = Times({i + 1}, a) /\ Times({i}, a) \in Poly
      <4> DEFINE u == {1}
                 v == {i}
      <4>1. u \in Poly /\ v \in Poly /\ Times(u, v) = {i + 1}
        BY <3>1
      <4> HIDE DEF u, v
      <4>2. Times(u, Times(v, a)) = Times(Times(u, v), a) /\ Times(v, a) \in Poly
        <5>1. a \in Poly
          BY <1>3
        <5>2. Times(v, a) \in Poly
          BY <4>1, <5>1, TimesIsPoly
        <5>3. Times(u, Times(v, a)) = Times(Times(u, v), a)
          BY <4>1, <5>1, TimesAssociates
        <5> QED
          BY <5>2, <5>3
      <4> QED
        BY <4>1, <4>2 DEF u, v
    <3>3. Congruent(Times({1}, Times({i}, a)), Times({1}, z), g)
      BY <1>3, <2>2, <3>1, <3>2, CongruentRules
    <3> QED
      BY <2>3, <3>2, <3>3
  <2>7. Congruent(Times({i + 1}, a), Mod(y, g), g)
    BY <1>3, <2>5, <2>6, CongruentRules
  <2> QED
    BY <2>4, <2>5, <2>7
<1>6. \A i \in Nat : i \in S
  <2>1. S \in SUBSET Nat
    OBVIOUS
  <2> HIDE DEF S
  <2> QED
    BY <1>4, <1>5, <2>1, Induction
<1>7. right(j)
  BY <1>6
<1> QED
  BY <1>1, <1>7

\* The equation of `upTo'.
Summed(s, x, f, g) ==
    [i \in -1..Deg(f) |->
        IF i = -1 THEN Zero
        ELSE IF i \notin f THEN s[i - 1]
        ELSE IF s[i - 1] = Overflow \/ TimesX(x, i, g) = Overflow THEN Overflow
        ELSE Mod(Add(s[i - 1], TimesX(x, i, g)), g)]

LEMMA UpToExists ==
    ASSUME NEW x \in Pol, Room(x), NEW f \in Pol, f # {}, NEW g \in Pol, g # {}
    PROVE  \E s : s = Summed(s, x, f, g) /\ (x # {} => MulMod(x, f, g) = s[Deg(f)])
<1> DEFINE V == Pol \union {Overflow}
           step(i, z) == IF i \notin f THEN z
                         ELSE IF z = Overflow \/ TimesX(x, i, g) = Overflow THEN Overflow
                         ELSE Mod(Add(z, TimesX(x, i, g)), g)
           h == [p \in Nat \X V |-> IF p[1] = 0 THEN Zero ELSE step(p[1] - 1, p[2])]
           T == CHOOSE s : s = Summed(s, x, f, g)
<1>1. ASSUME NEW i \in Nat, NEW z \in V PROVE step(i, z) \in V
  <2>1. TimesX(x, i, g) \in Pol
    BY TimesXIsRemainder
  <2>2. z # Overflow => Mod(Add(z, TimesX(x, i, g)), g) \in Pol
    <3>1. z # Overflow => Add(z, TimesX(x, i, g)) \in Pol
      BY <2>1, PolIsPoly
    <3> QED
      BY <3>1, Division
  <2> QED
    BY <2>2
<1>2. h \in [Nat \X V -> V] /\ \A i \in Nat, z \in V : i # 0 => h[<<i, z>>] = step(i - 1, z)
  <2>1. Zero \in V
    BY DEF Zero, Pol
  <2> HIDE DEF V, step
  <2>2. ASSUME NEW p \in Nat \X V PROVE (IF p[1] = 0 THEN Zero ELSE step(p[1] - 1, p[2])) \in V
    <3>1. p[1] \in Nat /\ p[2] \in V
      OBVIOUS
    <3>2. CASE p[1] = 0
      BY <2>1, <3>2
    <3>3. CASE p[1] # 0
      <4>1. p[1] - 1 \in Nat
        BY <3>1, <3>3
      <4>2. step(p[1] - 1, p[2]) \in V
        BY <1>1, <3>1, <4>1
      <4> QED
        BY <3>3, <4>2
    <3> QED
      BY <3>2, <3>3
  <2>3. h \in [Nat \X V -> V]
    BY <2>2
  <2>4. ASSUME NEW i \in Nat, NEW z \in V, i # 0 PROVE h[<<i, z>>] = step(i - 1, z)
    BY <2>4
  <2> QED
    BY <2>3, <2>4
<1>3. Deg(f) \in Nat
  BY PolIsPoly, Highest
<1> DEFINE m == Deg(f)
<1> HIDE DEF m
<1>4. PICK F : Recursive(F, V, Zero, h, m + 1)
  <2>1. Zero \in V /\ m + 1 \in Nat
    BY <1>3 DEF Zero, Pol, m
  <2> HIDE DEF V, h
  <2> QED
    BY <1>2, <2>1, Recursion
<1> DEFINE s == [i \in -1..m |-> F[i + 1]]
<1>5. s = Summed(s, x, f, g)
  <2>1. ASSUME NEW i \in -1..m
        PROVE  F[i + 1] = IF i = -1 THEN Zero
                          ELSE IF i \notin f THEN s[i - 1]
                          ELSE IF s[i - 1] = Overflow \/ TimesX(x, i, g) = Overflow THEN Overflow
                          ELSE Mod(Add(s[i - 1], TimesX(x, i, g)), g)
    <3>1. CASE i = -1
      <4>1. F[0] = Zero /\ i + 1 = 0
        BY <3>1, <1>4 DEF Recursive
      <4> QED
        BY <3>1, <4>1
    <3>2. CASE i # -1
      <4>1. /\ i \in Nat /\ i - 1 \in -1..m /\ i + 1 \in 1..(m + 1) /\ i \in 0..(m + 1)
            /\ (i - 1) + 1 = i /\ (i + 1) - 1 = i /\ i + 1 \in Nat /\ i + 1 # 0
        BY <3>2, <1>3 DEF m
      <4>2. s[i - 1] = F[i]
        BY <4>1
      <4> HIDE DEF s, h, V
      <4>3. F[i] \in V /\ F[i + 1] = h[<<i + 1, F[i]>>]
        <5>1. /\ F \in [0..(m + 1) -> V]
              /\ \A l \in 1..(m + 1) : F[l] = h[<<l, F[l - 1]>>]
          BY <1>4 DEF Recursive
        <5>2. F[i] \in V
          BY <4>1, <5>1
        <5>3. F[i + 1] = h[<<i + 1, F[(i + 1) - 1]>>]
          BY <4>1, <5>1
        <5> QED
          BY <4>1, <5>2, <5>3
      <4> DEFINE z == F[i]
                 l == i + 1
      <4>4. l \in Nat /\ l # 0 /\ l - 1 = i /\ z \in V /\ F[i + 1] = h[<<l, z>>]
        BY <4>1, <4>3
      <4> HIDE DEF z, l, step
      <4>5. h[<<l, z>>] = step(i, z)
        BY <1>2, <4>4
      <4>6. F[i + 1] = step(i, s[i - 1])
        BY <4>2, <4>4, <4>5 DEF z
      <4> QED
        BY <3>2, <4>6 DEF step
    <3> QED
      BY <3>1, <3>2
  <2> HIDE DEF h, V, step
  <2>2. s = [i \in -1..m |->
               IF i = -1 THEN Zero
               ELSE IF i \notin f THEN s[i - 1]
               ELSE IF s[i - 1] = Overflow \/ TimesX(x, i, g) = Overflow THEN Overflow
               ELSE Mod(Add(s[i - 1], TimesX(x, i, g)), g)]
    BY <2>1
  <2> HIDE DEF s
  <2> QED
    BY <2>2, Zenon DEF Summed, m
<1>6. T = Summed(T, x, f, g)
  <2> HIDE DEF h, V, step, s
  <2> QED
    BY <1>5, Zenon
<1>7. x # {} => MulMod(x, f, g) = T[Deg(f)]
  BY Zenon DEF MulMod, Summed, Zero
<1> HIDE DEF T
<1> QED
  BY <1>6, <1>7

\* MulMod is the product's remainder.
LEMMA MulModIsRemainder ==
    ASSUME NEW x \in Pol, Room(x), NEW f \in Pol, NEW g \in Pol, g # {}
    PROVE  /\ MulMod(x, f, g) \in Pol /\ \A i \in MulMod(x, f, g) : i < Deg(g)
           /\ Congruent(Times(f, x), MulMod(x, f, g), g)
<1>1. x \in Poly /\ f \in Poly /\ g \in Poly /\ f \in SUBSET Nat /\ {} \in Pol
  BY PolIsPoly DEF Pol
<1>2. CASE x = {} \/ f = {}
  <2>1. MulMod(x, f, g) = {}
    BY <1>2 DEF MulMod, Zero
  <2>2. Times(f, x) = {}
    <3>1. Times({}, x) = {} /\ Times({}, f) = {}
      BY TimesNone
    <3>2. Times(f, x) = Times(x, f)
      BY <1>1, TimesCommutes
    <3> QED
      BY <1>2, <3>1, <3>2
  <2>3. Congruent({}, {}, g)
    BY <1>1, CongruentRules
  <2> QED
    BY <1>1, <2>1, <2>2, <2>3
<1>3. CASE x # {} /\ f # {}
  <2> DEFINE m == Deg(f)
             part(i) == {j \in f : j <= i}
  <2>1. m \in Nat /\ \A j \in f : j <= m
    BY <1>1, <1>3, Highest
  <2>2. PICK s : s = Summed(s, x, f, g) /\ MulMod(x, f, g) = s[m]
    BY <1>3, UpToExists
  <2> HIDE DEF m
  <2>3. \A i \in -1..m :
           s[i] = IF i = -1 THEN Zero
                  ELSE IF i \notin f THEN s[i - 1]
                  ELSE IF s[i - 1] = Overflow \/ TimesX(x, i, g) = Overflow THEN Overflow
                  ELSE Mod(Add(s[i - 1], TimesX(x, i, g)), g)
    BY <2>2 DEF Summed, m
  <2> DEFINE right(i) == /\ s[i] \in Pol /\ \A j \in s[i] : j < Deg(g)
                         /\ Congruent(Times(part(i), x), s[i], g)
             S == {i \in Nat : i - 1 <= m => right(i - 1)}
  <2>4. 0 \in S
    <3>1. s[-1] = {}
      <4>1. -1 \in -1..m
        BY <2>1
      <4> QED
        BY <2>3, <4>1 DEF Zero
    <3>2. part(-1) = {}
      <4>1. \A j \in f : j \in Nat /\ ~ (j <= -1)
        BY <1>1
      <4> QED
        BY <4>1
    <3>3. Congruent({}, {}, g)
      BY <1>1, CongruentRules
    <3>4. right(-1)
      BY <1>1, <3>1, <3>2, <3>3, TimesNone
    <3>5. 0 - 1 = -1
      OBVIOUS
    <3> HIDE DEF right
    <3> QED
      BY <3>4, <3>5
  <2>5. ASSUME NEW l \in S PROVE l + 1 \in S
    <3> SUFFICES ASSUME (l + 1) - 1 <= m PROVE right((l + 1) - 1)
      OBVIOUS
    <3>1. l \in Nat /\ l \in -1..m /\ l # -1 /\ (l + 1) - 1 = l /\ right(l - 1)
      BY <2>1
    <3> HIDE DEF S
    <3> DEFINE z == s[l - 1]
               A == part(l - 1)
    <3>2. z \in Pol /\ (\A j \in z : j < Deg(g)) /\ Congruent(Times(A, x), z, g) /\ z # Overflow
      BY <3>1, OverflowIsNoPol
    <3>3. A \in Poly /\ \A j \in f : j \in part(l) <=> j \in A \/ j = l
      <4>1. A \in SUBSET f
        OBVIOUS
      <4>2. \A j \in f : j <= l <=> j <= l - 1 \/ j = l
        BY <1>1, <3>1
      <4> HIDE DEF A
      <4>3. A \in Poly
        BY <1>1, <4>1, PartOfPoly
      <4> QED
        BY <4>2, <4>3 DEF A
    <3>4. CASE l \notin f
      <4>1. part(l) = A
        BY <3>3, <3>4
      <4>2. s[l] = z
        BY <2>3, <3>1, <3>4
      <4> QED
        BY <3>1, <3>2, <4>1, <4>2
    <3>5. CASE l \in f
      <4> DEFINE t == TimesX(x, l, g)
                 B == {l}
                 y == Add(z, t)
      <4>1. t \in Pol /\ Congruent(Times(B, x), t, g) /\ t # Overflow
        BY <3>1, TimesXIsRemainder, OverflowIsNoPol
      <4>2. part(l) = Add(A, B)
        <5>1. l \notin A
          BY <3>1
        <5> QED
          BY <3>3, <3>5, <5>1 DEF Add
      <4>3. s[l] = Mod(y, g)
        BY <2>3, <3>1, <3>2, <3>5, <4>1
      <4>4. y \in Pol
        BY <3>2, <4>1, PolIsPoly
      <4>5. B \in Poly
        BY <3>1, Powers
      <4> HIDE DEF A, B, t, z, part
      <4>6. Times(part(l), x) = Add(Times(A, x), Times(B, x))
        BY <3>3, <4>2, <4>5, <1>1, TimesSum
      <4>7. Congruent(Times(part(l), x), y, g)
        BY <1>1, <3>2, <4>1, <4>6, CongruentRules
      <4> HIDE DEF y
      <4>8. /\ Mod(y, g) \in Pol /\ (\A j \in Mod(y, g) : j < Deg(g))
            /\ Congruent(y, Mod(y, g), g)
        BY <1>1, <4>4, Division, CongruentRules
      <4>9. Congruent(Times(part(l), x), Mod(y, g), g)
        BY <1>1, <4>7, <4>8, CongruentRules
      <4> QED
        BY <3>1, <4>3, <4>8, <4>9
    <3> QED
      BY <3>4, <3>5
  <2>6. \A i \in Nat : i \in S
    <3>1. S \in SUBSET Nat
      OBVIOUS
    <3> HIDE DEF S
    <3> QED
      BY <2>4, <2>5, <3>1, Induction
  <2>7. right(m)
    <3>1. m + 1 \in Nat /\ (m + 1) - 1 = m
      BY <2>1
    <3> HIDE DEF right
    <3>2. m + 1 \in S
      BY <2>6, <3>1
    <3>3. (m + 1) - 1 <= m => right((m + 1) - 1)
      BY <3>2
    <3> QED
      BY <2>1, <3>1, <3>3
  <2>8. part(m) = f
    BY <2>1
  <2> QED
    BY <2>2, <2>7, <2>8
<1> QED
  BY <1>2, <1>3

\* The equation of `squared'.
Squares(s, p, g) ==
    [i \in 0..p |-> IF i = 0 THEN X ELSE MulMod(s[i - 1], s[i - 1], g)]

\* What MulMod may be asked to multiply.
Roomy == {z \in Pol : Room(z)}

LEMMA SquareIsRoomy ==
    ASSUME NEW g \in Pol, g # {}, NEW z \in Roomy
    PROVE  /\ MulMod(z, z, g) \in Roomy
           /\ Congruent(Times(z, z), MulMod(z, z, g), g)
<1>1. z \in Pol /\ Room(z)
  BY DEF Roomy
<1> DEFINE y == MulMod(z, z, g)
<1>2. y \in Pol /\ (\A i \in y : i < Deg(g)) /\ Congruent(Times(z, z), y, g)
  BY <1>1, MulModIsRemainder
<1> HIDE DEF y
<1>3. Room(y)
  BY <1>2, ResidueHasRoom
<1> QED
  BY <1>2, <1>3 DEF Roomy, y

LEMMA SquaresExist ==
    ASSUME Width >= 3, NEW p \in Nat, NEW g \in Pol, g # {}
    PROVE  \E s : /\ s = Squares(s, p, g) /\ \A i \in 0..p : s[i] \in Roomy
                  /\ qp(p, g) = Mod(Add(s[p], X), g)
<1> DEFINE h == [o \in Nat \X Roomy |-> MulMod(o[2], o[2], g)]
           T == CHOOSE s : s = Squares(s, p, g)
<1>1. X \in Roomy
  <2>1. Width \in Nat
    BY PolIsPoly
  <2> QED
    BY <2>1 DEF X, Roomy, Pol, Room
<1>2. h \in [Nat \X Roomy -> Roomy]
  <2>1. \A o \in Nat \X Roomy : MulMod(o[2], o[2], g) \in Roomy
    BY SquareIsRoomy
  <2> QED
    BY <2>1
<1>3. \A i \in Nat, z \in Roomy : h[<<i, z>>] = MulMod(z, z, g)
  OBVIOUS
<1> HIDE DEF h
<1>4. PICK f : Recursive(f, Roomy, X, h, p)
  BY <1>1, <1>2, Recursion
<1>5. f = Squares(f, p, g)
  <2>1. DOMAIN f = 0..p /\ f = [i \in 0..p |-> f[i]]
    BY <1>4 DEF Recursive
  <2>2. ASSUME NEW i \in 0..p
        PROVE  f[i] = IF i = 0 THEN X ELSE MulMod(f[i - 1], f[i - 1], g)
    <3>1. CASE i = 0
      BY <3>1, <1>4 DEF Recursive
    <3>2. CASE i # 0
      <4>1. i \in 1..p /\ i - 1 \in 0..p /\ i \in Nat
        BY <3>2
      <4>2. f[i - 1] \in Roomy /\ f[i] = h[<<i, f[i - 1]>>]
        BY <1>4, <4>1 DEF Recursive
      <4>3. f[i] = MulMod(f[i - 1], f[i - 1], g)
        BY <1>3, <4>1, <4>2
      <4> QED
        BY <3>2, <4>3
    <3> QED
      BY <3>1, <3>2
  <2> QED
    BY <2>1, <2>2 DEF Squares
<1>6. T = Squares(T, p, g)
  BY <1>5, Zenon
<1>7. qp(p, g) = Mod(Add(T[p], X), g)
  BY DEF qp, Squares
<1> HIDE DEF T
<1>8. \A i \in 0..p : T[i] = IF i = 0 THEN X ELSE MulMod(T[i - 1], T[i - 1], g)
  BY <1>6 DEF Squares
<1> DEFINE S == {i \in Nat : i <= p => T[i] \in Roomy}
<1>9. 0 \in S
  <2>1. T[0] = X
    BY <1>8
  <2> QED
    BY <2>1, <1>1
<1>10. ASSUME NEW i \in S PROVE i + 1 \in S
  <2> SUFFICES ASSUME i + 1 <= p PROVE T[i + 1] \in Roomy
    OBVIOUS
  <2>1. i + 1 \in 0..p /\ i + 1 # 0 /\ (i + 1) - 1 = i /\ T[i] \in Roomy
    OBVIOUS
  <2>2. T[i + 1] = MulMod(T[i], T[i], g)
    BY <1>8, <2>1
  <2> QED
    BY <2>1, <2>2, SquareIsRoomy
<1>11. \A i \in Nat : i \in S
  <2>1. S \in SUBSET Nat
    OBVIOUS
  <2> HIDE DEF S
  <2> QED
    BY <1>9, <1>10, <2>1, Induction
<1>12. \A i \in 0..p : T[i] \in Roomy
  BY <1>11
<1> QED
  BY <1>6, <1>7, <1>12

\* qp(p, g) is the remainder of x^(2^p) - x.
LEMMA qpIsRemainder ==
    ASSUME Width >= 3, NEW p \in Nat, NEW g \in Pol, g # {}
    PROVE  /\ qp(p, g) \in Pol /\ \A i \in qp(p, g) : i < Deg(g)
           /\ Congruent(Add({2^p}, X), qp(p, g), g)
<1>1. PICK s : /\ s = Squares(s, p, g) /\ \A i \in 0..p : s[i] \in Roomy
               /\ qp(p, g) = Mod(Add(s[p], X), g)
  BY SquaresExist
<1>2. \A i \in 0..p : s[i] = IF i = 0 THEN X ELSE MulMod(s[i - 1], s[i - 1], g)
  BY <1>1 DEF Squares
<1>3. g \in Poly
  BY PolIsPoly
<1> DEFINE S == {i \in Nat : i <= p => Congruent({2^i}, s[i], g)}
<1>4. 0 \in S
  <2>1. s[0] = X /\ 2^0 = 1
    BY <1>2
  <2>2. {2^0} = X
    BY <2>1 DEF X
  <2>3. Congruent(X, X, g)
    BY <1>3, CongruentRules
  <2> QED
    BY <2>1, <2>2, <2>3
<1>5. ASSUME NEW i \in S PROVE i + 1 \in S
  <2> SUFFICES ASSUME i + 1 <= p PROVE Congruent({2^(i + 1)}, s[i + 1], g)
    OBVIOUS
  <2>1. i \in Nat /\ i \in 0..p /\ i + 1 \in 0..p /\ i + 1 # 0 /\ (i + 1) - 1 = i
        /\ Congruent({2^i}, s[i], g)
    OBVIOUS
  <2> HIDE DEF S
  <2> DEFINE e == 2^i
             u == {e}
             z == s[i]
             y == MulMod(z, z, g)
  <2>2. e \in Nat /\ 2^(i + 1) = e + e
    <3>1. 2^i \in Nat \ {0} /\ 2^(i + 1) = 2 * 2^i
      BY <2>1, PowerOfTwo
    <3> HIDE DEF e
    <3>2. e \in Nat /\ 2^(i + 1) = 2 * e
      BY <3>1 DEF e
    <3> QED
      BY <3>2
  <2>3. s[i + 1] = y
    BY <1>2, <2>1
  <2>4. z \in Roomy /\ Congruent(u, z, g)
    BY <1>1, <2>1
  <2> HIDE DEF e, z
  <2>5. u \in Poly /\ Times(u, u) = {2^(i + 1)}
    BY <2>2, Powers
  <2> HIDE DEF u
  <2>6. z \in Poly /\ Congruent(Times(z, z), y, g)
    BY <2>4, PolIsPoly, SquareIsRoomy DEF Roomy
  <2> HIDE DEF y
  <2>7. Congruent(Times(u, u), Times(u, z), g)
    BY <1>3, <2>4, <2>5, <2>6, CongruentRules
  <2>8. Congruent(Times(z, u), Times(z, z), g) /\ Times(u, z) = Times(z, u)
    BY <1>3, <2>4, <2>5, <2>6, CongruentRules, TimesCommutes
  <2>9. Congruent(Times(u, u), y, g)
    BY <1>3, <2>6, <2>7, <2>8, CongruentRules
  <2> QED
    BY <2>3, <2>5, <2>9
<1>6. \A i \in Nat : i \in S
  <2>1. S \in SUBSET Nat
    OBVIOUS
  <2> HIDE DEF S
  <2> QED
    BY <1>4, <1>5, <2>1, Induction
<1> DEFINE v == {2^p}
           z == s[p]
           y == Add(z, X)
<1>7. Congruent(v, z, g) /\ z \in Pol
  BY <1>1, <1>6 DEF Roomy
<1> HIDE DEF S, v, z
<1>8. X \in Pol /\ Congruent(X, X, g)
  <2>1. Width \in Nat
    BY PolIsPoly
  <2>2. X \in Pol
    BY <2>1 DEF X, Pol
  <2> QED
    BY <1>3, <2>2, CongruentRules
<1>9. y \in Pol /\ Congruent(Add(v, X), y, g)
  BY <1>3, <1>7, <1>8, PolIsPoly, CongruentRules
<1>10. qp(p, g) = Mod(y, g)
  BY <1>1 DEF z
<1> HIDE DEF y
<1>11. Mod(y, g) \in Pol /\ (\A i \in Mod(y, g) : i < Deg(g)) /\ Congruent(y, Mod(y, g), g)
  BY <1>3, <1>9, Division, CongruentRules
<1>12. Congruent(Add(v, X), Mod(y, g), g)
  BY <1>3, <1>9, <1>11, CongruentRules
<1> QED
  BY <1>10, <1>11, <1>12 DEF v

\* Only 1 divides 1.
LEMMA DivisorOfOne ==
    ASSUME NEW c \in Poly, Multiple(c, One)
    PROVE  c = One
<1>1. PICK q \in Poly : Times(q, c) = One
  BY DEF Multiple
<1>2. q # {} /\ c # {}
  <2>1. {} \in Poly /\ One # {}
    BY BoundedPoly DEF One
  <2> QED
    BY <1>1, <2>1, TimesNone, TimesCommutes
<1>3. Deg(q) + Deg(c) = 0
  BY <1>1, <1>2, TimesTop DEF One
<1>4. Deg(q) \in Nat /\ Deg(c) \in c /\ Deg(c) \in Nat /\ \A j \in c : j \in Nat /\ j <= Deg(c)
  BY <1>2, Highest DEF Poly
<1>5. Deg(c) = 0
  BY <1>3, <1>4
<1>6. \A j \in c : j = 0
  BY <1>4, <1>5
<1> QED
  BY <1>4, <1>5, <1>6 DEF One

\* Irreducible is Ben-Or's test: no polynomial but 1 divides both g and x^(2^i) - x, for
\* any i up to half the degree; and qp gives a polynomial, so that no product on the way
\* overflows (Irreducible and the functions that it calls, polynomials.go).
THEOREM IrreducibleIsBenOr ==
    ASSUME Width >= 3, NEW g \in Pol, g # {}
    PROVE  /\ \A i \in Nat : qp(i, g) \in Pol
           /\ Irreducible(g) <=>
                  \A i \in 1..(Deg(g) \div 2), c \in Pol :
                      Multiple(c, g) /\ Multiple(c, Add({2^i}, X)) => c = One
<1>1. g \in Poly /\ \A c \in Pol : c \in Poly
  BY PolIsPoly
<1> DEFINE passed(i) == \A c \in Pol : Multiple(c, g) /\ Multiple(c, Add({2^i}, X)) => c = One
<1>2. ASSUME NEW i \in 1..(Deg(g) \div 2)
      PROVE  GCD(g, qp(i, g)) = One <=> passed(i)
  <2> DEFINE r == qp(i, g)
             P == Add({2^i}, X)
             d == GCD(g, r)
  <2>1. r \in Pol /\ Congruent(P, r, g)
    <3>1. i \in Nat
      OBVIOUS
    <3> QED
      BY <3>1, qpIsRemainder
  <2> HIDE DEF P, r
  <2>2. d \in Pol /\ \A c \in Pol : Multiple(c, d) <=> Multiple(c, g) /\ Multiple(c, r)
    BY <2>1, GCDMultiples, PolIsPoly
  <2> HIDE DEF d
  <2>3. ASSUME NEW c \in Pol, Multiple(c, g) PROVE Multiple(c, r) <=> Multiple(c, P)
    <3> DEFINE t == Add(P, r)
    <3>1. Multiple(c, t)
      <4>1. PICK q \in Poly : Times(q, g) = t
        BY <2>1 DEF Congruent, Multiple
      <4>2. Multiple(c, Times(q, g))
        BY <1>1, <2>3, MultipleRules
      <4> QED
        BY <4>1, <4>2
    <3>2. Add(t, P) = r /\ Add(t, r) = P
      BY DEF Add
    <3> HIDE DEF t
    <3> QED
      BY <1>1, <3>1, <3>2, MultipleRules
  <2>4. \A c \in Pol : Multiple(c, d) <=> Multiple(c, g) /\ Multiple(c, P)
    BY <2>2, <2>3
  <2>5. ASSUME d = One PROVE \A c \in Pol : Multiple(c, d) => c = One
    BY <1>1, <2>5, DivisorOfOne
  <2>6. Multiple(d, d)
    BY <1>1, <2>2, MultipleRules
  <2>7. d = One <=> \A c \in Pol : Multiple(c, d) => c = One
    BY <2>2, <2>5, <2>6
  <2>8. d = One <=> \A c \in Pol : Multiple(c, g) /\ Multiple(c, P) => c = One
    BY <2>4, <2>7
  <2> QED
    BY <2>8 DEF d, r, P
<1> HIDE DEF passed
<1>3. Irreducible(g) <=> \A i \in 1..(Deg(g) \div 2) : passed(i)
  BY <1>2 DEF Irreducible
<1>4. \A i \in Nat : qp(i, g) \in Pol
  BY qpIsRemainder
<1> QED
  BY <1>3, <1>4 DEF passed

-----------------------------------------------------------------------------
(* Prime polynomials.                                                      *)

LEMMA Ring ==
    /\ {} \in Poly /\ One \in Poly /\ One # {}
    /\ \A p \in Poly : /\ Times(One, p) = p /\ Times(p, One) = p
                       /\ Times({}, p) = {} /\ Times(p, {}) = {}
    /\ \A p, q \in Poly : /\ Add(p, q) \in Poly /\ Times(p, q) \in Poly
                          /\ Times(p, q) = Times(q, p)
    /\ \A p, q, r \in Poly : /\ Times(p, Times(q, r)) = Times(Times(p, q), r)
                             /\ Times(p, Add(q, r)) = Add(Times(p, q), Times(p, r))
                             /\ Times(Add(q, r), p) = Add(Times(q, p), Times(r, p))
<1>1. {} \in Poly /\ One \in Poly /\ One # {}
  <2>1. {0} \in Poly
    BY Powers
  <2> QED
    BY <2>1, BoundedPoly DEF One
<1>2. ASSUME NEW p \in Poly
      PROVE  Times(One, p) = p /\ Times(p, One) = p /\ Times({}, p) = {} /\ Times(p, {}) = {}
  <2>1. p \in SUBSET Nat /\ \A i \in p : i + 0 = i
    BY DEF Poly
  <2>2. Shift(p, 0) = p
    BY <2>1 DEF Shift
  <2>3. Times({0}, p) = Shift(p, 0)
    BY <2>1, TimesPower
  <2>4. Times(One, p) = p
    BY <2>2, <2>3 DEF One
  <2> QED
    BY <1>1, <2>4, TimesCommutes, TimesNone
<1>3. \A p, q \in Poly : /\ Add(p, q) \in Poly /\ Times(p, q) \in Poly
                         /\ Times(p, q) = Times(q, p)
  BY SumOfPolys, TimesIsPoly, TimesCommutes
<1>4. ASSUME NEW p \in Poly, NEW q \in Poly, NEW r \in Poly
      PROVE  /\ Times(p, Times(q, r)) = Times(Times(p, q), r)
             /\ Times(p, Add(q, r)) = Add(Times(p, q), Times(p, r))
             /\ Times(Add(q, r), p) = Add(Times(q, p), Times(r, p))
  <2>1. Times(Add(q, r), p) = Add(Times(q, p), Times(r, p))
    BY TimesSum
  <2> QED
    BY <1>3, <2>1, TimesAssociates
<1> QED
  BY <1>1, <1>2, <1>3, <1>4

\* The degree of a product.
LEMMA DegreesAdd ==
    ASSUME NEW q \in Poly, NEW p \in Poly, Times(q, p) # {}
    PROVE  /\ q # {} /\ p # {} /\ Deg(q) \in Nat /\ Deg(p) \in Nat
           /\ Deg(Times(q, p)) = Deg(q) + Deg(p)
<1>1. q # {} /\ p # {}
  BY Ring
<1>2. Deg(q) \in Nat /\ Deg(p) \in Nat
  BY <1>1, Highest
<1>3. Times(q, p) \in Poly
  BY Ring
<1>4. /\ Deg(q) + Deg(p) \in Times(q, p)
      /\ \A j \in Times(q, p) : j <= Deg(q) + Deg(p)
  BY <1>1, TimesTop
<1> DEFINE z == Times(q, p)
           e == Deg(q) + Deg(p)
<1>5. z \in Poly /\ e \in z /\ \A j \in z : j <= e
  BY <1>3, <1>4
<1> HIDE DEF z, e
<1>6. Deg(z) = e
  BY <1>5, DegIs
<1> QED
  BY <1>1, <1>2, <1>6 DEF z, e

\* Products of what is not zero are not zero.
LEMMA NoZeroDivisors ==
    ASSUME NEW q \in Poly, NEW p \in Poly, q # {}, p # {}
    PROVE  Times(q, p) # {}
  BY TimesTop

\* Only 1 has degree 0.
LEMMA DegreeZero ==
    ASSUME NEW c \in Poly, c # {}
    PROVE  Deg(c) \in Nat /\ (Deg(c) = 0 <=> c = One)
<1>1. Deg(c) \in Nat /\ Deg(c) \in c /\ \A j \in c : j \in Nat /\ j <= Deg(c)
  BY Highest DEF Poly
<1>2. ASSUME Deg(c) = 0 PROVE c = One
  <2>1. \A j \in c : j = 0
    BY <1>1, <1>2
  <2> QED
    BY <1>1, <1>2, <2>1 DEF One
<1>3. ASSUME c = One PROVE Deg(c) = 0
  BY <1>1, <1>3 DEF One
<1> QED
  BY <1>1, <1>2, <1>3

\* A divisor's degree is no higher.
LEMMA DivisorIsLower ==
    ASSUME NEW d \in Poly, NEW g \in Poly, g # {}, Multiple(d, g)
    PROVE  /\ d # {} /\ Deg(d) \in Nat /\ Deg(d) <= Deg(g) /\ Deg(g) \in Nat
           /\ Deg(d) = Deg(g) => d = g
<1>1. PICK q \in Poly : Times(q, d) = g
  BY DEF Multiple
<1>2. /\ q # {} /\ d # {} /\ Deg(q) \in Nat /\ Deg(d) \in Nat
      /\ Deg(g) = Deg(q) + Deg(d)
  BY <1>1, DegreesAdd
<1>3. Deg(d) = Deg(g) => Deg(q) = 0
  BY <1>2
<1>4. Deg(q) = 0 => q = One
  BY <1>2, DegreeZero
<1>5. q = One => d = g
  BY <1>1, Ring
<1>6. Deg(d) <= Deg(g) /\ Deg(g) \in Nat
  BY <1>2
<1> QED
  BY <1>2, <1>3, <1>4, <1>5, <1>6

LEMMA MultiplesChain ==
    ASSUME NEW c \in Poly, NEW d \in Poly, NEW z, Multiple(c, d), Multiple(d, z)
    PROVE  Multiple(c, z)
<1>1. PICK q \in Poly : Times(q, d) = z
  BY DEF Multiple
<1> QED
  BY <1>1, MultipleRules

\* Division, of polynomials of any degree.
LEMMA AnyDivision ==
    ASSUME NEW d \in Poly, d # {}, NEW z \in Poly
    PROVE  \E q, r \in Poly : z = Add(Times(q, d), r) /\ \A i \in r : i < Deg(d)
<1> DEFINE k == Deg(d)
           right(y) == \E q, r \in Poly : y = Add(Times(q, d), r) /\ \A i \in r : i < k
           S == {m \in Nat : \A y \in Poly : (\A i \in y : i < m) => right(y)}
<1>1. k \in d /\ k \in Nat /\ d \in SUBSET Nat /\ \A j \in d : j \in Nat /\ j <= k
  BY Highest DEF Poly
<1> HIDE DEF k
<1>2. ASSUME NEW y \in Poly, \A i \in y : i < k PROVE right(y)
  <2>1. {} \in Poly /\ Times({}, d) = {} /\ Add({}, y) = y
    BY Ring, AddRules
  <2> QED
    BY <1>2, <2>1
<1>3. 0 \in S
  <2> SUFFICES ASSUME NEW y \in Poly, \A i \in y : i < 0 PROVE right(y)
    OBVIOUS
  <2>1. \A i \in y : i < k
    BY <1>1 DEF Poly
  <2> HIDE DEF right
  <2> QED
    BY <1>2, <2>1
<1>4. ASSUME NEW m \in S PROVE m + 1 \in S
  <2>1. m \in Nat /\ \A y \in Poly : (\A i \in y : i < m) => right(y)
    OBVIOUS
  <2> SUFFICES ASSUME NEW y \in Poly, \A i \in y : i < m + 1 PROVE right(y)
    BY <2>1
  <2> HIDE DEF S
  <2>2. \A i \in y : i \in Nat /\ (i # m => i < m)
    BY <2>1 DEF Poly
  <2>3. CASE m \notin y
    <3>1. \A i \in y : i < m
      BY <2>2, <2>3
    <3> QED
      BY <2>1, <3>1
  <2>4. CASE m < k
    <3>1. \A i \in y : i < k
      BY <1>1, <2>1, <2>2, <2>4
    <3> HIDE DEF right
    <3> QED
      BY <1>2, <3>1
  <2>5. CASE m \in y /\ ~ m < k
    <3> DEFINE e == m - k
               t == Shift(d, e)
               x == Add(y, t)
    <3>1. e \in Nat /\ e + k = m /\ {e} \in Poly
      <4>1. e \in Nat /\ e + k = m
        BY <1>1, <2>1, <2>5
      <4> QED
        BY <4>1, Powers
    <3> HIDE DEF e
    <3>2. t = Times({e}, d) /\ t \in Poly
      <4>1. t = Times({e}, d)
        BY <1>1, <3>1, TimesPower
      <4> QED
        BY <3>1, <4>1, Ring
    <3>3. m \in t /\ \A i \in t : i <= m /\ i \in Nat
      <4>1. \A j \in d : j + e \in Nat /\ j + e <= m
        BY <1>1, <2>1, <3>1
      <4>2. k + e = m
        BY <1>1, <3>1
      <4> QED
        BY <1>1, <4>1, <4>2 DEF Shift
    <3> HIDE DEF t
    <3>4. x \in Poly
      BY <3>2, Ring
    <3>5. \A i \in x : i < m
      <4>1. \A i \in x : i \in Nat /\ (i \in y \/ i \in t) /\ ~ (i \in y /\ i \in t)
        BY <2>2, <3>3 DEF Add
      <4>2. \A i \in x : i # m
        BY <2>5, <3>3, <4>1
      <4>3. \A i \in t : i # m => i < m
        BY <2>1, <3>3
      <4> QED
        BY <2>2, <4>1, <4>2, <4>3
    <3>6. right(x)
      BY <2>1, <3>4, <3>5
    <3>7. PICK q, r \in Poly : x = Add(Times(q, d), r) /\ \A i \in r : i < k
      BY <3>6
    <3>8. Add(x, t) = y
      BY DEF Add
    <3> HIDE DEF x
    <3>9. y = Add(Times(Add(q, {e}), d), r)
      <4> DEFINE p == Times(q, d)
      <4>1. Times(Add(q, {e}), d) = Add(p, t)
        BY <3>1, <3>2, <3>7, Ring
      <4> HIDE DEF p
      <4>2. Add(Add(p, r), t) = Add(Add(p, t), r)
        BY DEF Add
      <4> QED
        BY <3>7, <3>8, <4>1, <4>2 DEF p
    <3>10. Add(q, {e}) \in Poly
      BY <3>1, <3>7, Ring
    <3> QED
      BY <3>7, <3>9, <3>10
  <2> QED
    BY <2>3, <2>4, <2>5
<1>5. \A m \in Nat : m \in S
  <2>1. S \in SUBSET Nat
    OBVIOUS
  <2> HIDE DEF S
  <2> QED
    BY <1>3, <1>4, <2>1, Induction
<1>6. right(z)
  <2>1. CASE z = {}
    BY <1>2, <2>1
  <2>2. CASE z # {}
    <3>1. Deg(z) \in Nat /\ \A i \in z : i \in Nat /\ i <= Deg(z)
      BY <2>2, Highest DEF Poly
    <3>2. Deg(z) + 1 \in S
      BY <1>5, <3>1
    <3>3. \A i \in z : i < Deg(z) + 1
      BY <3>1
    <3> QED
      BY <3>2, <3>3
  <2> QED
    BY <2>1, <2>2
<1> QED
  BY <1>6 DEF k

LEMMA Least ==
    ASSUME NEW D \in SUBSET Nat, D # {}
    PROVE  \E m \in D : \A j \in D : m <= j
<1> SUFFICES ASSUME \A m \in D : \E j \in D : j < m PROVE FALSE
  OBVIOUS
<1> DEFINE S == {m \in Nat : \A j \in D : m <= j}
<1>1. 0 \in S
  OBVIOUS
<1>2. ASSUME NEW m \in S PROVE m + 1 \in S
  <2>1. m \in Nat /\ \A j \in D : m <= j /\ j \in Nat
    OBVIOUS
  <2>2. m \notin D
    <3> SUFFICES ASSUME m \in D PROVE FALSE
      OBVIOUS
    <3>1. PICK j \in D : j < m
      OBVIOUS
    <3> HIDE DEF S
    <3> QED
      BY <2>1, <3>1
  <2>3. \A j \in D : m + 1 <= j
    BY <2>1, <2>2
  <2> QED
    BY <2>1, <2>3
<1>3. \A m \in Nat : m \in S
  <2>1. S \in SUBSET Nat
    OBVIOUS
  <2> HIDE DEF S
  <2> QED
    BY <1>1, <1>2, <2>1, Induction
<1>4. PICK j \in D : TRUE
  OBVIOUS
<1>5. j + 1 \in S /\ j \in Nat
  BY <1>3
<1>6. j + 1 <= j
  BY <1>5
<1> QED
  BY <1>5, <1>6

LEMMA LeastDegree ==
    ASSUME NEW I \in SUBSET Poly, I # {}, {} \notin I
    PROVE  \E w \in I : \A z \in I : Deg(w) <= Deg(z)
<1> DEFINE D == {Deg(z) : z \in I}
<1>1. \A z \in I : z \in Poly /\ z # {} /\ Deg(z) \in Nat
  BY Highest
<1>2. D \in SUBSET Nat /\ D # {}
  BY <1>1
<1> HIDE DEF D
<1>3. PICK m \in D : \A j \in D : m <= j
  BY <1>2, Least
<1> QED
  BY <1>3 DEF D

\* c has no factor but 1 and itself.
Prime(c) ==
    /\ c \in Poly /\ c # {} /\ c # One
    /\ \A d \in Poly : Multiple(d, c) => d \in {One, c}

LEMMA PrimeDegree ==
    ASSUME NEW c, Prime(c)
    PROVE  c \in Poly /\ c # {} /\ Deg(c) \in Nat \ {0} /\ ~ Multiple(c, One)
<1>1. c \in Poly /\ c # {} /\ c # One
  BY DEF Prime
<1>2. Deg(c) \in Nat \ {0}
  BY <1>1, DegreeZero
<1> QED
  BY <1>1, <1>2, DivisorOfOne

\* What is not 1 has a prime factor, of the least degree that a factor has.
LEMMA PrimeFactor ==
    ASSUME NEW g \in Poly, g # {}, g # One
    PROVE  \E c \in Poly :
               /\ Prime(c) /\ Multiple(c, g)
               /\ \A d \in Poly : Multiple(d, g) /\ d # One => Deg(c) <= Deg(d)
<1> DEFINE I == {d \in Poly : Multiple(d, g) /\ d # One}
<1>1. I \in SUBSET Poly /\ I # {} /\ {} \notin I
  <2>1. g \in I
    BY MultipleRules
  <2>2. ~ Multiple({}, g)
    BY DivisorIsLower, Ring
  <2> QED
    BY <2>1, <2>2
<1>2. PICK c \in I : \A z \in I : Deg(c) <= Deg(z)
  <2> HIDE DEF I
  <2> QED
    BY <1>1, LeastDegree
<1>3. c \in Poly /\ Multiple(c, g) /\ c # One /\ c # {}
  BY <1>1
<1>4. ASSUME NEW d \in Poly, Multiple(d, c), d # One PROVE d = c
  <2>1. Multiple(d, g)
    BY <1>3, <1>4, MultiplesChain
  <2>2. Deg(c) <= Deg(d)
    BY <1>2, <1>4, <2>1
  <2>3. Deg(d) <= Deg(c) /\ Deg(d) \in Nat /\ Deg(c) \in Nat /\ (Deg(d) = Deg(c) => d = c)
    BY <1>3, <1>4, DivisorIsLower
  <2> QED
    BY <2>2, <2>3
<1>5. Prime(c)
  BY <1>3, <1>4 DEF Prime
<1> QED
  BY <1>2, <1>3, <1>5

\* A prime factor of a product is one of a factor: take a least w whose product with y is a
\* multiple of c; it divides all that are like it, and so c.
LEMMA PrimeDividesProduct ==
    ASSUME NEW c, Prime(c), NEW u \in Poly, NEW y \in Poly, Multiple(c, Times(u, y))
    PROVE  Multiple(c, u) \/ Multiple(c, y)
<1> DEFINE J == {z \in Poly : Multiple(c, Times(z, y))}
           I == J \ {{}}
<1>1. c \in Poly /\ c # {} /\ \A d \in Poly : Multiple(d, c) => d \in {One, c}
  BY DEF Prime
<1>2. u \in J /\ c \in J /\ J \in SUBSET Poly
  <2>1. Multiple(c, Times(y, c)) /\ Times(y, c) = Times(c, y)
    BY <1>1, MultipleRules, Ring
  <2> QED
    BY <1>1, <2>1
<1>3. PICK w \in I : \A z \in I : Deg(w) <= Deg(z)
  <2>1. I \in SUBSET Poly /\ I # {} /\ {} \notin I
    BY <1>1, <1>2
  <2> HIDE DEF I
  <2> QED
    BY <2>1, LeastDegree
<1>4. w \in Poly /\ w # {} /\ w \in J /\ Deg(w) \in Nat
  BY <1>2, Highest
<1>5. ASSUME NEW z \in J PROVE Multiple(w, z)
  <2>1. PICK q, r \in Poly : z = Add(Times(q, w), r) /\ \A i \in r : i < Deg(w)
    BY <1>2, <1>4, AnyDivision
  <2> DEFINE t == Times(q, w)
  <2>2. t \in Poly /\ z \in Poly /\ Multiple(c, Times(z, y)) /\ Multiple(c, Times(w, y))
    BY <1>2, <1>4, <2>1, Ring
  <2>3. Multiple(c, Times(t, y))
    <3>1. Times(t, y) = Times(q, Times(w, y))
      BY <1>4, <2>1, Ring
    <3> QED
      BY <1>1, <2>1, <2>2, <3>1, MultipleRules
  <2>4. z = Add(t, r)
    BY <2>1
  <2> HIDE DEF t
  <2>5. r = Add(z, t)
    BY <2>4 DEF Add
  <2>6. Times(r, y) = Add(Times(z, y), Times(t, y))
    BY <2>2, <2>5, Ring
  <2>7. r \in J
    BY <1>1, <2>1, <2>2, <2>3, <2>6, MultipleRules
  <2>8. r = {}
    <3> SUFFICES ASSUME r # {} PROVE FALSE
      OBVIOUS
    <3>1. Deg(w) <= Deg(r)
      BY <1>3, <2>7
    <3>2. Deg(r) \in r /\ Deg(r) \in Nat
      BY <2>1, Highest
    <3>3. Deg(r) < Deg(w)
      BY <2>1, <3>2
    <3> QED
      BY <1>4, <3>1, <3>2, <3>3
  <2>9. z = Times(q, w)
    BY <2>4, <2>8, AddRules DEF t
  <2> QED
    BY <2>1, <2>9 DEF Multiple
<1> HIDE DEF I, J
<1>6. w = One \/ w = c
  BY <1>1, <1>2, <1>4, <1>5
<1>7. CASE w = One
  <2>1. Times(w, y) = y
    BY <1>7, Ring
  <2>2. Multiple(c, Times(w, y))
    BY <1>4 DEF J
  <2> QED
    BY <2>1, <2>2
<1>8. CASE w = c
  BY <1>2, <1>5, <1>8
<1> QED
  BY <1>6, <1>7, <1>8

-----------------------------------------------------------------------------
(* Roots modulo a prime polynomial.  Coefficients come highest first.      *)

\* f has the values of Horner's rule at y.
Evaluates(f, a, y, m) ==
    /\ f \in [0..m -> Poly] /\ f[0] = a[0]
    /\ \A i \in 1..m : f[i] = Add(Times(y, f[i - 1]), a[i])

Root(a, y, m, c) == \E f : Evaluates(f, a, y, m) /\ Multiple(c, f[m])

LEMMA ValuesExist ==
    ASSUME NEW m \in Nat, NEW a \in [0..m -> Poly], NEW y \in Poly
    PROVE  \E f : Evaluates(f, a, y, m)
<1> DEFINE h == [p \in Nat \X Poly |-> IF p[1] \in 0..m THEN Add(Times(y, p[2]), a[p[1]]) ELSE {}]
<1>1. a[0] \in Poly
  OBVIOUS
<1>2. h \in [Nat \X Poly -> Poly]
  <2> SUFFICES ASSUME NEW p \in Nat \X Poly
               PROVE  (IF p[1] \in 0..m THEN Add(Times(y, p[2]), a[p[1]]) ELSE {}) \in Poly
    OBVIOUS
  <2>1. p[2] \in Poly
    OBVIOUS
  <2> QED
    BY <2>1, Ring
<1>3. \A i \in 1..m, z \in Poly : h[<<i, z>>] = Add(Times(y, z), a[i])
  OBVIOUS
<1> HIDE DEF h
<1>4. PICK f : Recursive(f, Poly, a[0], h, m)
  BY <1>1, <1>2, Recursion
<1>5. f \in [0..m -> Poly] /\ f[0] = a[0] /\ \A i \in 1..m : f[i] = h[<<i, f[i - 1]>>]
  BY <1>4 DEF Recursive
<1>6. \A i \in 1..m : f[i - 1] \in Poly
  <2>1. \A i \in 1..m : i - 1 \in 0..m
    OBVIOUS
  <2> QED
    BY <1>5, <2>1
<1>7. \A i \in 1..m : f[i] = Add(Times(y, f[i - 1]), a[i])
  BY <1>3, <1>5, <1>6
<1> QED
  BY <1>5, <1>7 DEF Evaluates

\* y (y + r) h + y f + a, in two ways.
LEMMA FactorStep ==
    ASSUME NEW y \in Poly, NEW r \in Poly, NEW h \in Poly, NEW f \in Poly, NEW a \in Poly
    PROVE  Add(Times(y, Add(Times(Add(y, r), h), f)), a)
             = Add(Times(Add(y, r), Add(Times(y, h), f)), Add(Times(r, f), a))
<1> DEFINE s == Add(y, r)
           t == Times(s, h)
           u == Times(y, t)
           v == Times(y, f)
           w == Times(r, f)
<1>1. s \in Poly /\ t \in Poly /\ Times(y, h) \in Poly
  BY Ring
<1>2. Times(y, Add(t, f)) = Add(u, v)
  BY <1>1, Ring
<1>3. Times(s, Times(y, h)) = u
  <2>1. Times(s, Times(y, h)) = Times(Times(s, y), h)
    BY <1>1, Ring
  <2>2. Times(s, y) = Times(y, s)
    BY <1>1, Ring
  <2>3. Times(Times(y, s), h) = Times(y, Times(s, h))
    BY <1>1, Ring
  <2> QED
    BY <2>1, <2>2, <2>3
<1>4. Times(s, f) = Add(v, w)
  BY Ring
<1>5. Times(s, Add(Times(y, h), f)) = Add(u, Add(v, w))
  BY <1>1, <1>3, <1>4, Ring
<1> HIDE DEF s, t, u, v, w
<1>6. Add(Add(u, v), a) = Add(Add(u, Add(v, w)), Add(w, a))
  BY DEF Add
<1>7. Add(Times(y, Add(t, f)), a) = Add(Times(s, Add(Times(y, h), f)), Add(w, a))
  BY <1>2, <1>5, <1>6
<1> QED
  BY <1>7 DEF s, t, w

\* A value is one at r, and a multiple of y - r, whose cofactor is the value of the quotient.
LEMMA Factor ==
    ASSUME NEW m \in Nat, NEW a \in [0..(m + 1) -> Poly], NEW r \in Poly, NEW y \in Poly,
           NEW f, NEW g, NEW h,
           Evaluates(f, a, r, m + 1), Evaluates(g, a, y, m + 1), Evaluates(h, f, y, m)
    PROVE  g[m + 1] = Add(Times(Add(y, r), h[m]), f[m + 1])
<1> DEFINE eq(j) == g[j + 1] = Add(Times(Add(y, r), h[j]), f[j + 1])
           S == {j \in Nat : j <= m => eq(j)}
<1>1. /\ f \in [0..(m + 1) -> Poly] /\ f[0] = a[0]
      /\ \A i \in 1..(m + 1) : f[i] = Add(Times(r, f[i - 1]), a[i])
  BY DEF Evaluates
<1>2. /\ g \in [0..(m + 1) -> Poly] /\ g[0] = a[0]
      /\ \A i \in 1..(m + 1) : g[i] = Add(Times(y, g[i - 1]), a[i])
  BY DEF Evaluates
<1>3. /\ h \in [0..m -> Poly] /\ h[0] = f[0]
      /\ \A i \in 1..m : h[i] = Add(Times(y, h[i - 1]), f[i])
  BY DEF Evaluates
<1>4. 0 \in S
  <2>1. 0 \in 0..(m + 1) /\ 1 \in 1..(m + 1) /\ 1 - 1 = 0 /\ 1 \in 0..(m + 1) /\ 0 + 1 = 1
    OBVIOUS
  <2> DEFINE b == a[0]
             e == a[1]
  <2>2. b \in Poly /\ e \in Poly
    BY <2>1
  <2>3. f[1] = Add(Times(r, b), e) /\ g[1] = Add(Times(y, b), e) /\ h[0] = b
    BY <1>1, <1>2, <1>3, <2>1
  <2> HIDE DEF b, e
  <2>4. Times(Add(y, r), b) = Add(Times(y, b), Times(r, b))
    BY <2>2, Ring
  <2> DEFINE u == Times(y, b)
             v == Times(r, b)
  <2> HIDE DEF u, v
  <2>5. Add(u, e) = Add(Add(u, v), Add(v, e))
    BY DEF Add
  <2>6. g[1] = Add(Times(Add(y, r), h[0]), f[1])
    BY <2>3, <2>4, <2>5 DEF u, v
  <2> QED
    BY <2>1, <2>6
<1>5. ASSUME NEW j \in S PROVE j + 1 \in S
  <2>1. j \in Nat /\ (j <= m => eq(j))
    OBVIOUS
  <2> SUFFICES ASSUME j + 1 <= m PROVE eq(j + 1)
    BY <2>1
  <2> HIDE DEF S
  <2>2. /\ j \in 0..m /\ j + 1 \in 1..m /\ j + 1 \in 0..(m + 1) /\ (j + 1) - 1 = j
        /\ (j + 1) + 1 \in 1..(m + 1) /\ (j + 1) + 1 \in 0..(m + 1)
        /\ ((j + 1) + 1) - 1 = j + 1
    BY <2>1
  <2> DEFINE i == j + 1
             k == i + 1
  <2>3. j \in 0..m /\ i \in 1..m /\ i \in 0..(m + 1) /\ i - 1 = j /\ k \in 1..(m + 1)
        /\ k \in 0..(m + 1) /\ k - 1 = i
    BY <2>2
  <2>4. g[i] = Add(Times(Add(y, r), h[j]), f[i])
    BY <2>1, <2>3
  <2> HIDE DEF i, k
  <2>5. h[j] \in Poly /\ f[i] \in Poly /\ a[k] \in Poly
    BY <1>1, <1>3, <2>3
  <2>6. g[k] = Add(Times(y, g[i]), a[k]) /\ f[k] = Add(Times(r, f[i]), a[k])
    BY <1>1, <1>2, <2>3
  <2>7. h[i] = Add(Times(y, h[j]), f[i])
    BY <1>3, <2>3
  <2>8. g[k] = Add(Times(Add(y, r), h[i]), f[k])
    <3> DEFINE H == h[j]
               F == f[i]
               A == a[k]
    <3>1. H \in Poly /\ F \in Poly /\ A \in Poly
      BY <2>5
    <3>2. /\ g[k] = Add(Times(y, Add(Times(Add(y, r), H), F)), A)
          /\ f[k] = Add(Times(r, F), A) /\ h[i] = Add(Times(y, H), F)
      BY <2>4, <2>6, <2>7
    <3> HIDE DEF H, F, A
    <3>3. Add(Times(y, Add(Times(Add(y, r), H), F)), A)
            = Add(Times(Add(y, r), Add(Times(y, H), F)), Add(Times(r, F), A))
      BY <3>1, FactorStep
    <3> QED
      BY <3>2, <3>3
  <2> QED
    BY <2>8 DEF i, k
<1>6. m \in S
  <2>1. S \in SUBSET Nat
    OBVIOUS
  <2> HIDE DEF S
  <2> QED
    BY <1>4, <1>5, <2>1, Induction
<1> QED
  BY <1>6

\* No two of S are congruent.
Apart(S, c) == \A y, z \in S : Congruent(y, z, c) => y = z

FewRoots(m, c) ==
    \A a \in [0..m -> Poly] : \A S \in SUBSET Poly :
        /\ a[0] = One /\ IsFiniteSet(S) /\ Apart(S, c)
        /\ \A y \in S : Root(a, y, m, c)
        => Cardinality(S) <= m

\* A polynomial of degree m, with coefficients modulo a prime, has at most m roots.
LEMMA RootBound ==
    ASSUME NEW c, Prime(c), NEW m \in Nat
    PROVE  FewRoots(m, c)
<1> DEFINE S == {l \in Nat : FewRoots(l, c)}
<1>1. c \in Poly /\ ~ Multiple(c, One)
  BY PrimeDegree
<1>2. FewRoots(0, c)
  <2> SUFFICES ASSUME NEW a \in [0..0 -> Poly], NEW T \in SUBSET Poly, a[0] = One, IsFiniteSet(T),
                      \A y \in T : Root(a, y, 0, c)
               PROVE  Cardinality(T) <= 0
    BY DEF FewRoots
  <2>1. \A y \in T : FALSE
    BY <1>1 DEF Root, Evaluates
  <2>2. T = {}
    BY <2>1
  <2> QED
    BY <2>2, FS_EmptySet
<1>3. ASSUME NEW l \in Nat, FewRoots(l, c) PROVE FewRoots(l + 1, c)
  <2> SUFFICES ASSUME NEW a \in [0..(l + 1) -> Poly], NEW T \in SUBSET Poly, a[0] = One,
                      IsFiniteSet(T), Apart(T, c), \A y \in T : Root(a, y, l + 1, c)
               PROVE  Cardinality(T) <= l + 1
    BY DEF FewRoots
  <2>1. CASE T = {}
    BY <2>1, FS_EmptySet
  <2>2. CASE T # {}
    <3>1. PICK r \in T : TRUE
      BY <2>2
    <3>2. PICK f : Evaluates(f, a, r, l + 1) /\ Multiple(c, f[l + 1])
      BY DEF Root
    <3> DEFINE b == [i \in 0..l |-> f[i]]
    <3>3. f \in [0..(l + 1) -> Poly] /\ f[0] = One
      BY <3>2 DEF Evaluates
    <3>4. b \in [0..l -> Poly] /\ b[0] = One /\ \A i \in 0..l : b[i] = f[i]
      <4>1. \A i \in 0..l : i \in 0..(l + 1)
        OBVIOUS
      <4>2. 0 \in 0..l
        OBVIOUS
      <4> QED
        BY <3>3, <4>1, <4>2
    <3> HIDE DEF b
    <3>5. ASSUME NEW y \in T, y # r PROVE Root(b, y, l, c)
      <4>1. PICK g : Evaluates(g, a, y, l + 1) /\ Multiple(c, g[l + 1])
        BY DEF Root
      <4>2. PICK h : Evaluates(h, b, y, l)
        <5>1. y \in Poly
          OBVIOUS
        <5> QED
          BY <3>4, <5>1, ValuesExist
      <4>3. h \in [0..l -> Poly] /\ h[l] \in Poly
        BY <4>2 DEF Evaluates
      <4>4. Evaluates(h, f, y, l)
        <5>1. 0 \in 0..l /\ \A i \in 1..l : i \in 0..l
          OBVIOUS
        <5> QED
          BY <3>4, <4>2, <5>1 DEF Evaluates
      <4> DEFINE u == Add(y, r)
                 p == Times(u, h[l])
                 v == f[l + 1]
      <4>5. g[l + 1] = Add(p, v)
        BY <3>2, <4>1, <4>4, Factor
      <4>6. Multiple(c, v) /\ Multiple(c, Add(p, v))
        BY <3>2, <4>1, <4>5
      <4> HIDE DEF v
      <4>7. Multiple(c, p)
        <5> HIDE DEF p
        <5>1. Add(Add(p, v), v) = p
          BY DEF Add
        <5> QED
          BY <1>1, <4>6, <5>1, MultipleRules
      <4>8. u \in Poly
        BY Ring
      <4> HIDE DEF u
      <4>9. Multiple(c, u) \/ Multiple(c, h[l])
        BY <4>3, <4>7, <4>8, PrimeDividesProduct
      <4>10. ~ Multiple(c, u)
        BY <3>5 DEF Apart, Congruent, u
      <4> QED
        BY <4>2, <4>9, <4>10 DEF Root
    <3> DEFINE U == T \ {r}
    <3>6. IsFiniteSet(U) /\ Cardinality(U) = Cardinality(T) - 1
      BY FS_RemoveElement
    <3>7. U \in SUBSET Poly /\ Apart(U, c) /\ \A y \in U : Root(b, y, l, c)
      BY <3>5 DEF Apart
    <3> HIDE DEF U
    <3>8. Cardinality(U) <= l
      BY <1>3, <3>4, <3>6, <3>7 DEF FewRoots
    <3>9. Cardinality(T) \in Nat
      BY FS_CardinalityType
    <3> QED
      BY <3>6, <3>8, <3>9
  <2> QED
    BY <2>1, <2>2
<1>4. 0 \in S /\ \A l \in S : l + 1 \in S
  BY <1>2, <1>3
<1>5. S \in SUBSET Nat
  OBVIOUS
<1> HIDE DEF S
<1>6. m \in S
  BY <1>4, <1>5, Induction
<1> QED
  BY <1>6 DEF S

-----------------------------------------------------------------------------
(* Squares: y(x^e) for y(x), which is y squared i times when e is 2^i.     *)

\* Every polynomial is a sum of powers of x.
LEMMA SumOfPowers ==
    ASSUME NEW Q \in SUBSET Poly, {} \in Q, \A y \in Q, m \in Nat : Add(y, {m}) \in Q
    PROVE  \A z \in Poly : z \in Q
<1> DEFINE S == {m \in Nat : \A z \in Poly : (\A i \in z : i < m) => z \in Q}
<1>1. 0 \in S
  <2>1. ASSUME NEW z \in Poly, \A i \in z : i < 0 PROVE z = {}
    BY <2>1 DEF Poly
  <2> QED
    BY <2>1
<1>2. ASSUME NEW m \in S PROVE m + 1 \in S
  <2>1. m \in Nat /\ \A z \in Poly : (\A i \in z : i < m) => z \in Q
    OBVIOUS
  <2> SUFFICES ASSUME NEW z \in Poly, \A i \in z : i < m + 1 PROVE z \in Q
    BY <2>1
  <2> HIDE DEF S
  <2>2. \A i \in z : i \in Nat /\ (i # m => i < m)
    BY <2>1 DEF Poly
  <2>3. CASE m \notin z
    <3>1. \A i \in z : i < m
      BY <2>2, <2>3
    <3> QED
      BY <2>1, <3>1
  <2>4. CASE m \in z
    <3> DEFINE y == z \ {m}
    <3>1. y \in SUBSET z
      OBVIOUS
    <3>2. y \in Poly
      BY <3>1, PartOfPoly
    <3>3. \A i \in y : i < m
      BY <2>2
    <3>4. Add(y, {m}) = z
      BY <2>4 DEF Add
    <3> HIDE DEF y
    <3>5. y \in Q
      BY <2>1, <3>2, <3>3
    <3> QED
      BY <2>1, <3>4, <3>5
  <2> QED
    BY <2>3, <2>4
<1>3. \A m \in Nat : m \in S
  <2>1. S \in SUBSET Nat
    OBVIOUS
  <2> HIDE DEF S
  <2> QED
    BY <1>1, <1>2, <2>1, Induction
<1>4. ASSUME NEW z \in Poly PROVE z \in Q
  <2>1. CASE z = {}
    BY <2>1
  <2>2. CASE z # {}
    <3>1. Deg(z) \in Nat /\ \A i \in z : i \in Nat /\ i <= Deg(z)
      BY <2>2, Highest DEF Poly
    <3>2. Deg(z) + 1 \in S
      BY <1>3, <3>1
    <3>3. \A i \in z : i < Deg(z) + 1
      BY <3>1
    <3> QED
      BY <3>2, <3>3
  <2> QED
    BY <2>1, <2>2
<1> QED
  BY <1>4

Scaled(y, e) == {e * i : i \in y}

LEMMA ScaledRules ==
    ASSUME NEW e \in Nat \ {0}
    PROVE  /\ Scaled({}, e) = {} /\ \A m \in Nat : Scaled({m}, e) = {e * m}
           /\ \A y, z \in Poly : Scaled(Add(y, z), e) = Add(Scaled(y, e), Scaled(z, e))
           /\ \A y \in Poly : Scaled(y, e) \in Poly
<1>1. \A i, j \in Nat : e * i = e * j => i = j
  <2> SUFFICES ASSUME NEW i \in Nat, NEW j \in Nat, i < j PROVE e * i # e * j
    OBVIOUS
  <2>1. e * j = e * i + e * (j - i) /\ j - i > 0
    OBVIOUS
  <2>2. e * (j - i) > 0
    BY <2>1
  <2> QED
    BY <2>1, <2>2
<1>2. \A i \in Nat : e * i \in Nat
  OBVIOUS
<1>3. Scaled({}, e) = {} /\ \A m \in Nat : Scaled({m}, e) = {e * m}
  BY DEF Scaled
<1>4. ASSUME NEW y \in Poly, NEW z \in Poly
      PROVE  Scaled(Add(y, z), e) = Add(Scaled(y, e), Scaled(z, e))
  <2> DEFINE f == [i \in Nat |-> e * i]
             image(s) == {f[i] : i \in s}
  <2>1. \A s \in SUBSET Nat : Scaled(s, e) = image(s)
    BY DEF Scaled
  <2>2. \A i, j \in Nat : f[i] = f[j] => i = j
    BY <1>1
  <2>3. y \in SUBSET Nat /\ z \in SUBSET Nat /\ Add(y, z) \in SUBSET Nat
    BY DEF Poly, Add
  <2> HIDE DEF f
  <2>4. image(Add(y, z)) = Add(image(y), image(z))
    BY <2>2, <2>3 DEF Add
  <2> QED
    BY <2>1, <2>3, <2>4
<1>5. ASSUME NEW y \in Poly PROVE Scaled(y, e) \in Poly
  <2> DEFINE Q == {z \in Poly : Scaled(z, e) \in Poly}
  <2>1. {} \in Q
    BY <1>3, Ring
  <2>2. ASSUME NEW z \in Q, NEW m \in Nat PROVE Add(z, {m}) \in Q
    <3>1. {m} \in Poly /\ {e * m} \in Poly /\ z \in Poly /\ Scaled(z, e) \in Poly
      BY <1>2, Powers
    <3>2. Scaled(Add(z, {m}), e) = Add(Scaled(z, e), {e * m})
      <4>1. Scaled(Add(z, {m}), e) = Add(Scaled(z, e), Scaled({m}, e))
        BY <1>4, <3>1
      <4>2. Scaled({m}, e) = {e * m}
        BY <1>3
      <4> QED
        BY <4>1, <4>2
    <3> QED
      BY <3>1, <3>2, Ring
  <2>3. Q \in SUBSET Poly
    OBVIOUS
  <2> HIDE DEF Q
  <2>4. y \in Q
    BY <2>1, <2>2, <2>3, SumOfPowers
  <2> QED
    BY <2>4 DEF Q
<1> QED
  BY <1>3, <1>4, <1>5

LEMMA ScaledTwice ==
    ASSUME NEW y \in Poly, NEW e \in Nat, NEW d \in Nat
    PROVE  Scaled(Scaled(y, e), d) = Scaled(y, d * e)
<1>1. \A i \in y : d * (e * i) = (d * e) * i
  BY DEF Poly
<1> QED
  BY <1>1 DEF Scaled

LEMMA SquareIsScaled ==
    ASSUME NEW y \in Poly
    PROVE  Times(y, y) = Scaled(y, 2)
<1> DEFINE Q == {z \in Poly : Times(z, z) = Scaled(z, 2)}
<1>1. /\ Scaled({}, 2) = {} /\ \A m \in Nat : Scaled({m}, 2) = {2 * m}
      /\ \A w, z \in Poly : Scaled(Add(w, z), 2) = Add(Scaled(w, 2), Scaled(z, 2))
  <2>1. 2 \in Nat \ {0}
    OBVIOUS
  <2> QED
    BY <2>1, ScaledRules
<1>2. {} \in Q
  BY <1>1, Ring
<1>3. ASSUME NEW z \in Q, NEW m \in Nat PROVE Add(z, {m}) \in Q
  <2> DEFINE w == {m}
  <2>1. w \in Poly /\ Times(w, w) = {m + m} /\ Scaled(w, 2) = {2 * m}
    BY <1>1, Powers
  <2>2. Times(w, w) = Scaled(w, 2) /\ w \in Poly
    <3>1. m + m = 2 * m
      OBVIOUS
    <3> QED
      BY <2>1, <3>1
  <2>3. z \in Poly /\ Times(z, z) = Scaled(z, 2)
    OBVIOUS
  <2> HIDE DEF w, Q
  <2> DEFINE t == Times(z, w)
             u == Times(z, z)
             v == Times(w, w)
             s == Add(z, w)
  <2>4. s \in Poly /\ Times(z, s) = Add(u, t)
    BY <2>2, <2>3, Ring
  <2>5. Times(w, z) = t
    BY <2>2, <2>3, Ring
  <2>6. Times(w, s) = Add(t, v)
    BY <2>2, <2>3, <2>5, Ring
  <2>7. Times(s, s) = Add(Times(z, s), Times(w, s))
    <3>1. s \in Poly /\ s = Add(z, w)
      BY <2>4
    <3> HIDE DEF s
    <3>2. Times(Add(z, w), s) = Add(Times(z, s), Times(w, s))
      BY <2>2, <2>3, <3>1, Ring
    <3> QED
      BY <3>1, <3>2
  <2>8. Scaled(s, 2) = Add(u, v)
    BY <1>1, <2>2, <2>3
  <2> HIDE DEF t, u, v, s
  <2>9. Add(Add(u, t), Add(t, v)) = Add(u, v)
    BY DEF Add
  <2>10. s \in Q
    BY <2>4, <2>6, <2>7, <2>8, <2>9 DEF Q
  <2> QED
    BY <2>10 DEF w, s
<1>4. Q \in SUBSET Poly
  OBVIOUS
<1> HIDE DEF Q
<1>5. y \in Q
  BY <1>2, <1>3, <1>4, SumOfPowers
<1> QED
  BY <1>5 DEF Q

\* Powers of two add up.
LEMMA PowersOfTwo ==
    /\ 2^0 = 1
    /\ \A i \in Nat : 2^i \in Nat \ {0} /\ 2^(i + 1) = 2 * 2^i /\ i < 2^i
    /\ \A i, j \in Nat : 2^(i + j) = 2^i * 2^j
    /\ \A i, j \in Nat : i < j => 2^i < 2^j
<1>1. 2^0 = 1
  OBVIOUS
<1>2. \A i \in Nat : 2^i \in Nat \ {0} /\ 2^(i + 1) = 2 * 2^i
  BY PowerOfTwo
<1> DEFINE p == [i \in Nat |-> 2^i]
<1>3. p \in [Nat -> Nat \ {0}] /\ p[0] = 1 /\ \A i \in Nat : p[i + 1] = 2 * p[i]
  <2>1. p \in [Nat -> Nat \ {0}]
    BY <1>2
  <2>2. p[0] = 1
    BY <1>1
  <2>3. \A i \in Nat : i + 1 \in Nat /\ p[i + 1] = 2^(i + 1) /\ p[i] = 2^i
    OBVIOUS
  <2>4. \A i \in Nat : p[i + 1] = 2 * p[i]
    BY <1>2, <2>3
  <2> QED
    BY <2>1, <2>2, <2>4
<1>4. \A i \in Nat : p[i] = 2^i
  OBVIOUS
<1> HIDE DEF p
<1>5. ASSUME NEW j \in Nat PROVE j < p[j]
  <2> DEFINE S == {i \in Nat : i < p[i]}
  <2>1. 0 \in S
    BY <1>3
  <2>2. ASSUME NEW i \in S PROVE i + 1 \in S
    <3>1. i \in Nat /\ i + 1 \in Nat /\ i < p[i] /\ p[i] \in Nat /\ p[i + 1] = 2 * p[i]
      BY <1>3
    <3>2. i + 1 < p[i + 1]
      BY <3>1
    <3> QED
      BY <3>1, <3>2
  <2>3. S \in SUBSET Nat
    OBVIOUS
  <2> HIDE DEF S
  <2>4. j \in S
    BY <2>1, <2>2, <2>3, Induction
  <2> QED
    BY <2>4 DEF S
<1>6. ASSUME NEW i \in Nat, NEW j \in Nat PROVE p[i + j] = p[i] * p[j]
  <2> DEFINE S == {l \in Nat : p[i + l] = p[i] * p[l]}
  <2>1. 0 \in S
    <3>1. i + 0 = i /\ p[i] \in Nat
      BY <1>3
    <3> QED
      BY <1>3, <3>1
  <2>2. ASSUME NEW l \in S PROVE l + 1 \in S
    <3>1. /\ l \in Nat /\ l + 1 \in Nat /\ i + l \in Nat /\ i + (l + 1) = (i + l) + 1
          /\ p[i + l] = p[i] * p[l]
      OBVIOUS
    <3>2. /\ p[i] \in Nat /\ p[l] \in Nat /\ p[(i + l) + 1] = 2 * p[i + l]
          /\ p[l + 1] = 2 * p[l]
      BY <1>3, <3>1
    <3> DEFINE a == p[i]
               b == p[l]
    <3>3. a \in Nat /\ b \in Nat /\ p[i + (l + 1)] = 2 * (a * b) /\ p[l + 1] = 2 * b
      BY <3>1, <3>2
    <3> HIDE DEF a, b
    <3>4. 2 * (a * b) = a * (2 * b)
      BY <3>3
    <3>5. p[i + (l + 1)] = p[i] * p[l + 1]
      BY <3>3, <3>4 DEF a
    <3> QED
      BY <3>1, <3>5
  <2>3. S \in SUBSET Nat
    OBVIOUS
  <2> HIDE DEF S
  <2>4. j \in S
    BY <2>1, <2>2, <2>3, Induction
  <2> QED
    BY <2>4 DEF S
<1>7. ASSUME NEW i \in Nat, NEW j \in Nat, i < j PROVE p[i] < p[j]
  <2> DEFINE l == j - i
  <2>1. l \in Nat /\ l >= 1 /\ i + l = j
    BY <1>7
  <2> HIDE DEF l
  <2>2. p[j] = p[i] * p[l] /\ p[i] \in Nat /\ p[i] > 0 /\ p[l] \in Nat /\ l < p[l]
    <3>1. p[i + l] = p[i] * p[l]
      BY <1>6, <2>1
    <3>2. p[i] \in Nat \ {0} /\ p[l] \in Nat \ {0} /\ l < p[l]
      BY <1>3, <1>5, <2>1
    <3>3. p[i] > 0
      BY <3>2
    <3> QED
      BY <2>1, <3>1, <3>2, <3>3
  <2> DEFINE a == p[i]
             b == p[l]
  <2>3. a \in Nat /\ a > 0 /\ b \in Nat /\ b >= 2 /\ p[j] = a * b
    BY <2>1, <2>2
  <2> HIDE DEF a, b
  <2>4. a * b = a + a * (b - 1) /\ a * (b - 1) > 0
    BY <2>3
  <2>5. a < a * b
    <3> DEFINE t == a * (b - 1)
               u == a * b
    <3>1. u = a + t /\ t > 0 /\ t \in Int
      BY <2>3, <2>4
    <3> HIDE DEF t, u
    <3>2. a < u
      BY <2>3, <3>1
    <3> QED
      BY <3>2 DEF u
  <2> QED
    BY <2>3, <2>5 DEF a
<1>8. \A i, j \in Nat : i + j \in Nat
  OBVIOUS
<1> QED
  BY <1>1, <1>2, <1>4, <1>5, <1>6, <1>7, <1>8

-----------------------------------------------------------------------------
(* When x^(2^i) is x, modulo a prime polynomial.                           *)

Returns(i, c) == Multiple(c, Add({2^i}, X))

LEMMA ScaledOfMultiple ==
    ASSUME NEW c, Prime(c), NEW y \in Poly, NEW i \in Nat
    PROVE  Multiple(c, Scaled(y, 2^i)) <=> Multiple(c, y)
<1> DEFINE same(j) == Multiple(c, Scaled(y, 2^j)) <=> Multiple(c, y)
           S == {j \in Nat : same(j)}
<1>1. 0 \in S
  <2>1. \A j \in y : 1 * j = j
    BY DEF Poly
  <2>2. Scaled(y, 1) = y
    BY <2>1 DEF Scaled
  <2>3. Scaled(y, 2^0) = y
    BY <2>2, PowersOfTwo
  <2>4. same(0)
    BY <2>3
  <2> HIDE DEF same
  <2> QED
    BY <2>4
<1>2. ASSUME NEW j \in S PROVE j + 1 \in S
  <2>1. j \in Nat /\ same(j)
    OBVIOUS
  <2> DEFINE e == 2^j
             w == Scaled(y, e)
  <2>2. e \in Nat \ {0} /\ 2^(j + 1) = 2 * e
    BY <2>1, PowersOfTwo
  <2>3. Multiple(c, w) <=> Multiple(c, y)
    BY <2>1
  <2> HIDE DEF e
  <2>4. w \in Poly
    BY <2>2, ScaledRules
  <2>5. Scaled(w, 2) = Scaled(y, 2 * e)
    BY <2>2, ScaledTwice
  <2> HIDE DEF w
  <2>6. Times(w, w) = Scaled(w, 2)
    BY <2>4, SquareIsScaled
  <2>7. Multiple(c, Times(w, w)) <=> Multiple(c, w)
    BY <2>4, PrimeDividesProduct, PrimeDegree, MultipleRules
  <2>8. Scaled(y, 2^(j + 1)) = Times(w, w)
    BY <2>2, <2>5, <2>6
  <2>9. same(j + 1)
    BY <2>3, <2>7, <2>8
  <2> HIDE DEF same
  <2> QED
    BY <2>1, <2>9
<1>3. S \in SUBSET Nat
  OBVIOUS
<1> HIDE DEF S
<1>4. i \in S
  BY <1>1, <1>2, <1>3, Induction
<1> QED
  BY <1>4 DEF S

LEMMA ScaledReturns ==
    ASSUME NEW c \in Poly, NEW e \in Nat \ {0}, Congruent({e}, {1}, c), NEW y \in Poly
    PROVE  Congruent(Scaled(y, e), y, c)
<1> DEFINE Q == {z \in Poly : Congruent(Scaled(z, e), z, c)}
<1>1. ASSUME NEW m \in Nat PROVE Congruent({e * m}, {m}, c)
  <2> DEFINE S == {l \in Nat : Congruent({e * l}, {l}, c)}
  <2>1. 0 \in S
    <3>1. e * 0 = 0
      OBVIOUS
    <3> QED
      BY <3>1, CongruentRules
  <2>2. ASSUME NEW l \in S PROVE l + 1 \in S
    <3> DEFINE a == {e}
               b == {1}
               u == {e * l}
               v == {l}
    <3>1. /\ l \in Nat /\ l + 1 \in Nat /\ e * l \in Nat /\ e * (l + 1) = e + e * l /\ l + 1 = 1 + l
          /\ Congruent(u, v, c)
      OBVIOUS
    <3>2. /\ a \in Poly /\ b \in Poly /\ u \in Poly /\ v \in Poly
          /\ Times(a, u) = {e + e * l} /\ Times(b, v) = {1 + l} /\ Congruent(a, b, c)
      <4>1. 1 \in Nat
        OBVIOUS
      <4> QED
        BY <3>1, <4>1, Powers
    <3>3. Times(a, u) = {e * (l + 1)} /\ Times(b, v) = {l + 1}
      BY <3>1, <3>2
    <3> HIDE DEF a, b, u, v
    <3>4. Congruent(Times(a, u), Times(a, v), c)
      BY <3>1, <3>2, CongruentRules
    <3>5. Congruent(Times(v, a), Times(v, b), c)
      BY <3>2, CongruentRules
    <3>6. Times(v, a) = Times(a, v) /\ Times(v, b) = Times(b, v)
      BY <3>2, Ring
    <3>7. Congruent(Times(a, u), Times(b, v), c)
      BY <3>4, <3>5, <3>6, CongruentRules
    <3> QED
      BY <3>1, <3>3, <3>7
  <2>3. S \in SUBSET Nat
    OBVIOUS
  <2> HIDE DEF S
  <2>4. m \in S
    BY <2>1, <2>2, <2>3, Induction
  <2> QED
    BY <2>4 DEF S
<1>2. {} \in Q
  <2>1. Scaled({}, e) = {} /\ {} \in Poly
    BY ScaledRules, Ring
  <2>2. Congruent({}, {}, c)
    BY CongruentRules
  <2> QED
    BY <2>1, <2>2
<1>3. ASSUME NEW z \in Q, NEW m \in Nat PROVE Add(z, {m}) \in Q
  <2> DEFINE w == {m}
  <2>1. z \in Poly /\ w \in Poly /\ Congruent(Scaled(z, e), z, c)
    BY Powers
  <2>2. Congruent(Scaled(w, e), w, c)
    BY <1>1, ScaledRules
  <2> HIDE DEF w, Q
  <2>3. Scaled(Add(z, w), e) = Add(Scaled(z, e), Scaled(w, e)) /\ Add(z, w) \in Poly
    BY <2>1, ScaledRules, Ring
  <2>4. Congruent(Add(Scaled(z, e), Scaled(w, e)), Add(z, w), c)
    BY <2>1, <2>2, CongruentRules
  <2>5. Add(z, w) \in Q
    BY <2>3, <2>4 DEF Q
  <2> QED
    BY <2>5 DEF w
<1>4. Q \in SUBSET Poly
  OBVIOUS
<1> HIDE DEF Q
<1>5. y \in Q
  BY <1>2, <1>3, <1>4, SumOfPowers
<1> QED
  BY <1>5 DEF Q

\* P has the powers of y.
PowersOf(P, y, m) ==
    P \in [0..m -> Poly] /\ P[0] = One /\ \A j \in 1..m : P[j] = Times(y, P[j - 1])

LEMMA PowersExist ==
    ASSUME NEW y \in Poly, NEW m \in Nat
    PROVE  \E P : PowersOf(P, y, m)
<1> DEFINE h == [p \in Nat \X Poly |-> Times(y, p[2])]
<1>1. One \in Poly
  BY Ring
<1>2. h \in [Nat \X Poly -> Poly]
  <2> SUFFICES ASSUME NEW p \in Nat \X Poly PROVE Times(y, p[2]) \in Poly
    OBVIOUS
  <2>1. p[2] \in Poly
    OBVIOUS
  <2> QED
    BY <2>1, Ring
<1>3. \A i \in 1..m, z \in Poly : h[<<i, z>>] = Times(y, z)
  OBVIOUS
<1> HIDE DEF h
<1>4. PICK f : Recursive(f, Poly, One, h, m)
  BY <1>1, <1>2, Recursion
<1>5. f \in [0..m -> Poly] /\ f[0] = One /\ \A i \in 1..m : f[i] = h[<<i, f[i - 1]>>]
  BY <1>4 DEF Recursive
<1>6. \A i \in 1..m : f[i - 1] \in Poly
  <2>1. \A i \in 1..m : i - 1 \in 0..m
    OBVIOUS
  <2> QED
    BY <1>5, <2>1
<1>7. \A i \in 1..m : f[i] = Times(y, f[i - 1])
  BY <1>3, <1>5, <1>6
<1> QED
  BY <1>5, <1>7 DEF PowersOf

LEMMA PowerIsScaled ==
    ASSUME NEW y \in Poly, NEW i \in Nat, NEW P, PowersOf(P, y, 2^i)
    PROVE  P[2^i] = Scaled(y, 2^i)
<1> DEFINE N == 2^i
<1>1. N \in Nat \ {0}
  BY PowersOfTwo
<1>2. P \in [0..N -> Poly] /\ P[0] = One /\ \A j \in 1..N : P[j] = Times(y, P[j - 1])
  BY DEF PowersOf
<1> HIDE DEF N
<1>3. ASSUME NEW j \in Nat PROVE 2 * j <= N => P[2 * j] = Times(P[j], P[j])
  <2> DEFINE S == {l \in Nat : 2 * l <= N => P[2 * l] = Times(P[l], P[l])}
  <2>1. 0 \in S
    <3>1. 2 * 0 = 0
      OBVIOUS
    <3>2. P[0] = Times(P[0], P[0])
      BY <1>2, Ring
    <3> QED
      BY <3>1, <3>2
  <2>2. ASSUME NEW l \in S PROVE l + 1 \in S
    <3>1. l \in Nat /\ (2 * l <= N => P[2 * l] = Times(P[l], P[l]))
      OBVIOUS
    <3> SUFFICES ASSUME 2 * (l + 1) <= N PROVE P[2 * (l + 1)] = Times(P[l + 1], P[l + 1])
      BY <3>1
    <3> HIDE DEF S
    <3>2. /\ 2 * (l + 1) \in 1..N /\ 2 * (l + 1) - 1 = 2 * l + 1 /\ 2 * l + 1 \in 1..N
          /\ (2 * l + 1) - 1 = 2 * l /\ 2 * l \in 0..N /\ l \in 0..N /\ l + 1 \in 1..N
          /\ (l + 1) - 1 = l /\ 2 * l <= N
      BY <1>1, <3>1
    <3> DEFINE p == P[l]
               q == P[2 * l]
               r == P[l + 1]
    <3>3. P[2 * l + 1] = Times(y, q) /\ q = Times(p, p) /\ r = Times(y, p) /\ p \in Poly
      BY <1>2, <3>1, <3>2
    <3>4. P[2 * (l + 1)] = Times(y, Times(y, q))
      BY <1>2, <3>2, <3>3
    <3> HIDE DEF p, q, r
    <3>5. Times(r, r) = Times(y, Times(y, q))
      <4>1. r \in Poly /\ Times(r, r) = Times(y, Times(p, r))
        BY <3>3, Ring
      <4>2. Times(p, r) = Times(r, p)
        BY <3>3, <4>1, Ring
      <4>3. Times(r, p) = Times(y, Times(p, p))
        BY <3>3, Ring
      <4> QED
        BY <3>3, <4>1, <4>2, <4>3
    <3> QED
      BY <3>4, <3>5 DEF r
  <2>3. S \in SUBSET Nat
    OBVIOUS
  <2> HIDE DEF S
  <2>4. j \in S
    BY <2>1, <2>2, <2>3, Induction
  <2> QED
    BY <2>4 DEF S
<1> DEFINE T == {l \in Nat : l <= i => P[2^l] = Scaled(y, 2^l)}
<1>4. 0 \in T
  <2>1. \A j \in y : 1 * j = j
    BY DEF Poly
  <2>2. Scaled(y, 1) = y
    BY <2>1 DEF Scaled
  <2>3. P[1] = Times(y, P[0])
    <3>1. 1 \in 1..N /\ 1 - 1 = 0
      BY <1>1
    <3> QED
      BY <1>2, <3>1
  <2>4. P[1] = y
    BY <1>2, <2>3, Ring
  <2>5. P[2^0] = Scaled(y, 2^0)
    BY <2>2, <2>4, PowersOfTwo
  <2> QED
    BY <2>5
<1>5. ASSUME NEW l \in T PROVE l + 1 \in T
  <2>1. l \in Nat /\ (l <= i => P[2^l] = Scaled(y, 2^l))
    OBVIOUS
  <2> SUFFICES ASSUME l + 1 <= i PROVE P[2^(l + 1)] = Scaled(y, 2^(l + 1))
    BY <2>1
  <2> HIDE DEF T
  <2> DEFINE e == 2^l
             w == Scaled(y, e)
  <2>2. l <= i /\ l + 1 \in Nat /\ (l + 1 < i \/ l + 1 = i)
    BY <2>1
  <2>3. e \in Nat \ {0} /\ 2^(l + 1) = 2 * e
    BY <2>1, PowersOfTwo
  <2>4. 2^(l + 1) <= N /\ 2^(l + 1) \in Nat
    <3>1. 2^(l + 1) < N \/ 2^(l + 1) = N
      BY <2>2, PowersOfTwo DEF N
    <3>2. 2^(l + 1) \in Nat
      BY <2>3
    <3> QED
      BY <1>1, <3>1, <3>2
  <2>5. P[e] = w
    BY <2>1, <2>2
  <2> HIDE DEF e
  <2>6. P[2 * e] = Times(w, w)
    <3>1. 2 * e <= N
      BY <2>3, <2>4
    <3>2. P[2 * e] = Times(P[e], P[e])
      BY <1>3, <2>3, <3>1
    <3> QED
      BY <2>5, <3>2
  <2>7. w \in Poly
    BY <2>3, ScaledRules
  <2>8. Scaled(w, 2) = Scaled(y, 2 * e)
    BY <2>3, ScaledTwice
  <2> HIDE DEF w
  <2>9. Times(w, w) = Scaled(w, 2)
    BY <2>7, SquareIsScaled
  <2> QED
    BY <2>3, <2>6, <2>8, <2>9
<1>6. T \in SUBSET Nat
  OBVIOUS
<1> HIDE DEF T
<1>7. i \in T
  BY <1>4, <1>5, <1>6, Induction
<1> QED
  BY <1>7 DEF T, N

\* The polynomials of a lower degree than c, no two of which are congruent.
LEMMA ResiduesApart ==
    ASSUME NEW c \in Poly, c # {}
    PROVE  LET low == SUBSET (0..(Deg(c) - 1))
           IN  /\ low \in SUBSET Poly /\ IsFiniteSet(low) /\ Cardinality(low) = 2^Deg(c)
               /\ Apart(low, c)
<1> DEFINE k == Deg(c)
           low == SUBSET (0..(k - 1))
<1>1. k \in Nat
  BY Highest
<1>2. low \in SUBSET Poly
  <2>1. k - 1 \in Int
    BY <1>1
  <2>2. \A z \in low : z \in Poly
    BY <2>1, BoundedPoly
  <2> QED
    BY <2>2
<1>3. IsFiniteSet(0..(k - 1)) /\ Cardinality(0..(k - 1)) = k
  BY <1>1, FS_Interval
<1>4. IsFiniteSet(low) /\ Cardinality(low) = 2^k
  BY <1>3, FS_SUBSET
<1>5. ASSUME NEW y \in low, NEW z \in low, Congruent(y, z, c) PROVE y = z
  <2>1. PICK q \in Poly : Times(q, c) = Add(y, z)
    BY <1>5 DEF Congruent, Multiple
  <2>2. \A j \in Add(y, z) : j < k
    BY <1>1 DEF Add
  <2>3. q = {}
    BY <2>1, <2>2, SmallMultiple
  <2>4. Add(y, z) = {}
    BY <2>1, <2>3, TimesNone
  <2> QED
    BY <2>4, NoDifference
<1>6. Apart(low, c)
  <2> HIDE DEF low
  <2> QED
    BY <1>5 DEF Apart
<1> QED
  BY <1>2, <1>4, <1>6

\* x^(2^i) cannot be x below the degree: every residue would be a root of y^(2^i) - y.
LEMMA ReturnsLate ==
    ASSUME NEW c, Prime(c), NEW i \in Nat \ {0}, Returns(i, c)
    PROVE  Deg(c) <= i
<1> DEFINE N == 2^i
           a == [j \in 0..N |-> IF j = 0 \/ j = N - 1 THEN One ELSE {}]
           low == SUBSET (0..(Deg(c) - 1))
<1>1. c \in Poly /\ c # {} /\ Deg(c) \in Nat
  BY PrimeDegree
<1>2. N \in Nat /\ N >= 2
  <2>1. i < N /\ N \in Nat /\ i >= 1
    BY PowersOfTwo
  <2> QED
    BY <2>1
<1>3. Congruent({N}, {1}, c)
  BY DEF Returns, Congruent, X
<1>4. a \in [0..N -> Poly] /\ a[0] = One
  BY <1>2, Ring
<1>5. ASSUME NEW y \in low PROVE Root(a, y, N, c)
  <2>1. y \in Poly
    BY <1>1, ResiduesApart
  <2>2. PICK P : PowersOf(P, y, N)
    BY <1>2, <2>1, PowersExist
  <2>3. P[N] = Scaled(y, N)
    BY <2>1, <2>2, PowerIsScaled
  <2>4. Congruent(P[N], y, c)
    <3>1. N \in Nat \ {0}
      BY <1>2
    <3> HIDE DEF N
    <3> QED
      BY <1>1, <1>3, <2>1, <2>3, <3>1, ScaledReturns
  <2> HIDE DEF N
  <2>5. P \in [0..N -> Poly] /\ P[0] = One /\ \A j \in 1..N : P[j] = Times(y, P[j - 1])
    BY <2>2 DEF PowersOf
  <2> DEFINE f == [j \in 0..N |-> IF j < N - 1 THEN P[j]
                                  ELSE IF j = N - 1 THEN Add(P[j], One) ELSE Add(P[j], y)]
  <2>6. f \in [0..N -> Poly]
    <3>1. \A j \in 0..N : P[j] \in Poly /\ Add(P[j], One) \in Poly /\ Add(P[j], y) \in Poly
      BY <2>1, <2>5, Ring
    <3> QED
      BY <3>1
  <2>7. f[0] = a[0]
    BY <1>2, <1>4, <2>5
  <2>8. ASSUME NEW j \in 1..N PROVE f[j] = Add(Times(y, f[j - 1]), a[j])
    <3>1. j - 1 \in 0..N /\ j \in 0..N /\ P[j] = Times(y, P[j - 1]) /\ P[j - 1] \in Poly
      BY <1>2, <2>5
    <3>2. CASE j < N - 1
      <4>1. f[j] = P[j] /\ f[j - 1] = P[j - 1] /\ a[j] = {}
        BY <1>2, <3>1, <3>2
      <4> HIDE DEF f, a
      <4> QED
        BY <3>1, <4>1, AddRules
    <3>3. CASE j = N - 1
      <4>1. f[j] = Add(P[j], One) /\ f[j - 1] = P[j - 1] /\ a[j] = One
        BY <1>2, <3>1, <3>3
      <4> HIDE DEF f, a
      <4> QED
        BY <3>1, <4>1
    <3>4. CASE j = N
      <4>1. f[j] = Add(P[j], y) /\ f[j - 1] = Add(P[j - 1], One) /\ a[j] = {}
        BY <1>2, <3>1, <3>4
      <4> HIDE DEF f, a
      <4> DEFINE p == P[j - 1]
      <4>2. p \in Poly /\ f[j] = Add(Times(y, p), y) /\ f[j - 1] = Add(p, One)
        BY <3>1, <4>1
      <4> HIDE DEF p
      <4>3. Times(y, Add(p, One)) = Add(Times(y, p), y)
        BY <2>1, <4>2, Ring
      <4> QED
        BY <4>1, <4>2, <4>3, AddRules
    <3> QED
      BY <1>2, <3>2, <3>3, <3>4
  <2>9. f[N] = Add(P[N], y)
    BY <1>2
  <2> HIDE DEF f, a, low
  <2>10. Evaluates(f, a, y, N)
    BY <2>6, <2>7, <2>8 DEF Evaluates
  <2>11. Multiple(c, f[N])
    BY <2>4, <2>9 DEF Congruent
  <2> QED
    BY <2>10, <2>11 DEF Root
<1>6. low \in SUBSET Poly /\ IsFiniteSet(low) /\ Cardinality(low) = 2^Deg(c) /\ Apart(low, c)
  BY <1>1, ResiduesApart
<1>7. FewRoots(N, c)
  BY <1>2, RootBound
<1> HIDE DEF a, low
<1>8. Cardinality(low) <= N
  BY <1>4, <1>5, <1>6, <1>7 DEF FewRoots
<1>9. 2^Deg(c) <= 2^i
  BY <1>6, <1>8
<1>10. i < Deg(c) => 2^i < 2^Deg(c) /\ 2^i \in Nat /\ 2^Deg(c) \in Nat
  BY <1>1, PowersOfTwo
<1> DEFINE u == 2^i
           v == 2^Deg(c)
<1>11. v <= u /\ (i < Deg(c) => u < v /\ u \in Nat /\ v \in Nat)
  BY <1>9, <1>10
<1> HIDE DEF u, v
<1> QED
  BY <1>1, <1>11

\* c(x^e), as Horner's rule finds it, for a power e of two: a root of c, as x is.
LEMMA PowerIsRoot ==
    ASSUME NEW c, Prime(c), NEW i \in Nat,
           NEW a, a = [j \in 0..Deg(c) |-> IF Deg(c) - j \in c THEN One ELSE {}]
    PROVE  Root(a, {2^i}, Deg(c), c)
<1> DEFINE e == 2^i
           k == Deg(c)
           upTo(j) == {l \in c : k - j <= l}
           f == [j \in 0..k |-> {e * (l - (k - j)) : l \in upTo(j)}]
           x == {e}
<1>1. c \in Poly /\ c # {} /\ k \in Nat
  BY PrimeDegree
<1>2. k \in c /\ c \in SUBSET Nat /\ \A l \in c : l \in Nat /\ l <= k
  BY <1>1, Highest DEF Poly
<1>3. e \in Nat \ {0} /\ x \in Poly
  BY PowersOfTwo, Powers
<1>4. f[k] = Scaled(c, e)
  <2>1. upTo(k) = c /\ \A l \in c : l - (k - k) = l
    <3> HIDE DEF k
    <3>1. \A l \in c : k - k <= l /\ l - (k - k) = l
      BY <1>1, <1>2
    <3> QED
      BY <3>1
  <2>2. f[k] = {e * (l - (k - k)) : l \in upTo(k)}
    BY <1>1
  <2>3. f[k] = {e * l : l \in c}
    BY <2>1, <2>2
  <2> QED
    BY <2>3 DEF Scaled
<1>5. Multiple(c, f[k])
  <2>1. Multiple(c, c)
    BY <1>1, MultipleRules
  <2>2. Multiple(c, Scaled(c, e))
    BY <1>1, <2>1, ScaledOfMultiple
  <2> QED
    BY <1>4, <2>2
<1> HIDE DEF e, k
<1>6. f[0] = One /\ a[0] = One
  <2>1. upTo(0) = {k} /\ e * (k - (k - 0)) = 0 /\ k - 0 = k
    <3>1. k - 0 = k /\ k - (k - 0) = 0 /\ e * 0 = 0
      BY <1>1, <1>3
    <3>2. \A l \in c : k <= l <=> l = k
      BY <1>1, <1>2
    <3> QED
      BY <1>2, <3>1, <3>2
  <2>2. f[0] = {e * (l - (k - 0)) : l \in upTo(0)}
    BY <1>1
  <2>3. f[0] = {0}
    BY <2>1, <2>2
  <2>4. a[0] = One
    BY <1>1, <1>2, <2>1 DEF k
  <2> QED
    BY <2>3, <2>4 DEF One
<1>7. ASSUME NEW j \in 1..k PROVE f[j] = Add(Shift(f[j - 1], e), a[j])
  <2> DEFINE s == {e * (l - (k - (j - 1))) + e : l \in upTo(j - 1)}
             t == {e * (l - (k - j)) : l \in upTo(j - 1)}
  <2>1. Shift(f[j - 1], e) = s
    <3>1. f[j - 1] = {e * (l - (k - (j - 1))) : l \in upTo(j - 1)}
      BY <1>1
    <3> QED
      BY <3>1 DEF Shift
  <2>2. \A l \in upTo(j - 1) : e * (l - (k - (j - 1))) + e = e * (l - (k - j))
    <3> SUFFICES ASSUME NEW l \in upTo(j - 1)
                 PROVE  e * (l - (k - (j - 1))) + e = e * (l - (k - j))
      OBVIOUS
    <3> DEFINE u == l - (k - (j - 1))
    <3>1. u \in Int /\ l - (k - j) = u + 1
      BY <1>1, <1>2
    <3> HIDE DEF u
    <3>2. e * (u + 1) = e * u + e
      BY <1>3, <3>1
    <3> QED
      BY <3>1, <3>2 DEF u
  <2>3. s = t
    <3> DEFINE p(l) == e * (l - (k - (j - 1))) + e
               q(l) == e * (l - (k - j))
    <3>1. \A l \in upTo(j - 1) : p(l) = q(l)
      BY <2>2
    <3> HIDE DEF p, q, upTo
    <3>2. {p(l) : l \in upTo(j - 1)} = {q(l) : l \in upTo(j - 1)}
      BY <3>1
    <3> QED
      BY <3>2 DEF p, q
  <2>4. 0 \notin t
    <3> SUFFICES ASSUME NEW l \in upTo(j - 1) PROVE e * (l - (k - j)) # 0
      OBVIOUS
    <3> DEFINE u == l - (k - j)
    <3>1. u \in Nat /\ u > 0
      BY <1>1, <1>2
    <3> HIDE DEF u
    <3>2. e * u > 0
      BY <1>3, <3>1
    <3>3. e * u # 0
      BY <1>3, <3>1, <3>2
    <3> QED
      BY <3>3 DEF u
  <2>5. j \in 0..k /\ k - j \in Nat /\ e * 0 = 0 /\ (k - j) - (k - j) = 0
    BY <1>1, <1>3
  <2>6. f[j] = {e * (l - (k - j)) : l \in upTo(j)}
    BY <2>5
  <2>7. a[j] = IF k - j \in c THEN One ELSE {}
    BY <2>5 DEF k
  <2>10. \A l \in c : k - j <= l <=> k - (j - 1) <= l \/ l = k - j
    BY <1>1, <1>2
  <2>8. CASE k - j \in c
    <3>1. upTo(j) = upTo(j - 1) \union {k - j}
      BY <2>8, <2>10
    <3>2. f[j] = t \union {e * ((k - j) - (k - j))}
      BY <2>6, <3>1
    <3>3. f[j] = t \union {0}
      BY <2>5, <3>2
    <3>4. t \intersect {0} = {}
      BY <2>4
    <3> HIDE DEF s, t, f
    <3>5. f[j] = Add(t, {0})
      BY <3>3, <3>4, AddRules
    <3>6. a[j] = {0}
      BY <2>7, <2>8 DEF One
    <3>7. Shift(f[j - 1], e) = t
      BY <2>1, <2>3 DEF s, t, f
    <3> QED
      BY <3>5, <3>6, <3>7
  <2>9. CASE k - j \notin c
    <3>1. upTo(j) = upTo(j - 1)
      BY <2>9, <2>10
    <3>2. f[j] = t
      BY <2>6, <3>1
    <3>3. a[j] = {}
      BY <2>7, <2>9
    <3>4. Shift(f[j - 1], e) = t
      BY <2>1, <2>3
    <3> HIDE DEF t, f
    <3>5. Add(t, {}) = t
      BY AddRules
    <3> QED
      BY <3>2, <3>3, <3>4, <3>5
  <2> QED
    BY <2>8, <2>9
<1>8. ASSUME NEW j \in 0..k PROVE f[j] \in SUBSET Nat
  <2> SUFFICES ASSUME NEW l \in upTo(j) PROVE e * (l - (k - j)) \in Nat
    OBVIOUS
  <2>1. l - (k - j) \in Nat
    BY <1>1, <1>2
  <2> QED
    BY <1>3, <2>1
<1>9. DOMAIN f = 0..k /\ f = [j \in 0..k |-> f[j]]
  OBVIOUS
<1> HIDE DEF f
<1>10. ASSUME NEW j \in 1..k, f[j - 1] \in Poly
       PROVE  f[j] \in Poly /\ f[j] = Add(Times(x, f[j - 1]), a[j])
  <2>1. f[j - 1] \in SUBSET Nat
    BY <1>10 DEF Poly
  <2>2. Times(x, f[j - 1]) = Shift(f[j - 1], e)
    BY <1>3, <2>1, TimesPower
  <2>3. f[j] = Add(Times(x, f[j - 1]), a[j])
    BY <1>7, <2>2
  <2>4. a[j] \in Poly
    <3>1. j \in 0..k
      BY <1>1
    <3> QED
      BY <3>1, Ring DEF k
  <2>5. x \in Poly
    BY <1>3
  <2> HIDE DEF x
  <2> DEFINE p == f[j - 1]
             b == a[j]
  <2>6. p \in Poly /\ b \in Poly /\ f[j] = Add(Times(x, p), b)
    BY <1>10, <2>3, <2>4
  <2> HIDE DEF p, b
  <2>7. Add(Times(x, p), b) \in Poly
    BY <2>5, <2>6, Ring
  <2> QED
    BY <2>3, <2>6, <2>7
<1> DEFINE S == {j \in Nat : j <= k => f[j] \in Poly}
<1>11. \A j \in Nat : j \in S
  <2>1. 0 \in S
    BY <1>6, Ring
  <2>2. ASSUME NEW j \in S PROVE j + 1 \in S
    <3>1. j \in Nat /\ (j <= k => f[j] \in Poly)
      OBVIOUS
    <3>2. j + 1 <= k => j + 1 \in 1..k /\ (j + 1) - 1 = j /\ j <= k
      BY <1>1, <3>1
    <3>3. j + 1 <= k => f[j + 1] \in Poly
      BY <1>10, <3>1, <3>2
    <3> QED
      BY <3>1, <3>3
  <2>3. S \in SUBSET Nat
    OBVIOUS
  <2> HIDE DEF S
  <2> QED
    BY <2>1, <2>2, <2>3, Induction
<1>12. \A j \in 0..k : f[j] \in Poly
  BY <1>1, <1>11
<1>13. \A j \in 1..k : f[j] = Add(Times(x, f[j - 1]), a[j])
  <2>1. \A j \in 1..k : j - 1 \in 0..k
    BY <1>1
  <2> QED
    BY <1>10, <1>12, <2>1
<1>14. Evaluates(f, a, x, k)
  BY <1>6, <1>9, <1>12, <1>13 DEF Evaluates
<1> QED
  BY <1>5, <1>14 DEF Root, e, k

\* x^(2^(l + i)) is x^(2^l) when x^(2^i) is x.
LEMMA ReturnsLater ==
    ASSUME NEW c, Prime(c), NEW i \in Nat, NEW l \in Nat
    PROVE  Congruent({2^(l + i)}, {2^l}, c) <=> Returns(i, c)
<1> DEFINE e == 2^l
           u == {2^i}
<1>1. e \in Nat \ {0} /\ 2^(l + i) = e * 2^i /\ 2^i \in Nat
  BY PowersOfTwo
<1>2. u \in Poly /\ X \in Poly
  BY <1>1, Powers DEF X
<1>3. Scaled(u, e) = {2^(l + i)} /\ Scaled(X, e) = {e}
  <2>1. Scaled({2^i}, e) = {e * 2^i} /\ Scaled({1}, e) = {e * 1} /\ e * 1 = e
    <3>1. 1 \in Nat /\ e * 1 = e
      BY <1>1
    <3> HIDE DEF e
    <3> QED
      BY <1>1, <3>1, ScaledRules
  <2> QED
    BY <1>1, <2>1 DEF X
<1> HIDE DEF u
<1>4. Scaled(Add(u, X), e) = Add(Scaled(u, e), Scaled(X, e)) /\ Add(u, X) \in Poly
  <2>1. e \in Nat \ {0}
    BY <1>1
  <2> HIDE DEF e
  <2>2. \A y, z \in Poly : Scaled(Add(y, z), e) = Add(Scaled(y, e), Scaled(z, e))
    BY <2>1, ScaledRules
  <2> QED
    BY <1>2, <2>2, Ring
<1>5. Multiple(c, Scaled(Add(u, X), e)) <=> Multiple(c, Add(u, X))
  BY <1>4, ScaledOfMultiple
<1> QED
  BY <1>3, <1>4, <1>5 DEF Returns, Congruent, u

\* x^(2^i) is x for an i up to the degree: x and the others up to there are roots of c.
LEMMA ReturnsSoon ==
    ASSUME NEW c, Prime(c)
    PROVE  \E i \in 1..Deg(c) : Returns(i, c)
<1> SUFFICES ASSUME \A i \in 1..Deg(c) : ~ Returns(i, c) PROVE FALSE
  OBVIOUS
<1> DEFINE k == Deg(c)
           a == [j \in 0..k |-> IF k - j \in c THEN One ELSE {}]
           S == {{2^i} : i \in 0..k}
           f == [i \in 0..k |-> {2^i}]
<1>1. c \in Poly /\ k \in Nat /\ k \in c
  BY PrimeDegree, Highest
<1>2. a \in [0..k -> Poly] /\ a[0] = One
  <2>1. 0 \in 0..k /\ k - 0 = k
    BY <1>1
  <2> QED
    BY <1>1, <2>1, Ring
<1>3. \A y \in S : Root(a, y, k, c)
  BY <1>1, PowerIsRoot
<1>4. S \in SUBSET Poly
  <2>1. \A i \in 0..k : i \in Nat
    BY <1>1
  <2>2. \A i \in Nat : 2^i \in Nat
    BY PowersOfTwo
  <2>3. \A i \in Nat : {i} \in Poly
    BY Powers
  <2> HIDE DEF k
  <2>4. \A i \in 0..k : {2^i} \in Poly
    BY <2>1, <2>2, <2>3
  <2> QED
    BY <2>4
<1> HIDE DEF a, k
<1>5. ASSUME NEW i \in 0..k, NEW j \in 0..k, i < j PROVE ~ Congruent({2^j}, {2^i}, c)
  <2> DEFINE d == j - i
  <2>1. d \in Nat /\ d \in 1..k /\ i + d = j /\ i \in Nat
    BY <1>1, <1>5
  <2> HIDE DEF d
  <2>2. ~ Returns(d, c)
    BY <2>1 DEF k
  <2>3. Congruent({2^(i + d)}, {2^i}, c) <=> Returns(d, c)
    BY <2>1, ReturnsLater
  <2> QED
    BY <2>1, <2>2, <2>3
<1>6. \A i, j \in 0..k : Congruent({2^i}, {2^j}, c) => i = j
  <2>1. ASSUME NEW i \in 0..k, NEW j \in 0..k, Congruent({2^i}, {2^j}, c), i # j PROVE FALSE
    <3>1. i < j \/ j < i
      BY <1>1, <2>1
    <3>2. Congruent({2^j}, {2^i}, c)
      BY <1>1, <2>1, CongruentRules
    <3> QED
      BY <1>5, <2>1, <3>1, <3>2
  <2> QED
    BY <2>1
<1>7. Apart(S, c)
  BY <1>6 DEF Apart
<1>8. f \in Bijection(0..k, S)
  <2>1. f \in [0..k -> S]
    OBVIOUS
  <2>2. \A i, j \in 0..k : f[i] = f[j] => i = j
    <3>1. \A y : Congruent(y, y, c)
      BY <1>1, CongruentRules
    <3> QED
      BY <1>6, <3>1
  <2>3. \A y \in S : \E i \in 0..k : f[i] = y
    OBVIOUS
  <2> HIDE DEF f, S
  <2> QED
    BY <2>1, <2>2, <2>3 DEF Bijection, Injection, Surjection, IsInjective
<1>9. IsFiniteSet(0..k) /\ Cardinality(0..k) = k + 1
  <2>1. 0 \in Int /\ k \in Int /\ 0 <= k /\ (k - 0) + 1 = k + 1
    BY <1>1
  <2> QED
    BY <2>1, FS_Interval
<1> HIDE DEF f, S
<1>10. IsFiniteSet(S) /\ Cardinality(S) = k + 1
  <2>1. ExistsBijection(0..k, S)
    BY <1>8 DEF ExistsBijection
  <2> QED
    BY <1>9, <2>1, FS_Bijection
<1>11. FewRoots(k, c)
  BY <1>1, RootBound
<1>12. Cardinality(S) <= k
  BY <1>2, <1>3, <1>4, <1>7, <1>10, <1>11 DEF FewRoots
<1> QED
  BY <1>1, <1>10, <1>12

\* x^(2^i) is x, modulo a prime of degree k, for the multiples i of k.
LEMMA Returning ==
    ASSUME NEW c, Prime(c), NEW d \in Nat
    PROVE  Returns(d, c) <=> (d % Deg(c)) = 0
<1> DEFINE k == Deg(c)
<1>1. c \in Poly /\ k \in Nat \ {0}
  BY PrimeDegree
<1>2. Returns(k, c)
  <2>1. PICK i \in 1..k : Returns(i, c)
    BY ReturnsSoon
  <2>2. i \in Nat \ {0} /\ i <= k
    OBVIOUS
  <2>3. k <= i
    BY <2>1, <2>2, ReturnsLate
  <2>4. i = k
    BY <1>1, <2>2, <2>3
  <2> QED
    BY <2>1, <2>4
<1> HIDE DEF k
<1>3. ASSUME NEW b \in Nat PROVE Returns(b, c) <=> Returns(b + k, c)
  <2>1. Congruent({2^(b + k)}, {2^b}, c)
    BY <1>1, <1>2, ReturnsLater
  <2> DEFINE u == {2^(b + k)}
             v == {2^b}
  <2>2. (Returns(b, c) <=> Congruent(v, X, c)) /\ (Returns(b + k, c) <=> Congruent(u, X, c))
    BY DEF Returns, Congruent
  <2>3. Congruent(u, v, c)
    BY <2>1
  <2> HIDE DEF u, v
  <2>4. Congruent(v, u, c)
    BY <1>1, <2>3, CongruentRules
  <2>5. Congruent(v, X, c) => Congruent(u, X, c)
    BY <1>1, <2>3, CongruentRules
  <2>6. Congruent(u, X, c) => Congruent(v, X, c)
    BY <1>1, <2>4, CongruentRules
  <2> QED
    BY <2>2, <2>5, <2>6
<1>4. ASSUME NEW b \in Nat, NEW m \in Nat PROVE Returns(b, c) <=> Returns(b + m * k, c)
  <2> DEFINE same(l) == Returns(b, c) <=> Returns(b + l * k, c)
             S == {l \in Nat : same(l)}
  <2>1. 0 \in S
    <3>1. b + 0 * k = b
      BY <1>1
    <3> QED
      BY <3>1
  <2>2. ASSUME NEW l \in S PROVE l + 1 \in S
    <3>1. l \in Nat /\ same(l)
      OBVIOUS
    <3>2. b + l * k \in Nat /\ (b + l * k) + k = b + (l + 1) * k
      BY <1>1, <3>1
    <3> DEFINE j == b + l * k
    <3>3. j \in Nat /\ j + k = b + (l + 1) * k /\ (Returns(b, c) <=> Returns(j, c))
      BY <3>1, <3>2
    <3> HIDE DEF j
    <3>4. Returns(j, c) <=> Returns(j + k, c)
      BY <1>3, <3>3
    <3>5. same(l + 1)
      BY <3>3, <3>4
    <3> HIDE DEF same
    <3> QED
      BY <3>1, <3>5
  <2>3. S \in SUBSET Nat
    OBVIOUS
  <2> HIDE DEF S
  <2>4. m \in S
    BY <2>1, <2>2, <2>3, Induction
  <2> QED
    BY <2>4 DEF S
<1> DEFINE b == d % k
           m == d \div k
<1>5. b \in Nat /\ b < k /\ m \in Nat /\ d = b + m * k
  BY <1>1
<1> HIDE DEF b, m
<1>6. Returns(b, c) <=> Returns(d, c)
  BY <1>4, <1>5
<1>7. Returns(0, c)
  <2>1. {2^0} = X
    BY PowersOfTwo DEF X
  <2>2. Add({2^0}, X) = {}
    BY <2>1, AddRules
  <2> QED
    BY <1>1, <2>2, MultipleRules DEF Returns
<1>8. ASSUME Returns(b, c), b # 0 PROVE FALSE
  <2>1. Deg(c) <= b
    BY <1>5, <1>8, ReturnsLate
  <2> QED
    BY <1>1, <1>5, <2>1 DEF k
<1>9. Returns(d, c) <=> b = 0
  BY <1>6, <1>7, <1>8
<1> QED
  BY <1>9 DEF b, k

LEMMA PrimeIsNoFactors ==
    ASSUME NEW g \in Pol, g # {}, g # One
    PROVE  NoFactors(g) <=> Prime(g)
<1>1. g \in Poly /\ g # {} /\ \A d \in Pol : d \in Poly
  BY PolIsPoly
<1>2. Deg(g) \in 0..(Width - 1) /\ Width \in Nat \ {0}
  BY <1>1, Highest, PolIsPoly
<1>3. ASSUME Prime(g), NEW d \in Pol, Deg(d) > 0, Deg(d) < Deg(g), Divides(d, g) PROVE FALSE
  <2>1. Multiple(d, g)
    BY <1>3, DividesIsMultiple
  <2>2. d = One \/ d = g
    BY <1>1, <1>3, <2>1 DEF Prime
  <2>3. Deg(One) = 0
    BY DegreeZero, Ring
  <2> QED
    BY <1>2, <1>3, <2>2, <2>3
<1>4. ASSUME NoFactors(g), NEW d \in Poly, Multiple(d, g) PROVE d \in {One, g}
  <2>1. /\ d # {} /\ Deg(d) \in Nat /\ Deg(d) <= Deg(g)
        /\ (Deg(d) = Deg(g) => d = g) /\ (Deg(d) = 0 => d = One)
    BY <1>1, <1>4, DivisorIsLower, DegreeZero
  <2>2. \A i \in d : i \in Nat /\ i <= Deg(d)
    BY <2>1, Highest DEF Poly
  <2>3. \A i \in d : i \in 0..(Width - 1)
    BY <1>2, <2>1, <2>2
  <2>4. d \in Pol
    BY <2>3 DEF Pol
  <2>5. Divides(d, g)
    BY <1>4, <2>4, DividesIsMultiple
  <2>6. ~ (Deg(d) > 0 /\ Deg(d) < Deg(g))
    BY <1>4, <2>4, <2>5 DEF NoFactors
  <2>7. Deg(d) = 0 \/ Deg(d) = Deg(g)
    BY <1>2, <2>1, <2>6
  <2> QED
    BY <2>1, <2>7
<1>5. NoFactors(g) => Prime(g)
  BY <1>1, <1>4 DEF Prime
<1>6. Prime(g) => NoFactors(g)
  BY <1>3 DEF NoFactors
<1> QED
  BY <1>5, <1>6

\* Ben-Or's test is right: what passes it is no product of two polynomials of lower degree,
\* and it passes what is none.  A prime factor c of a product has a degree up to half
\* of it, and x^(2^i) is x modulo c when i is that degree; modulo a prime of a higher degree
\* than i it is not (Irreducible, polynomials.go).
THEOREM BenOrIsRight ==
    ASSUME Width >= 3, NEW g \in Pol, g # {}
    PROVE  Irreducible(g) <=> NoFactors(g)
<1> DEFINE n == Deg(g)
           h == n \div 2
<1>1. g \in Poly /\ n \in Nat /\ \A c \in Pol : c \in Poly
  BY PolIsPoly, Highest
<1>2. h \in Nat /\ (n > 0 => h < n) /\ \A j \in Nat : 2 * j <= n => j <= h
  BY <1>1
<1>3. Irreducible(g) <=> \A i \in 1..h, c \in Pol : Multiple(c, g) /\ Returns(i, c) => c = One
  <2>1. Irreducible(g) <=> \A i \in 1..(Deg(g) \div 2), c \in Pol :
                               Multiple(c, g) /\ Multiple(c, Add({2^i}, X)) => c = One
    BY IrreducibleIsBenOr
  <2> QED
    BY <2>1 DEF Returns
<1>4. n = 0 <=> g = One
  BY <1>1, DegreeZero
<1>5. CASE g = One
  <2>1. Deg(g) = 0 /\ 0 \div 2 = 0
    BY <1>4, <1>5
  <2>2. NoFactors(g)
    <3> SUFFICES ASSUME NEW d \in Pol, Deg(d) > 0, Deg(d) < Deg(g) PROVE FALSE
      BY DEF NoFactors
    <3>1. d # {} => Deg(d) \in Nat
      BY <1>1, Highest
    <3>2. d = {} => Deg(d) = -1
      BY DEF Deg, Zero
    <3> QED
      BY <2>1, <3>1, <3>2
  <2>3. Irreducible(g)
    BY <2>1 DEF Irreducible
  <2> QED
    BY <2>2, <2>3
<1> HIDE DEF n, h
<1>6. CASE g # One /\ Prime(g)
  <2>1. NoFactors(g)
    BY <1>6, PrimeIsNoFactors
  <2>2. ASSUME NEW i \in 1..h, NEW c \in Pol, Multiple(c, g), Returns(i, c) PROVE c = One
    <3>1. c = One \/ c = g
      BY <1>1, <1>6, <2>2 DEF Prime
    <3>2. i \in Nat \ {0} /\ i <= h
      BY <1>2
    <3>3. c = g => n <= i
      BY <1>6, <2>2, <3>2, ReturnsLate DEF n
    <3> QED
      BY <1>1, <1>2, <1>4, <1>6, <3>1, <3>2, <3>3
  <2> QED
    BY <1>3, <2>1, <2>2
<1>7. CASE g # One /\ ~ Prime(g)
  <2>1. ~ NoFactors(g)
    BY <1>7, PrimeIsNoFactors
  <2>2. PICK c \in Poly : /\ Prime(c) /\ Multiple(c, g)
                          /\ \A d \in Poly : Multiple(d, g) /\ d # One => Deg(c) <= Deg(d)
    BY <1>1, <1>7, PrimeFactor
  <2>3. PICK q \in Poly : Times(q, c) = g
    BY <2>2 DEF Multiple
  <2>4. Times(c, q) = g
    BY <2>2, <2>3, Ring
  <2>5. Multiple(q, g)
    BY <2>2, <2>4 DEF Multiple
  <2>6. q # One
    <3> SUFFICES ASSUME q = One PROVE FALSE
      OBVIOUS
    <3>1. g = c
      BY <2>2, <2>3, Ring
    <3> QED
      BY <1>7, <2>2, <3>1
  <2> DEFINE k == Deg(c)
             l == Deg(q)
  <2>7. k <= l
    BY <2>2, <2>3, <2>5, <2>6
  <2>8. n = l + k /\ k \in Nat \ {0} /\ l \in Nat
    BY <2>2, <2>3, DegreesAdd, PrimeDegree DEF n
  <2> HIDE DEF k, l
  <2>9. k \in 1..h /\ k <= n
    <3>1. 2 * k <= n
      BY <2>7, <2>8
    <3>2. k <= h
      BY <1>2, <2>8, <3>1
    <3> QED
      BY <1>2, <2>7, <2>8, <3>2
  <2>10. Returns(k, c)
    <3>1. k % k = 0
      BY <2>8
    <3> QED
      BY <2>2, <2>8, <3>1, Returning DEF k
  <2>11. c \in Pol
    <3>1. c # {} /\ \A i \in c : i \in Nat /\ i <= k
      BY <2>2, PrimeDegree, Highest DEF Poly, k
    <3>2. n \in 0..(Width - 1) /\ Width \in Nat \ {0}
      BY <1>1, Highest, PolIsPoly DEF n
    <3>3. \A i \in c : i \in 0..(Width - 1)
      BY <2>8, <2>9, <3>1, <3>2
    <3> QED
      BY <3>3 DEF Pol
  <2>12. c # One
    BY <2>2 DEF Prime
  <2>13. ~ Irreducible(g)
    BY <1>3, <2>2, <2>9, <2>10, <2>11, <2>12
  <2> QED
    BY <2>1, <2>13
<1> QED
  BY <1>5, <1>6, <1>7

-----------------------------------------------------------------------------
(* How many irreducible polynomials there are.                             *)

OddPart(z) == {i \in z : i % 2 = 1}

LEMMA OddPartOfProduct ==
    ASSUME NEW s \in Poly, NEW q \in Poly
    PROVE  OddPart(Times(s, Scaled(q, 2))) = Times(OddPart(s), Scaled(q, 2))
<1> DEFINE w == Scaled(q, 2)
           terms(z, j) == {i \in z : j - i \in w}
<1>1. \A i \in w : i \in Nat /\ i % 2 = 0
  <2>1. \A j \in q : 2 * j \in Nat /\ (2 * j) % 2 = 0
    BY DEF Poly
  <2> QED
    BY <2>1 DEF Scaled
<1>2. s \in SUBSET Nat
  BY DEF Poly
<1> HIDE DEF w
<1>3. ASSUME NEW j \in Nat, j % 2 = 1 PROVE terms(s, j) = terms(OddPart(s), j)
  <2>1. ASSUME NEW i \in s, j - i \in w PROVE i % 2 = 1
    <3>1. i \in Nat /\ j - i \in Nat /\ (j - i) % 2 = 0
      BY <1>1, <1>2, <2>1
    <3> QED
      BY <1>3, <3>1
  <2> QED
    BY <2>1 DEF OddPart
<1>4. ASSUME NEW j \in Nat, j % 2 # 1 PROVE terms(OddPart(s), j) = {}
  <2> SUFFICES ASSUME NEW i \in OddPart(s), j - i \in w PROVE FALSE
    OBVIOUS
  <2>1. i \in Nat /\ i % 2 = 1 /\ j - i \in Nat /\ (j - i) % 2 = 0
    BY <1>1, <1>2 DEF OddPart
  <2> QED
    BY <1>4, <2>1
<1>5. ~ Odd({})
  BY OddNone
<1> HIDE DEF terms
<1>6. \A j \in Nat : (j % 2 = 1 /\ Odd(terms(s, j))) <=> Odd(terms(OddPart(s), j))
  BY <1>3, <1>4, <1>5
<1>7. \A z : Times(z, w) = {j \in Nat : Odd(terms(z, j))}
  BY DEF Times, terms
<1>8. OddPart(Times(s, w)) = {j \in Nat : j % 2 = 1 /\ Odd(terms(s, j))}
  BY <1>7 DEF OddPart
<1>9. OddPart(Times(s, w)) = Times(OddPart(s), w)
  BY <1>6, <1>7, <1>8
<1> QED
  BY <1>9 DEF w

\* x^(2^d) - x.
Both(d) == Add({2^d}, X)

LEMMA DegreeOfBoth ==
    ASSUME NEW d \in Nat \ {0}
    PROVE  /\ Both(d) \in Poly /\ Both(d) # {} /\ Deg(Both(d)) = 2^d
           /\ OddPart(Both(d)) = {1}
<1> DEFINE e == 2^d
           z == Both(d)
<1>1. e \in Nat /\ e > 1 /\ e % 2 = 0
  <2> DEFINE b == 2^(d - 1)
  <2>1. d - 1 \in Nat /\ (d - 1) + 1 = d
    OBVIOUS
  <2>2. b \in Nat \ {0} /\ 2^((d - 1) + 1) = 2 * b
    BY <2>1, PowersOfTwo
  <2>3. e = 2 * b
    BY <2>1, <2>2
  <2> HIDE DEF b
  <2>4. 2 * b \in Nat /\ 2 * b > 1 /\ (2 * b) % 2 = 0
    BY <2>2
  <2> QED
    BY <2>3, <2>4
<1>2. {e} \in Poly /\ X \in Poly
  BY <1>1, Powers DEF X
<1> HIDE DEF e
<1>3. Both(d) = {1, e}
  BY <1>1 DEF Both, X, Add, e
<1>4. Both(d) \in Poly
  <2>1. Add({e}, X) \in Poly
    BY <1>2, Ring
  <2> QED
    BY <2>1 DEF Both, e
<1>5. z \in Poly /\ e \in z /\ \A j \in z : j <= e
  BY <1>1, <1>3, <1>4
<1> HIDE DEF z
<1>6. Deg(z) = e
  BY <1>5, DegIs
<1>7. OddPart(Both(d)) = {1}
  BY <1>1, <1>3 DEF OddPart
<1> QED
  BY <1>4, <1>5, <1>6, <1>7 DEF z, e

\* It has no prime factor twice: the square of one has even exponents only, and x is odd.
LEMMA NoSquares ==
    ASSUME NEW d \in Nat \ {0}, NEW q, Prime(q), NEW s \in Poly, Both(d) = Times(s, Times(q, q))
    PROVE  FALSE
<1>1. q \in Poly /\ q # {} /\ Deg(q) \in Nat \ {0}
  BY PrimeDegree
<1> DEFINE w == Scaled(q, 2)
           o == OddPart(s)
<1>2. w = Times(q, q) /\ w \in Poly
  BY <1>1, SquareIsScaled, Ring
<1>3. OddPart(Times(s, w)) = Times(o, w)
  BY <1>1, OddPartOfProduct
<1>4. Times(o, w) = {1}
  BY <1>2, <1>3, DegreeOfBoth
<1>5. o \in Poly
  <2>1. o \in SUBSET s
    BY DEF OddPart
  <2> HIDE DEF o
  <2> QED
    BY <2>1, PartOfPoly
<1>6. Times(q, q) # {}
  BY <1>1, NoZeroDivisors
<1>7. Deg(w) = Deg(q) + Deg(q)
  BY <1>1, <1>2, <1>6, DegreesAdd
<1> HIDE DEF w, o
<1>8. Deg({1}) = 1
  <2> DEFINE x == {1}
  <2>1. x \in Poly /\ 1 \in x /\ \A j \in x : j <= 1
    <3>1. \A i \in Nat : {i} \in Poly
      BY Powers
    <3>2. x \in Poly
      BY <3>1
    <3> QED
      BY <3>2
  <2> HIDE DEF x
  <2>2. Deg(x) = 1
    BY <2>1, DegIs
  <2> QED
    BY <2>2 DEF x
<1>9. Deg(o) \in Nat /\ 1 = Deg(o) + Deg(w)
  BY <1>2, <1>4, <1>5, <1>8, DegreesAdd
<1> QED
  BY <1>1, <1>7, <1>9

\* T is a set of primes of degree k that divide z, and z is a product of theirs and s.
SplitBy(T, k, z, M, s) ==
    /\ Times(M, s) = z /\ Deg(M) = k * Cardinality(T)
    /\ \A p \in T : Multiple(p, M)
    /\ \A p \in Poly : Prime(p) /\ p \notin T /\ Multiple(p, z) => Multiple(p, s)

LEMMA PrimesSplit ==
    ASSUME NEW z \in Poly, z # {}, NEW k \in Nat, NEW T, IsFiniteSet(T),
           \A p \in T : Prime(p) /\ Deg(p) = k /\ Multiple(p, z)
    PROVE  \E M, s \in Poly : SplitBy(T, k, z, M, s)
<1> DEFINE of(V) == \A p \in V : Prime(p) /\ Deg(p) = k /\ Multiple(p, z)
           right(V) == \E M, s \in Poly : SplitBy(V, k, z, M, s)
           S == {m \in Nat : \A V : IsFiniteSet(V) /\ Cardinality(V) = m /\ of(V) => right(V)}
<1>1. 0 \in S
  <2>1. Cardinality({}) = 0
    BY FS_EmptySet
  <2>2. One \in Poly /\ Times(One, z) = z /\ Deg(One) = 0 /\ k * 0 = 0
    BY Ring, DegreeZero
  <2>3. SplitBy({}, k, z, One, z)
    BY <2>1, <2>2 DEF SplitBy
  <2>4. right({})
    BY <2>2, <2>3
  <2> HIDE DEF right, of
  <2>5. \A V : IsFiniteSet(V) /\ Cardinality(V) = 0 => V = {}
    BY FS_EmptySet
  <2> QED
    BY <2>4, <2>5
<1>2. ASSUME NEW m \in S PROVE m + 1 \in S
  <2>1. m \in Nat /\ \A V : IsFiniteSet(V) /\ Cardinality(V) = m /\ of(V) => right(V)
    OBVIOUS
  <2> SUFFICES ASSUME NEW V, IsFiniteSet(V), Cardinality(V) = m + 1, of(V) PROVE right(V)
    BY <2>1
  <2> HIDE DEF S
  <2>2. V # {}
    BY <2>1, FS_EmptySet
  <2>3. PICK p \in V : TRUE
    BY <2>2
  <2> DEFINE U == V \ {p}
  <2>4. IsFiniteSet(U) /\ Cardinality(U) = m
    <3>1. IsFiniteSet(U) /\ Cardinality(U) = Cardinality(V) - 1
      BY <2>3, FS_RemoveElement
    <3> QED
      BY <2>1, <3>1
  <2>5. of(U)
    OBVIOUS
  <2>6. PICK M, s \in Poly : SplitBy(U, k, z, M, s)
    <3> HIDE DEF U, of
    <3> QED
      BY <2>1, <2>4, <2>5
  <2>7. /\ Times(M, s) = z /\ Deg(M) = k * m
        /\ \A r \in U : Multiple(r, M)
        /\ \A r \in Poly : Prime(r) /\ r \notin U /\ Multiple(r, z) => Multiple(r, s)
    BY <2>4, <2>6 DEF SplitBy
  <2>8. p \in Poly /\ p # {} /\ Prime(p) /\ Deg(p) = k /\ Multiple(p, z) /\ p \notin U
    BY <2>3, PrimeDegree
  <2>9. Multiple(p, s)
    BY <2>7, <2>8
  <2>10. PICK q \in Poly : Times(q, p) = s
    BY <2>9 DEF Multiple
  <2> DEFINE N == Times(M, p)
  <2>11. N \in Poly /\ Times(N, q) = z
    <3>1. Times(p, q) = s /\ Times(M, Times(p, q)) = Times(N, q)
      BY <2>6, <2>8, <2>10, Ring
    <3> QED
      BY <2>6, <2>7, <2>8, <3>1, Ring
  <2>12. Deg(N) = k * (m + 1)
    <3>1. M # {}
      BY <2>6, <2>7, DegreesAdd
    <3>2. N # {}
      BY <2>6, <2>8, <3>1, NoZeroDivisors
    <3>3. Deg(N) = Deg(M) + Deg(p)
      BY <2>6, <2>8, <3>2, DegreesAdd
    <3>4. k * m + k = k * (m + 1)
      BY <2>1
    <3> QED
      BY <2>7, <2>8, <3>3, <3>4
  <2>13. ASSUME NEW r \in V PROVE Multiple(r, N)
    <3>1. r \in Poly /\ N = Times(p, M)
      BY <2>6, <2>8, PrimeDegree, Ring
    <3>2. CASE r = p
      BY <2>6, <2>8, <3>2, MultipleRules
    <3>3. CASE r # p
      <4>1. Multiple(r, M)
        BY <2>7, <3>3
      <4> QED
        BY <2>8, <3>1, <4>1, MultipleRules
    <3> QED
      BY <3>2, <3>3
  <2>14. ASSUME NEW r \in Poly, Prime(r), r \notin V, Multiple(r, z) PROVE Multiple(r, q)
    <3>1. Multiple(r, Times(q, p))
      BY <2>7, <2>10, <2>14
    <3>2. Multiple(r, q) \/ Multiple(r, p)
      BY <2>8, <2>10, <2>14, <3>1, PrimeDividesProduct
    <3>3. Multiple(r, p) => r = One \/ r = p
      BY <2>8 DEF Prime
    <3>4. r # One /\ r # p
      BY <2>3, <2>14 DEF Prime
    <3> QED
      BY <3>2, <3>3, <3>4
  <2> HIDE DEF N
  <2>15. SplitBy(V, k, z, N, q)
    BY <2>11, <2>12, <2>13, <2>14 DEF SplitBy
  <2> QED
    BY <2>10, <2>11, <2>15
<1>3. Cardinality(T) \in S
  <2>1. S \in SUBSET Nat
    OBVIOUS
  <2>2. Cardinality(T) \in Nat
    BY FS_CardinalityType
  <2> HIDE DEF S
  <2> QED
    BY <1>1, <1>2, <2>1, <2>2, Induction
<1> QED
  BY <1>3

LEMMA DividesTwice ==
    ASSUME NEW q \in Poly, NEW M \in Poly, NEW s \in Poly, Multiple(q, M), Multiple(q, s)
    PROVE  \E t \in Poly : Times(M, s) = Times(t, Times(q, q))
<1>1. PICK a \in Poly : Times(a, q) = M
  BY DEF Multiple
<1>2. PICK b \in Poly : Times(b, q) = s
  BY DEF Multiple
<1>3. Times(M, s) = Times(a, Times(q, s))
  BY <1>1, Ring
<1>4. Times(q, s) = Times(s, q)
  BY Ring
<1>5. Times(s, q) = Times(b, Times(q, q))
  BY <1>2, Ring
<1>6. Times(q, q) \in Poly
  BY Ring
<1>7. Times(a, Times(b, Times(q, q))) = Times(Times(a, b), Times(q, q)) /\ Times(a, b) \in Poly
  BY <1>6, Ring
<1> QED
  BY <1>3, <1>4, <1>5, <1>7

\* The two of degree 1.
LEMMA LinearPrimes ==
    LET T == {{1}, {0, 1}}
    IN  /\ IsFiniteSet(T) /\ Cardinality(T) = 2
        /\ \A p \in T : Prime(p) /\ Deg(p) = 1
        /\ \A p \in Poly : p # {} /\ Deg(p) = 1 => p \in T
<1> DEFINE T == {{1}, {0, 1}}
<1>1. IsFiniteSet(T) /\ Cardinality(T) = 2
  <2> DEFINE u == {1}
             v == {0, 1}
  <2>1. u # v
    <3>1. 0 \in v /\ 0 \notin u
      OBVIOUS
    <3> QED
      BY <3>1
  <2> HIDE DEF u, v
  <2>2. IsFiniteSet({u}) /\ Cardinality({u}) = 1
    BY FS_Singleton
  <2>3. v \notin {u} /\ {u} \union {v} = {u, v}
    BY <2>1
  <2>4. IsFiniteSet({u} \union {v}) /\ Cardinality({u} \union {v}) = Cardinality({u}) + 1
    BY <2>2, <2>3, FS_AddElement
  <2>5. IsFiniteSet({u, v}) /\ Cardinality({u, v}) = 2
    BY <2>2, <2>3, <2>4
  <2> QED
    BY <2>5 DEF u, v
<1>2. ASSUME NEW p \in T PROVE p \in Poly /\ Deg(p) = 1 /\ p # {}
  <2>1. p \in SUBSET (0..1) /\ 1 \in p /\ \A j \in p : j <= 1
    OBVIOUS
  <2>2. p \in Poly
    <3> HIDE DEF T
    <3>1. 1 \in Int
      OBVIOUS
    <3> QED
      BY <2>1, <3>1, BoundedPoly
  <2> QED
    BY <2>1, <2>2, DegIs
<1>3. ASSUME NEW p \in T PROVE Prime(p)
  <2>1. p \in Poly /\ Deg(p) = 1 /\ p # {}
    BY <1>2
  <2>2. p # One
    BY <2>1, DegreeZero
  <2>3. ASSUME NEW c \in Poly, Multiple(c, p) PROVE c \in {One, p}
    <3>1. /\ c # {} /\ Deg(c) \in Nat /\ Deg(c) <= 1 /\ (Deg(c) = 1 => c = p)
          /\ (Deg(c) = 0 => c = One)
      BY <2>1, <2>3, DivisorIsLower, DegreeZero
    <3>2. Deg(c) = 0 \/ Deg(c) = 1
      BY <3>1
    <3> QED
      BY <3>1, <3>2
  <2> QED
    BY <2>1, <2>2, <2>3 DEF Prime
<1>4. ASSUME NEW p \in Poly, p # {}, Deg(p) = 1 PROVE p \in T
  <2>1. 1 \in p /\ \A j \in p : j \in Nat /\ j <= 1
    BY <1>4, Highest DEF Poly
  <2>2. \A j \in p : j \in {0, 1}
    BY <2>1
  <2> QED
    BY <2>1, <2>2
<1> QED
  BY <1>1, <1>2, <1>3, <1>4

LEMMA PrimesArePrime ==
    /\ IsFiniteSet(Primes)
    /\ \A p \in Poly : Deg(p) = DerivedDegree => (p \in Primes <=> Prime(p))
    /\ \A p \in Primes : p \in Poly /\ Deg(p) = DerivedDegree
<1>1. DerivedDegree \in Nat /\ DerivedDegree > 1 /\ DerivedDegree < Width /\ Width \in Nat
  BY WidthAssumption, DerivedDegreeIsPrime
<1>2. IsFiniteSet(Primes)
  <2>1. IsFiniteSet(0..(Width - 1))
    BY FS_Interval, <1>1
  <2>2. IsFiniteSet(Pol)
    BY <2>1, FS_SUBSET DEF Pol
  <2>3. Primes \in SUBSET Pol
    BY DEF Primes
  <2> QED
    BY <2>2, <2>3, FS_Subset
<1>3. ASSUME NEW p \in Poly, Deg(p) = DerivedDegree PROVE p \in Primes <=> Prime(p)
  <2>1. p # {} /\ p # One
    <3>1. Deg({}) = -1
      BY DEF Deg, Zero
    <3>2. Deg(One) = 0
      BY DegreeZero, Ring
    <3> QED
      BY <1>1, <1>3, <3>1, <3>2
  <2>2. \A i \in p : i \in Nat /\ i <= DerivedDegree
    BY <1>3, <2>1, Highest DEF Poly
  <2>3. \A i \in p : i \in 0..(Width - 1)
    BY <1>1, <2>2
  <2>4. p \in Pol
    BY <2>3 DEF Pol
  <2>5. NoFactors(p) <=> Prime(p)
    BY <2>1, <2>4, PrimeIsNoFactors
  <2> QED
    BY <1>3, <2>4, <2>5 DEF Primes
<1>4. \A p \in Primes : p \in Poly /\ Deg(p) = DerivedDegree
  BY PolIsPoly DEF Primes
<1> QED
  BY <1>2, <1>3, <1>4

\* There are (2^d - 2) / d irreducible polynomials of the prime degree d: with x and x + 1
\* they are the prime factors of x^(2^d) - x, which has none twice (polynomials.go, lines
\* 176-178).
THEOREM PrimesCounted == Cardinality(Primes) * DerivedDegree = 2^DerivedDegree - 2
<1> DEFINE d == DerivedDegree
           f == Both(d)
           T == {{1}, {0, 1}}
<1>1. d \in Nat \ {0} /\ d > 1 /\ \A j \in 2..(d - 1) : (d % j) # 0
  BY WidthAssumption, DerivedDegreeIsPrime
<1> HIDE DEF d
<1>2. ASSUME NEW j \in Nat \ {0}, (d % j) = 0 PROVE j = 1 \/ j = d
  <2>1. j <= d
    <3>1. j > d => (d % j) = d
      BY <1>1
    <3> QED
      BY <1>1, <1>2, <3>1
  <2>2. j \notin 2..(d - 1)
    BY <1>1, <1>2
  <2> QED
    BY <1>1, <1>2, <2>1, <2>2
<1>3. (d % 1) = 0 /\ (d % d) = 0
  BY <1>1
<1>4. ASSUME NEW p, Prime(p) PROVE Multiple(p, f) <=> Deg(p) = 1 \/ Deg(p) = d
  <2>1. Multiple(p, f) <=> Returns(d, p)
    BY DEF Both, Returns
  <2>2. Returns(d, p) <=> (d % Deg(p)) = 0
    BY <1>1, <1>4, Returning
  <2>3. Deg(p) \in Nat \ {0}
    BY <1>4, PrimeDegree
  <2> QED
    BY <1>2, <1>3, <2>1, <2>2, <2>3
<1>5. f \in Poly /\ f # {} /\ Deg(f) = 2^d
  BY <1>1, DegreeOfBoth
<1> HIDE DEF f
<1>6. /\ IsFiniteSet(T) /\ Cardinality(T) = 2
      /\ \A p \in T : Prime(p) /\ Deg(p) = 1 /\ Multiple(p, f)
      /\ \A p \in Poly : p # {} /\ Deg(p) = 1 => p \in T
  <2>1. /\ IsFiniteSet(T) /\ Cardinality(T) = 2
        /\ \A p \in T : Prime(p) /\ Deg(p) = 1
        /\ \A p \in Poly : p # {} /\ Deg(p) = 1 => p \in T
    BY LinearPrimes
  <2> HIDE DEF T
  <2> QED
    BY <1>4, <2>1
<1> HIDE DEF T
<1>7. PICK M1, s1 \in Poly : SplitBy(T, 1, f, M1, s1)
  <2>1. 1 \in Nat
    OBVIOUS
  <2> QED
    BY <1>5, <1>6, <2>1, PrimesSplit
<1>8. /\ Times(M1, s1) = f /\ Deg(M1) = 2
      /\ \A p \in T : Multiple(p, M1)
      /\ \A p \in Poly : Prime(p) /\ p \notin T /\ Multiple(p, f) => Multiple(p, s1)
  BY <1>6, <1>7 DEF SplitBy
<1>9. s1 # {} /\ Deg(f) = Deg(M1) + Deg(s1) /\ Deg(s1) \in Nat
  BY <1>5, <1>7, <1>8, DegreesAdd
<1>10. /\ IsFiniteSet(Primes)
       /\ \A p \in Primes : Prime(p) /\ Deg(p) = d /\ Multiple(p, s1)
       /\ \A p \in Poly : Prime(p) /\ Deg(p) = d => p \in Primes
  <2>1. /\ IsFiniteSet(Primes)
        /\ \A p \in Primes : p \in Poly /\ Prime(p) /\ Deg(p) = d
        /\ \A p \in Poly : Prime(p) /\ Deg(p) = d => p \in Primes
    BY PrimesArePrime DEF d
  <2>2. ASSUME NEW p \in Primes PROVE Multiple(p, s1)
    <3>1. p \in Poly /\ Prime(p) /\ Deg(p) = d
      BY <2>1
    <3>2. p \notin T
      BY <1>1, <1>6, <3>1
    <3> QED
      BY <1>4, <1>8, <3>1, <3>2
  <2> QED
    BY <2>1, <2>2
<1>11. PICK M2, s2 \in Poly : SplitBy(Primes, d, s1, M2, s2)
  <2>1. d \in Nat
    BY <1>1
  <2> QED
    BY <1>7, <1>9, <1>10, <2>1, PrimesSplit
<1>12. /\ Times(M2, s2) = s1 /\ Deg(M2) = d * Cardinality(Primes)
       /\ \A p \in Primes : Multiple(p, M2)
  BY <1>11 DEF SplitBy
<1>13. s2 # {} /\ Deg(s1) = Deg(M2) + Deg(s2) /\ Deg(s2) \in Nat /\ Deg(M2) \in Nat
  BY <1>9, <1>11, <1>12, DegreesAdd
<1>14. s2 = One
  <2> SUFFICES ASSUME s2 # One PROVE FALSE
    OBVIOUS
  <2>1. PICK q \in Poly : Prime(q) /\ Multiple(q, s2)
    BY <1>11, <1>13, PrimeFactor
  <2>2. Multiple(q, s1)
    BY <1>11, <1>12, <2>1, MultipleRules
  <2>3. Multiple(q, f)
    BY <1>7, <1>8, <2>1, <2>2, MultipleRules
  <2>4. Deg(q) = 1 \/ Deg(q) = d
    BY <1>4, <2>1, <2>3
  <2>5. CASE Deg(q) = 1
    <3>1. Multiple(q, M1)
      BY <1>6, <1>8, <2>1, <2>5, PrimeDegree
    <3>2. PICK t \in Poly : Times(M1, s1) = Times(t, Times(q, q))
      BY <1>7, <2>1, <2>2, <3>1, DividesTwice
    <3>3. Both(d) = Times(t, Times(q, q))
      BY <1>8, <3>2 DEF f
    <3> QED
      BY <1>1, <2>1, <3>3, NoSquares
  <2>6. CASE Deg(q) = d
    <3>1. Multiple(q, M2)
      BY <1>10, <1>12, <2>1, <2>6
    <3>2. PICK t \in Poly : Times(M2, s2) = Times(t, Times(q, q))
      BY <1>11, <2>1, <3>1, DividesTwice
    <3>3. Times(q, q) \in Poly /\ Times(M1, t) \in Poly
      BY <1>7, <2>1, <3>2, Ring
    <3>4. f = Times(Times(M1, t), Times(q, q))
      BY <1>7, <1>8, <1>12, <3>2, <3>3, Ring
    <3>5. Both(d) = Times(Times(M1, t), Times(q, q))
      BY <3>4 DEF f
    <3> QED
      BY <1>1, <2>1, <3>3, <3>5, NoSquares
  <2> QED
    BY <2>4, <2>5, <2>6
<1>15. Deg(s2) = 0
  BY <1>13, <1>14, DegreeZero, Ring
<1>16. Cardinality(Primes) \in Nat
  BY <1>10, FS_CardinalityType
<1> DEFINE n == Cardinality(Primes)
           e == 2^d
<1>17. n \in Nat /\ e = 2 + d * n /\ d \in Nat
  BY <1>1, <1>5, <1>8, <1>9, <1>12, <1>13, <1>15, <1>16
<1> HIDE DEF n, e
<1>18. n * d = e - 2
  <2>1. n * d = d * n /\ d * n \in Nat
    BY <1>17
  <2> QED
    BY <1>17, <2>1
<1> QED
  BY <1>18 DEF n, e, d

-----------------------------------------------------------------------------
(* DerivePolynomial.                                                       *)

LEMMA CandidateIsTested ==
    ASSUME NEW f \in Pol
    PROVE  /\ Irreducible(Candidate(f)) <=> Candidate(f) \in Primes
           /\ f \in Primes => Candidate(f) = f
<1> DEFINE d == DerivedDegree
           g == Candidate(f)
<1>1. d \in Nat /\ d > 1 /\ d < Width /\ Width \in Nat /\ Width >= 3
  <2>1. d \in Nat /\ d > 1 /\ d <= Width - 1 /\ Width \in Nat
    BY WidthAssumption, DerivedDegreeIsPrime
  <2> QED
    BY <2>1
<1> HIDE DEF d
<1>2. g = (f \intersect 0..d) \union {0, d}
  BY DEF Candidate, d
<1>3. g \in Pol /\ g # {} /\ d \in g /\ \A j \in g : j <= d
  <2>1. \A j \in g : j \in 0..d
    BY <1>1, <1>2
  <2>2. \A j \in g : j \in 0..(Width - 1)
    BY <1>1, <2>1
  <2> QED
    BY <1>2, <2>1, <2>2 DEF Pol
<1> HIDE DEF g
<1>4. g \in Poly
  BY <1>3, PolIsPoly
<1>5. Deg(g) = d
  BY <1>3, <1>4, DegIs
<1>6. Irreducible(g) <=> NoFactors(g)
  BY <1>1, <1>3, BenOrIsRight
<1>7. g \in Primes <=> NoFactors(g)
  BY <1>3, <1>5 DEF Primes, d
<1>8. ASSUME f \in Primes PROVE g = f
  <2>1. f \in Poly /\ Deg(f) = d /\ Prime(f)
    BY <1>8, PrimesArePrime DEF d
  <2>2. f # {} /\ f # One /\ d \in f /\ \A j \in f : j \in Nat /\ j <= d
    <3>1. f # {} /\ f # One
      BY <2>1 DEF Prime
    <3> QED
      BY <2>1, <3>1, Highest DEF Poly
  <2>3. 0 \in f
    <3> SUFFICES ASSUME 0 \notin f PROVE FALSE
      OBVIOUS
    <3> DEFINE q == {i - 1 : i \in f}
    <3>1. \A i \in f : i \in Nat /\ i # 0 /\ i - 1 \in 0..d
      BY <1>1, <2>2
    <3>2. q \in SUBSET (0..d)
      BY <3>1
    <3>3. Shift(q, 1) = f
      <4>1. \A i \in f : (i - 1) + 1 = i
        BY <3>1
      <4>2. Shift(q, 1) = {(i - 1) + 1 : i \in f}
        BY DEF Shift
      <4> QED
        BY <4>1, <4>2
    <3> HIDE DEF q
    <3>4. q \in Poly
      <4>1. d \in Int
        BY <1>1
      <4> QED
        BY <3>2, <4>1, BoundedPoly
    <3>5. Times({1}, q) = f
      BY <3>3, <3>4, TimesPower DEF Poly
    <3>6. {1} \in Poly /\ Times(q, {1}) = f
      <4>1. \A i \in Nat : {i} \in Poly
        BY Powers
      <4>2. {1} \in Poly
        BY <4>1
      <4> QED
        BY <3>4, <3>5, <4>2, Ring
    <3>7. Multiple({1}, f)
      BY <3>4, <3>6 DEF Multiple
    <3>8. {1} = One \/ {1} = f
      BY <2>1, <3>6, <3>7 DEF Prime
    <3>9. {1} # One /\ {1} # f
      BY <1>1, <2>2 DEF One
    <3> QED
      BY <3>8, <3>9
  <2>4. \A j \in f : j \in 0..d
    BY <1>1, <2>2
  <2> QED
    BY <1>2, <2>2, <2>3, <2>4
<1> QED
  BY <1>6, <1>7, <1>8 DEF g

\* The first draw whose candidate is irreducible decides, and zero stands for the error
\* when there is none (DerivePolynomial).
THEOREM FirstIrreducible ==
    ASSUME NEW draws \in Seq(Pol)
    PROVE  LET good    == {i \in DOMAIN draws : Candidate(draws[i]) \in Primes}
               derived == DerivePolynomial(draws)
           IN  \/ good = {} /\ derived = Zero
               \/ \E i \in good : derived = Candidate(draws[i]) /\ \A j \in good : i <= j
<1> DEFINE good == {i \in DOMAIN draws : Candidate(draws[i]) \in Primes}
           pass == {i \in DOMAIN draws : Irreducible(Candidate(draws[i]))}
           first == CHOOSE i \in good : \A j \in good : i <= j
<1>1. \A i \in DOMAIN draws : draws[i] \in Pol /\ i \in Nat
  OBVIOUS
<1>2. pass = good
  BY <1>1, CandidateIsTested
<1>3. DerivePolynomial(draws) =
        IF pass = {} THEN Zero
        ELSE Candidate(draws[CHOOSE i \in pass : \A j \in pass : i <= j])
  BY DEF DerivePolynomial
<1> HIDE DEF pass
<1>4. DerivePolynomial(draws) = IF good = {} THEN Zero ELSE Candidate(draws[first])
  BY <1>2, <1>3
<1>5. ASSUME good # {} PROVE first \in good /\ \A j \in good : first <= j
  <2>1. good \in SUBSET Nat
    BY <1>1
  <2> HIDE DEF good
  <2>2. \E m \in good : \A j \in good : m <= j
    BY <1>5, <2>1, Least
  <2> QED
    BY <2>2
<1> HIDE DEF good, first
<1> QED
  BY <1>4, <1>5 DEF good

\* Whatever is drawn, the result is irreducible and of the derived degree, or no draw
\* would do; every irreducible polynomial of that degree can come out, and there are
\* (2^d - 2) / d; Ben-Or's test is right for every modulus.
THEOREM DerivedIrreducible == Spec => []DerivedIsIrreducible
<1>1. ASSUME IInv PROVE Irreducible(pol) <=> NoFactors(pol)
  <2>1. pol \in Pol /\ pol # {}
    BY <1>1, Sizes DEF IInv
  <2>2. Width >= 3
    BY WidthAssumption, DerivedDegreeIsPrime
  <2> QED
    BY <2>1, <2>2, BenOrIsRight
<1>2. ASSUME pol \in Pol, NEW draw \in Pol
      PROVE  LET derived == DerivePolynomial(<<draw, pol>>)
             IN  /\ derived \in Primes \/
                      (derived = Zero /\ Primes \intersect {Candidate(draw), Candidate(pol)} = {})
                 /\ draw \in Primes => derived = draw
  <2> DEFINE draws == <<draw, pol>>
             derived == DerivePolynomial(draws)
             good == {i \in DOMAIN draws : Candidate(draws[i]) \in Primes}
  <2>1. draws \in Seq(Pol) /\ DOMAIN draws = {1, 2} /\ draws[1] = draw /\ draws[2] = pol
    BY <1>2
  <2>2. \/ good = {} /\ derived = Zero
        \/ \E i \in good : derived = Candidate(draws[i]) /\ \A j \in good : i <= j
    <3> HIDE DEF draws
    <3> QED
      BY <2>1, FirstIrreducible
  <2> HIDE DEF draws, derived
  <2>3. 1 \in good <=> Candidate(draw) \in Primes
    BY <2>1
  <2>4. 2 \in good <=> Candidate(pol) \in Primes
    BY <2>1
  <2>5. good = {} => Primes \intersect {Candidate(draw), Candidate(pol)} = {}
    BY <2>3, <2>4
  <2>6. derived \in Primes \/
            (derived = Zero /\ Primes \intersect {Candidate(draw), Candidate(pol)} = {})
    BY <2>2, <2>5
  <2>7. ASSUME draw \in Primes PROVE derived = draw
    <3>1. Candidate(draw) = draw
      BY <2>7, CandidateIsTested
    <3>2. 1 \in good
      BY <2>3, <2>7, <3>1
    <3>3. PICK i \in good : derived = Candidate(draws[i]) /\ \A j \in good : i <= j
      BY <2>2, <3>2
    <3>4. i = 1
      <4>1. i <= 1 /\ i \in {1, 2}
        BY <2>1, <3>2, <3>3
      <4> QED
        BY <4>1
    <3> QED
      BY <2>1, <3>1, <3>3, <3>4
  <2> QED
    BY <2>6, <2>7 DEF draws, derived
<1>3. IInv => DerivedIsIrreducible
  <2>1. IInv => pol \in Pol
    BY Sizes DEF IInv
  <2> QED
    BY <1>1, <1>2, <2>1, PrimesCounted DEF DerivedIsIrreducible
<1> QED
  BY <1>3, Invariance, PTL
=============================================================================
