---------------------------- MODULE DigestProofs ----------------------------
(***************************************************************************)
(* The digests, for every word size, modulus, multiplier, table, byte and  *)
(* length of the window.                                                   *)
(*                                                                         *)
(*   - The checksum after any Write, Roll and Reset is that of the window, *)
(*     for each of the four kinds of arithmetic, and BatchRoll's lanes     *)
(*     give the checksums that writing gives.                              *)
(*   - The circular buffer implements SlidingWindow.                       *)
(*   - The scan of BatchBoundaries finds every hit, in order and once.     *)
(*   - The table cache of rabinkarp64 guards its map and returns to every  *)
(*     call the tables it asked for.                                       *)
(*                                                                         *)
(* Hash and the other recursive functions of Checksums are CHOOSEn: each   *)
(* is shown to exist, and so to satisfy its equation, by Induction (of     *)
(* WindowLemmas, with what is said there of the windows of a sequence).    *)
(***************************************************************************)
EXTENDS RollingHash, TwoLanes, TableCache, WindowLemmas

-----------------------------------------------------------------------------
(* Numbers.                                                                *)

LEMMA DivMod ==
    ASSUME NEW d \in Nat \ {0}, NEW x \in Int
    PROVE  /\ x \div d \in Int /\ x % d \in 0..(d - 1)
           /\ x = d * (x \div d) + (x % d)
  OBVIOUS

\* There is one remainder.
LEMMA Remainder ==
    ASSUME NEW d \in Nat \ {0}, NEW x \in Int, NEW q \in Int, NEW r \in 0..(d - 1),
           x = d * q + r
    PROVE  x % d = r
<1> DEFINE p == x \div d
           s == x % d
<1>1. p \in Int /\ s \in 0..(d - 1) /\ x = d * p + s
  BY DivMod
<1> HIDE DEF p, s
<1>2. d * (p - q) = r - s
  BY <1>1
<1>3. p = q
  <2> DEFINE e == p - q
  <2>1. e \in Int /\ d * e < d /\ d * e > -d
    BY <1>1, <1>2
  <2> HIDE DEF e
  <2>2. ~ (e >= 1)
    BY <2>1
  <2>3. ~ (e <= -1)
    BY <2>1
  <2>4. e = 0
    BY <2>1, <2>2, <2>3
  <2> QED
    BY <2>4, <1>1 DEF e
<1> QED
  BY <1>1, <1>3 DEF s

\* Numbers that differ by a multiple of d have the same remainder.
LEMMA SameRemainder ==
    ASSUME NEW d \in Nat \ {0}, NEW x \in Int, NEW q \in Int
    PROVE  (x + q * d) % d = x % d
<1> DEFINE p == x \div d
           r == x % d
<1>1. p \in Int /\ r \in 0..(d - 1) /\ x = d * p + r
  BY DivMod
<1> HIDE DEF p, r
<1>2. x + q * d = d * (p + q) + r /\ p + q \in Int /\ x + q * d \in Int
  BY <1>1
<1> QED
  BY <1>1, <1>2, Remainder DEF r

-----------------------------------------------------------------------------
(* Hash, byte by byte.                                                     *)

\* The checksums of w's prefixes, of 0 to m bytes.
Unrolled(w, m, h) == [i \in 0..m |-> IF i = 0 THEN Empty ELSE Extend(h[i - 1], w[i])]
Sums(w, m) == CHOOSE h : h = Unrolled(w, m, h)

LEMMA HashIsLastSum == ASSUME NEW w PROVE Hash(w) = Sums(w, Len(w))[Len(w)]
  BY DEF Hash, Sums, Unrolled

\* Hash's recursion defines a function.
LEMMA SumsExist ==
    ASSUME NEW w, NEW m \in Nat
    PROVE  Sums(w, m) = Unrolled(w, m, Sums(w, m))
<1> DEFINE S == {j \in Nat : \E h : h = Unrolled(w, j, h)}
<1>1. 0 \in S
  <2> DEFINE h == [i \in 0..0 |-> Empty]
  <2>1. h = Unrolled(w, 0, h)
    BY DEF Unrolled
  <2> HIDE DEF h
  <2> QED
    BY <2>1
<1>2. ASSUME NEW j \in S PROVE j + 1 \in S
  <2>1. PICK h : h = Unrolled(w, j, h)
    OBVIOUS
  <2> DEFINE g == [i \in 0..(j + 1) |-> IF i = j + 1 THEN Extend(h[j], w[j + 1]) ELSE h[i]]
  <2>2. j \in Nat
    OBVIOUS
  <2>3. \A i \in 0..(j + 1) :
           (IF i = j + 1 THEN Extend(h[j], w[j + 1]) ELSE h[i])
             = IF i = 0 THEN Empty ELSE Extend(g[i - 1], w[i])
    <3> SUFFICES ASSUME NEW i \in 0..(j + 1)
                 PROVE  (IF i = j + 1 THEN Extend(h[j], w[j + 1]) ELSE h[i])
                           = IF i = 0 THEN Empty ELSE Extend(g[i - 1], w[i])
      OBVIOUS
    <3>1. CASE i = j + 1
      <4>1. g[i - 1] = h[j] /\ i # 0
        BY <2>2, <3>1
      <4> QED
        BY <3>1, <4>1
    <3>2. CASE i # j + 1 /\ i = 0
      BY <2>1, <2>2, <3>2 DEF Unrolled
    <3>3. CASE i # j + 1 /\ i # 0
      <4>1. i \in 0..j /\ i - 1 \in 0..(j + 1) /\ i - 1 # j + 1
        BY <2>2, <3>3
      <4>2. g[i - 1] = h[i - 1]
        BY <4>1
      <4>3. h[i] = Extend(h[i - 1], w[i])
        BY <2>1, <3>3, <4>1 DEF Unrolled
      <4> QED
        BY <3>3, <4>2, <4>3
    <3> QED
      BY <3>1, <3>2, <3>3
  <2>4. g = Unrolled(w, j + 1, g)
    BY <2>3 DEF Unrolled
  <2> HIDE DEF g
  <2> QED
    BY <2>2, <2>4
<1>3. \A j \in Nat : j \in S
  <2> HIDE DEF S
  <2>1. S \in SUBSET Nat
    BY DEF S
  <2> QED
    BY <1>1, <1>2, <2>1, Induction
<1>4. PICK h : h = Unrolled(w, m, h)
  BY <1>3
<1> QED
  BY <1>4, Zenon DEF Sums

\* The checksum of a prefix depends on the prefix alone.
LEMMA SumsAgree ==
    ASSUME NEW v, NEW w, NEW l \in Nat, NEW m \in Nat, l <= m,
           \A i \in 1..l : v[i] = w[i]
    PROVE  Sums(v, l)[l] = Sums(w, m)[l]
<1> DEFINE f == Sums(v, l)
           g == Sums(w, m)
           S == {j \in Nat : j <= l => f[j] = g[j]}
<1>1. /\ \A i \in 0..l : f[i] = IF i = 0 THEN Empty ELSE Extend(f[i - 1], v[i])
      /\ \A i \in 0..m : g[i] = IF i = 0 THEN Empty ELSE Extend(g[i - 1], w[i])
  <2>1. f = Unrolled(v, l, f) /\ g = Unrolled(w, m, g)
    BY SumsExist
  <2> HIDE DEF f, g
  <2> QED
    BY <2>1 DEF Unrolled
<1> HIDE DEF f, g
<1>2. 0 \in S
  BY <1>1
<1>3. ASSUME NEW j \in S PROVE j + 1 \in S
  <2> SUFFICES ASSUME j + 1 <= l PROVE f[j + 1] = g[j + 1]
    OBVIOUS
  <2>1. f[j] = g[j] /\ j + 1 \in 0..l /\ j + 1 \in 0..m /\ (j + 1) - 1 = j /\ j + 1 # 0
    OBVIOUS
  <2>2. v[j + 1] = w[j + 1]
    BY <2>1
  <2>3. f[j + 1] = Extend(f[j], v[j + 1]) /\ g[j + 1] = Extend(g[j], w[j + 1])
    BY <1>1, <2>1
  <2> QED
    BY <2>1, <2>2, <2>3
<1>4. S \in SUBSET Nat
  OBVIOUS
<1>5. \A j \in Nat : j \in S
  <2> HIDE DEF S
  <2> QED
    BY <1>2, <1>3, <1>4, Induction
<1> QED
  BY <1>5 DEF f, g

LEMMA HashNone == Hash(<<>>) = Empty
<1>1. Len(<<>>) = 0
  OBVIOUS
<1>2. Sums(<<>>, 0) = Unrolled(<<>>, 0, Sums(<<>>, 0))
  BY SumsExist
<1>3. Sums(<<>>, 0)[0] = Empty
  BY <1>2 DEF Unrolled
<1> QED
  BY <1>1, <1>3, HashIsLastSum

LEMMA HashAppend ==
    ASSUME NEW S, NEW w \in Seq(S), NEW c \in S
    PROVE  Hash(Append(w, c)) = Extend(Hash(w), c)
<1> DEFINE v == Append(w, c)
           m == Len(w)
           g == Sums(v, m + 1)
<1>1. m \in Nat /\ Len(v) = m + 1 /\ v[m + 1] = c /\ \A i \in 1..m : w[i] = v[i]
  OBVIOUS
<1> HIDE DEF v
<1>2. g = Unrolled(v, m + 1, g)
  BY <1>1, SumsExist
<1> HIDE DEF m, g
<1>3. g[m + 1] = Extend(g[m], c)
  <2>1. m + 1 \in 0..(m + 1) /\ m + 1 # 0 /\ (m + 1) - 1 = m
    BY <1>1
  <2> QED
    BY <1>1, <1>2, <2>1 DEF Unrolled
<1>4. Sums(w, m)[m] = g[m]
  BY <1>1, SumsAgree DEF g
<1>5. Hash(v) = g[m + 1] /\ Hash(w) = Sums(w, m)[m]
  BY <1>1, HashIsLastSum DEF g, m
<1> QED
  BY <1>3, <1>4, <1>5 DEF v

-----------------------------------------------------------------------------
(* The arithmetic of the packages.                                         *)

\* A remainder differs from its number by a multiple.
LEMMA Multiple ==
    ASSUME NEW d \in Nat \ {0}, NEW x \in Int
    PROVE  x % d \in 0..(d - 1) /\ \E q \in Int : x % d = x + q * d
<1> DEFINE p == x \div d
           r == x % d
<1>1. p \in Int /\ r \in 0..(d - 1) /\ x = d * p + r
  BY DivMod
<1> HIDE DEF p, r
<1>2. -p \in Int /\ r = x + (-p) * d
  BY <1>1
<1> QED
  BY <1>1, <1>2 DEF r

LEMMA SmallRemainder ==
    ASSUME NEW d \in Nat \ {0}, NEW x \in 0..(d - 1)
    PROVE  x % d = x
<1>1. x = d * 0 + x
  OBVIOUS
<1> QED
  BY <1>1, Remainder

LEMMA Sizes ==
    /\ Width \in Nat \ {0} /\ Mod \in Nat \ {0} /\ Modulus \in Nat \ {0}
    /\ \A c \in Bytes : c \in 0..(Mod - 1) /\ c \in Int
    /\ 3 * Mod <= Modulus + 1
    /\ \A c \in Bytes : (Mod - 1) * c < Modulus
<1>1. Width \in Nat \ {0} /\ Mod \in Nat \ {0} /\ Bytes \subseteq 0..(Mod - 1)
  BY ChecksumsAssumption
<1>2. Modulus \in Nat \ {0}
  BY <1>1, PowerOfTwo DEF Modulus
<1>3. \A c \in Bytes : c \in 0..(Mod - 1) /\ c \in Int
  BY <1>1
<1> QED
  BY <1>1, <1>2, <1>3, ChecksumsAssumption

\* v with x in front, m bytes before its end.
Plus(v, x, m) ==
    CASE family = "adler32"  -> [a |-> (v.a + x) % Mod, b |-> (v.b + 1 + (m + 1) * x) % Mod]
      [] family = "bozo"     -> U(v + x * BozoWeight(m))
      [] family = "buzhash"  -> Xor(v, RotateLeft(BitsOf(table[x]), m))
      [] family = "gearhash" -> U(v + table[x] * 2^m)

\* Where the checksums are.
Values ==
    CASE family = "adler32" -> [a : Nat, b : Nat]
      [] family = "buzhash" -> SUBSET (0..(Width - 1))
      [] OTHER              -> Nat

\* The three laws of a rolling checksum: of its first byte, of one more byte, and of a
\* byte that leaves.
Laws ==
    /\ Empty \in Values
    /\ \A v \in Values, c \in Bytes : Extend(v, c) \in Values
    /\ \A x \in Bytes : Extend(Empty, x) = Plus(Empty, x, 0)
    /\ \A v \in Values, x, c \in Bytes, m \in Nat :
          /\ Extend(Plus(v, x, m), c) = Plus(Extend(v, c), x, m + 1)
          /\ Slide(Plus(v, x, m), Weight(m + 1), x, c) = Extend(v, c)

\* adler32's remainder.
M(x) == x % Mod

LEMMA MIs ==
    \A x \in Int : M(x) \in 0..(Mod - 1) /\ \E q \in Int : M(x) = x + q * Mod
  BY Sizes, Multiple DEF M

LEMMA MSame ==
    ASSUME NEW x \in Int, NEW y \in Int, NEW q \in Int, x = y + q * Mod
    PROVE  M(x) = M(y)
  BY Sizes, SameRemainder DEF M

LEMMA UIs ==
    \A x \in Int : U(x) \in 0..(Modulus - 1) /\ \E q \in Int : U(x) = x + q * Modulus
  BY Sizes, Multiple DEF U

LEMMA USame ==
    ASSUME NEW x \in Int, NEW y \in Int, NEW q \in Int, x = y + q * Modulus
    PROVE  U(x) = U(y)
  BY Sizes, SameRemainder DEF U

LEMMA UFits == \A x \in 0..(Modulus - 1) : U(x) = x
  BY Sizes, SmallRemainder DEF U

\* The sums are those of all bytes, and of all sums.
LEMMA AdlerSums ==
    ASSUME NEW v \in [a : Nat, b : Nat], NEW c \in Bytes
    PROVE  /\ AdlerExtend(v, c) = [a |-> M(v.a + c), b |-> M(v.b + v.a + c)]
           /\ AdlerExtend(v, c) = [a |-> M(v.a + c), b |-> M(v.b + M(v.a + c))]
           /\ AdlerExtend(v, c) \in [a : Nat, b : Nat]
<1> DEFINE va == v.a
           vb == v.b
<1>1. AdlerExtend(v, c) = [a |-> M(va + c), b |-> M(vb + M(va + c))]
  BY DEF AdlerExtend, M
<1>2. va \in Nat /\ vb \in Nat /\ c \in Int /\ va + c \in Int /\ Mod \in Int
  BY Sizes
<1> HIDE DEF va, vb
<1>3. PICK q \in Int : M(va + c) = (va + c) + q * Mod
  BY <1>2, MIs
<1>4. vb + M(va + c) = (vb + va + c) + q * Mod /\ vb + va + c \in Int /\ vb + M(va + c) \in Int
  BY <1>2, <1>3
<1>5. M(vb + M(va + c)) = M(vb + va + c)
  BY <1>4, MSame
<1>6. M(va + c) \in Nat /\ M(vb + va + c) \in Nat
  BY <1>2, <1>4, MIs
<1> QED
  BY <1>1, <1>5, <1>6 DEF va, vb

LEMMA AdlerLaws == ASSUME family = "adler32" PROVE Laws
<1> DEFINE V == [a : Nat, b : Nat]
           X(v, x, m) == [a |-> M(v.a + x), b |-> M(v.b + 1 + (m + 1) * x)]
<1>1. /\ Values = V /\ Empty = AdlerEmpty
      /\ \A v, c : Extend(v, c) = AdlerExtend(v, c)
      /\ \A v, x, m : Plus(v, x, m) = X(v, x, m)
      /\ \A m : Weight(m) = AdlerWeight(m)
      /\ \A v, wt, x, c : Slide(v, wt, x, c) = AdlerSlide(v, wt, x, c)
  BY DEF Values, Empty, Extend, Plus, Weight, Slide, M
<1>2. /\ Mod \in Nat \ {0} /\ Modulus \in Nat \ {0}
      /\ \A c \in Bytes : c \in 0..(Mod - 1) /\ c \in Int /\ (Mod - 1) * c < Modulus
      /\ 3 * Mod <= Modulus + 1
  BY Sizes
<1>3. AdlerEmpty \in V /\ AdlerEmpty.a = 1 /\ AdlerEmpty.b = 0
  BY DEF AdlerEmpty
<1>4. ASSUME NEW v \in V, NEW c \in Bytes PROVE AdlerExtend(v, c) \in V
  BY AdlerSums
<1>5. ASSUME NEW v \in V, NEW x \in Bytes, NEW m \in Nat
      PROVE  X(v, x, m) \in V
  <2>1. v.a \in Nat /\ v.b \in Nat /\ x \in Int
    BY <1>2
  <2>2. v.a + x \in Int /\ v.b + 1 + (m + 1) * x \in Int
    BY <2>1
  <2>3. M(v.a + x) \in Nat /\ M(v.b + 1 + (m + 1) * x) \in Nat
    BY <2>2, MIs
  <2> QED
    BY <2>3
<1>6. ASSUME NEW x \in Bytes PROVE AdlerExtend(AdlerEmpty, x) = X(AdlerEmpty, x, 0)
  <2>1. 0 + 1 + x = 0 + 1 + (0 + 1) * x
    BY <1>2
  <2>2. AdlerExtend(AdlerEmpty, x)
          = [a |-> M(AdlerEmpty.a + x), b |-> M(AdlerEmpty.b + AdlerEmpty.a + x)]
    BY <1>3, AdlerSums
  <2>3. AdlerExtend(AdlerEmpty, x) = [a |-> M(1 + x), b |-> M(0 + 1 + x)]
    BY <1>3, <2>2
  <2>4. X(AdlerEmpty, x, 0) = [a |-> M(1 + x), b |-> M(0 + 1 + (0 + 1) * x)]
    BY <1>3
  <2> QED
    BY <2>1, <2>3, <2>4
<1>7. ASSUME NEW v \in V, NEW x \in Bytes, NEW c \in Bytes, NEW m \in Nat
      PROVE  AdlerExtend(X(v, x, m), c) = X(AdlerExtend(v, c), x, m + 1)
  <2> DEFINE va == v.a
             vb == v.b
             mx == (m + 1) * x
             ea == M(va + c)
             eb == M(vb + va + c)
             ya == M(va + x)
             yb == M(vb + 1 + mx)
  <2>1. va \in Nat /\ vb \in Nat /\ x \in Int /\ c \in Int /\ mx \in Int /\ Mod \in Int
        /\ ((m + 1) + 1) * x = mx + x
    BY <1>2
  <2>2. AdlerExtend(X(v, x, m), c) = [a |-> M(ya + c), b |-> M(yb + ya + c)]
    <3>1. X(v, x, m) \in V /\ X(v, x, m).a = ya /\ X(v, x, m).b = yb
      BY <1>5
    <3> DEFINE y == X(v, x, m)
    <3> HIDE DEF y, ya, yb
    <3>2. y \in V /\ y.a = ya /\ y.b = yb
      BY <3>1 DEF y
    <3>3. AdlerExtend(y, c) = [a |-> M(y.a + c), b |-> M(y.b + y.a + c)]
      BY <3>2, AdlerSums
    <3>4. AdlerExtend(y, c) = [a |-> M(ya + c), b |-> M(yb + ya + c)]
      BY <3>2, <3>3
    <3> QED
      BY <3>4 DEF y
  <2>3. X(AdlerExtend(v, c), x, m + 1) = [a |-> M(ea + x), b |-> M(eb + 1 + (mx + x))]
    <3>1. AdlerExtend(v, c) = [a |-> ea, b |-> eb]
      BY AdlerSums
    <3>2. AdlerExtend(v, c).a = ea /\ AdlerExtend(v, c).b = eb
      BY <3>1
    <3>3. X(AdlerExtend(v, c), x, m + 1)
            = [a |-> M(AdlerExtend(v, c).a + x),
               b |-> M(AdlerExtend(v, c).b + 1 + ((m + 1) + 1) * x)]
      OBVIOUS
    <3> HIDE DEF ea, eb, mx, X
    <3> QED
      BY <3>2, <3>3, <2>1
  <2>4. PICK p \in Int : yb = (vb + 1 + mx) + p * Mod
    <3>1. vb + 1 + mx \in Int
      BY <2>1
    <3> QED
      BY <3>1, MIs
  <2>5. PICK q \in Int : ya = (va + x) + q * Mod
    <3>1. va + x \in Int
      BY <2>1
    <3> QED
      BY <3>1, MIs
  <2>6. PICK r \in Int : eb = (vb + va + c) + r * Mod
    <3>1. vb + va + c \in Int
      BY <2>1
    <3> QED
      BY <3>1, MIs
  <2>7. PICK t \in Int : ea = (va + c) + t * Mod
    <3>1. va + c \in Int
      BY <2>1
    <3> QED
      BY <3>1, MIs
  <2> HIDE DEF va, vb, mx, ea, eb, ya, yb
  <2>8. M(ya + c) = M(ea + x)
    <3>1. ya + c = (ea + x) + (q - t) * Mod /\ ya + c \in Int /\ ea + x \in Int /\ q - t \in Int
      BY <2>1, <2>5, <2>7
    <3> QED
      BY <3>1, MSame
  <2>9. M(yb + ya + c) = M(eb + 1 + (mx + x))
    <3>1. /\ yb + ya + c = (eb + 1 + (mx + x)) + (p + q - r) * Mod
          /\ yb + ya + c \in Int /\ eb + 1 + (mx + x) \in Int /\ p + q - r \in Int
      BY <2>1, <2>4, <2>5, <2>6
    <3> QED
      BY <3>1, MSame
  <2> QED
    BY <2>2, <2>3, <2>8, <2>9
<1>8. ASSUME NEW v \in V, NEW x \in Bytes, NEW c \in Bytes, NEW m \in Nat
      PROVE  AdlerSlide(X(v, x, m), AdlerWeight(m + 1), x, c) = AdlerExtend(v, c)
  <2> DEFINE va == v.a
             vb == v.b
             mx == (m + 1) * x
             wt == M(m + 1)
             wx == wt * x
             ya == M(va + x)
             yb == M(vb + 1 + mx)
             s  == M(U(ya + Mod + c - x))
             t  == M(U(wx))
             z  == yb + s + Mod - 1 - t
  <2>1. /\ va \in Nat /\ vb \in Nat /\ x \in 0..(Mod - 1) /\ c \in 0..(Mod - 1) /\ mx \in Int
        /\ va + x \in Int /\ vb + 1 + mx \in Int /\ m + 1 \in Int /\ va + c \in Int
        /\ (Mod - 1) * x < Modulus
    BY <1>2
  <2>2. AdlerSlide(X(v, x, m), AdlerWeight(m + 1), x, c) = [a |-> s, b |-> M(U(z))]
    BY DEF AdlerSlide, AdlerWeight, M
  <2>3. AdlerExtend(v, c) = [a |-> M(va + c), b |-> M(vb + M(va + c))]
    BY AdlerSums
  <2>4. ya \in 0..(Mod - 1) /\ \E q \in Int : ya = (va + x) + q * Mod
    BY <2>1, MIs
  <2>5. yb \in 0..(Mod - 1) /\ \E q \in Int : yb = (vb + 1 + mx) + q * Mod
    BY <2>1, MIs
  <2>6. wt \in 0..(Mod - 1) /\ \E q \in Int : wt = (m + 1) + q * Mod
    BY <2>1, MIs
  <2> HIDE DEF va, vb, ya, yb, wt
  <2>7. s = M(va + c) /\ s \in 0..(Mod - 1)
    <3>1. ya + Mod + c - x \in 0..(Modulus - 1)
      BY <2>1, <2>4, <1>2
    <3>2. U(ya + Mod + c - x) = ya + Mod + c - x
      BY <3>1, UFits
    <3>3. PICK q \in Int : ya = (va + x) + q * Mod
      BY <2>4
    <3>4. /\ ya + Mod + c - x = (va + c) + (q + 1) * Mod
          /\ va + c \in Int /\ q + 1 \in Int /\ ya + Mod + c - x \in Int
      BY <3>3, <2>1, <2>4, <1>2
    <3>5. M(ya + Mod + c - x) = M(va + c)
      BY <3>4, MSame
    <3> QED
      BY <3>2, <3>5, <2>1, MIs
  <2>8. t \in 0..(Mod - 1) /\ \E q \in Int : t = mx + q * Mod
    <3>1. wx \in 0..(Modulus - 1)
      <4> DEFINE most == (Mod - 1) * x
      <4>1. wx <= most /\ wx \in Nat /\ most < Modulus /\ most \in Int /\ Modulus \in Int
        BY <2>1, <2>6, <1>2
      <4> HIDE DEF wx, most
      <4> QED
        BY <4>1
    <3>2. PICK q \in Int : wt = (m + 1) + q * Mod
      BY <2>6
    <3>3. wx = mx + (q * x) * Mod /\ q * x \in Int
      BY <3>2, <2>1, <1>2
    <3> DEFINE e == q * x
    <3> HIDE DEF wx, e, mx
    <3>4. U(wx) = wx /\ wx \in Int
      BY <3>1, UFits
    <3>5. t \in 0..(Mod - 1) /\ \E r \in Int : t = wx + r * Mod
      BY <3>4, MIs
    <3>6. PICK r \in Int : t = wx + r * Mod
      BY <3>5
    <3> HIDE DEF t
    <3>7. wx = mx + e * Mod /\ e \in Int
      BY <3>3 DEF e
    <3>8. t = mx + (e + r) * Mod /\ e + r \in Int
      BY <3>6, <3>7, <2>1, <1>2
    <3> QED
      BY <3>5, <3>8
  <2> HIDE DEF s, t, mx
  <2>9. M(U(z)) = M(vb + s)
    <3>1. z \in 0..(Modulus - 1)
      BY <2>5, <2>7, <2>8, <1>2
    <3>2. PICK p \in Int : yb = (vb + 1 + mx) + p * Mod
      BY <2>5
    <3>3. PICK q \in Int : t = mx + q * Mod
      BY <2>8
    <3>4. /\ z = (vb + s) + (p + 1 - q) * Mod /\ z \in Int
          /\ vb + s \in Int /\ p + 1 - q \in Int
      BY <3>2, <3>3, <2>1, <2>5, <2>7, <2>8, <1>2
    <3> HIDE DEF z
    <3>5. U(z) = z
      BY <3>1, UFits
    <3>6. M(z) = M(vb + s)
      BY <3>4, MSame
    <3> QED
      BY <3>5, <3>6
  <2> QED
    BY <2>2, <2>3, <2>7, <2>9
<1> HIDE DEF V, X
<1> QED
  BY <1>1, <1>3, <1>4, <1>6, <1>7, <1>8 DEF Laws

\* The powers of bozo's multiplier.
Powers(m, h) == [i \in 0..m |-> IF i = 0 THEN 1 ELSE U(h[i - 1] * a)]

\* BozoWeight's recursion defines a function.
LEMMA PowersExist ==
    ASSUME NEW m \in Nat
    PROVE  \E h : h = Powers(m, h)
<1> DEFINE S == {j \in Nat : \E h : h = Powers(j, h)}
<1>1. 0 \in S
  <2> DEFINE h == [i \in 0..0 |-> 1]
  <2>1. h = Powers(0, h)
    BY DEF Powers
  <2> HIDE DEF h
  <2> QED
    BY <2>1
<1>2. ASSUME NEW j \in S PROVE j + 1 \in S
  <2>1. PICK h : h = Powers(j, h)
    OBVIOUS
  <2> DEFINE g == [i \in 0..(j + 1) |-> IF i = j + 1 THEN U(h[j] * a) ELSE h[i]]
  <2>2. j \in Nat
    OBVIOUS
  <2>3. ASSUME NEW i \in 0..(j + 1)
        PROVE  g[i] = IF i = 0 THEN 1 ELSE U(g[i - 1] * a)
    <3>1. CASE i = j + 1
      <4>1. g[i - 1] = h[j] /\ i # 0 /\ g[i] = U(h[j] * a)
        BY <2>2, <3>1
      <4> HIDE DEF g
      <4> QED
        BY <3>1, <4>1
    <3>2. CASE i # j + 1 /\ i = 0
      BY <2>1, <2>2, <3>2 DEF Powers
    <3>3. CASE i # j + 1 /\ i # 0
      <4>1. i \in 0..j /\ i - 1 \in 0..(j + 1) /\ i - 1 # j + 1
        BY <2>2, <3>3
      <4>2. g[i - 1] = h[i - 1] /\ g[i] = h[i]
        BY <3>3, <4>1
      <4>3. h[i] = U(h[i - 1] * a)
        BY <2>1, <3>3, <4>1 DEF Powers
      <4> HIDE DEF g
      <4> QED
        BY <3>3, <4>2, <4>3
    <3> QED
      BY <3>1, <3>2, <3>3
  <2>4. g = [i \in 0..(j + 1) |-> g[i]]
    OBVIOUS
  <2> HIDE DEF g
  <2>5. g = Powers(j + 1, g)
    BY <2>3, <2>4 DEF Powers
  <2> QED
    BY <2>2, <2>5
<1>3. \A j \in Nat : j \in S
  <2> HIDE DEF S
  <2>1. S \in SUBSET Nat
    BY DEF S
  <2> QED
    BY <1>1, <1>2, <2>1, Induction
<1> QED
  BY <1>3

Power(m) == CHOOSE h : h = Powers(m, h)

\* A weight is the one before it multiplied once more.
LEMMA BozoWeights ==
    ASSUME a \in Int, NEW m \in Nat
    PROVE  /\ BozoWeight(m) \in Nat
           /\ BozoWeight(0) = 1
           /\ BozoWeight(m + 1) = U(BozoWeight(m) * a)
<1>1. \A j \in Nat : BozoWeight(j) = Power(j)[j]
  BY DEF BozoWeight, Power, Powers
<1>2. ASSUME NEW j \in Nat
      PROVE  \A i \in 0..j : Power(j)[i] = IF i = 0 THEN 1 ELSE U(Power(j)[i - 1] * a)
  <2>1. PICK h : h = Powers(j, h)
    BY PowersExist
  <2>2. Power(j) = Powers(j, Power(j))
    BY <2>1, Zenon DEF Power
  <2> DEFINE g == Power(j)
  <2> HIDE DEF g
  <2>3. g = Powers(j, g)
    BY <2>2 DEF g
  <2>4. \A i \in 0..j : g[i] = IF i = 0 THEN 1 ELSE U(g[i - 1] * a)
    BY <2>3 DEF Powers
  <2> QED
    BY <2>4 DEF g
<1> DEFINE f == Power(m)
           g == Power(m + 1)
           S == {j \in Nat : j <= m => f[j] = g[j] /\ f[j] \in Nat}
<1>3. /\ \A i \in 0..m : f[i] = IF i = 0 THEN 1 ELSE U(f[i - 1] * a)
      /\ \A i \in 0..(m + 1) : g[i] = IF i = 0 THEN 1 ELSE U(g[i - 1] * a)
  <2>1. m + 1 \in Nat
    OBVIOUS
  <2> QED
    BY <1>2, <2>1
<1> HIDE DEF f, g
<1>4. 0 \in S
  BY <1>3
<1>5. ASSUME NEW j \in S PROVE j + 1 \in S
  <2> SUFFICES ASSUME j + 1 <= m PROVE f[j + 1] = g[j + 1] /\ f[j + 1] \in Nat
    OBVIOUS
  <2>1. /\ f[j] = g[j] /\ f[j] \in Nat
        /\ j + 1 \in 0..m /\ j + 1 \in 0..(m + 1) /\ (j + 1) - 1 = j /\ j + 1 # 0
    OBVIOUS
  <2>2. f[j + 1] = U(f[j] * a) /\ g[j + 1] = U(g[j] * a)
    BY <1>3, <2>1
  <2>3. f[j] * a \in Int
    BY <2>1
  <2> QED
    BY <2>1, <2>2, <2>3, UIs
<1>6. S \in SUBSET Nat
  OBVIOUS
<1>7. m \in S
  <2> HIDE DEF S
  <2> QED
    BY <1>4, <1>5, <1>6, Induction
<1>8. f[m] = g[m] /\ f[m] \in Nat
  BY <1>7
<1>9. g[m + 1] = U(g[m] * a)
  <2>1. m + 1 \in 0..(m + 1) /\ (m + 1) - 1 = m /\ m + 1 # 0
    OBVIOUS
  <2> QED
    BY <1>3, <2>1
<1>10. Power(0)[0] = 1
  BY <1>2
<1>11. BozoWeight(m) = f[m] /\ BozoWeight(m + 1) = g[m + 1] /\ BozoWeight(0) = Power(0)[0]
  <2>1. m + 1 \in Nat
    OBVIOUS
  <2> QED
    BY <1>1, <2>1 DEF f, g
<1> QED
  BY <1>8, <1>9, <1>10, <1>11

LEMMA BozoLaws == ASSUME family = "bozo", a \in Int PROVE Laws
<1> DEFINE X(v, x, m) == U(v + x * BozoWeight(m))
<1>1. /\ Values = Nat /\ Empty = 0
      /\ \A v, c : Extend(v, c) = U(v * a + c)
      /\ \A v, x, m : Plus(v, x, m) = X(v, x, m)
      /\ \A m : Weight(m) = BozoWeight(m)
      /\ \A v, wt, x, c : Slide(v, wt, x, c) = U(v * a + c - x * wt)
  BY DEF Values, Empty, Extend, Plus, Weight, Slide, BozoExtend, BozoSlide
<1>2. Modulus \in Int /\ \A c \in Bytes : c \in Int
  BY Sizes
<1>3. ASSUME NEW v \in Nat, NEW c \in Bytes PROVE U(v * a + c) \in Nat
  <2>1. v * a + c \in Int
    BY <1>2
  <2> QED
    BY <2>1, UIs
<1>4. ASSUME NEW x \in Bytes PROVE U(0 * a + x) = X(0, x, 0)
  <2>1. BozoWeight(0) = 1
    BY BozoWeights
  <2>2. 0 * a + x = 0 + x * 1
    BY <1>2
  <2> QED
    BY <2>1, <2>2
<1>5. ASSUME NEW v \in Nat, NEW x \in Bytes, NEW c \in Bytes, NEW m \in Nat
      PROVE  /\ U(X(v, x, m) * a + c) = X(U(v * a + c), x, m + 1)
             /\ U(X(v, x, m) * a + c - x * BozoWeight(m + 1)) = U(v * a + c)
  <2> DEFINE p  == BozoWeight(m)
             p1 == BozoWeight(m + 1)
             va == v * a
             xp == x * p
             pa == p * a
             y  == U(v + xp)
             e  == U(va + c)
  <2>1. p \in Nat /\ p1 = U(pa)
    BY BozoWeights
  <2>2. va \in Int /\ xp \in Int /\ pa \in Int /\ xp * a = x * pa /\ x \in Int /\ c \in Int
        /\ v + xp \in Int /\ va + c \in Int
    BY <2>1, <1>2
  <2>3. PICK q \in Int : p1 = pa + q * Modulus
    BY <2>1, <2>2, UIs
  <2>4. PICK r \in Int : y = (v + xp) + r * Modulus
    BY <2>2, UIs
  <2>5. PICK t \in Int : e = (va + c) + t * Modulus
    BY <2>2, UIs
  <2> HIDE DEF p, p1, y, e
  <2>6. y * a = va + x * pa + (r * a) * Modulus
    <3>1. y * a = v * a + xp * a + (r * a) * Modulus
      <4> HIDE DEF xp
      <4> QED
        BY <2>2, <2>4, <1>2
    <3> QED
      BY <3>1, <2>2
  <2>7. x * p1 = x * pa + (x * q) * Modulus
    <3> HIDE DEF pa
    <3> QED
      BY <2>2, <2>3, <1>2
  <2> DEFINE ya  == y * a
             xpa == x * pa
             ra  == r * a
             xq  == x * q
             xp1 == x * p1
  <2>8. xpa \in Int /\ ra \in Int /\ xq \in Int
    BY <2>2, <2>3, <2>4
  <2>9. ya = va + xpa + ra * Modulus /\ xp1 = xpa + xq * Modulus
    BY <2>6, <2>7
  <2> HIDE DEF ya, xpa, ra, xq, xp1, va, xp, pa
  <2>10. U(ya + c) = U(e + xp1)
    <3>1. /\ ya + c = (e + xp1) + (ra - t - xq) * Modulus
          /\ ya + c \in Int /\ e + xp1 \in Int /\ ra - t - xq \in Int
      BY <2>2, <2>5, <2>8, <2>9, <1>2
    <3> QED
      BY <3>1, USame
  <2>11. U(ya + c - xp1) = U(va + c)
    <3>1. /\ ya + c - xp1 = (va + c) + (ra - xq) * Modulus
          /\ ya + c - xp1 \in Int /\ va + c \in Int /\ ra - xq \in Int
      BY <2>2, <2>8, <2>9, <1>2
    <3> QED
      BY <3>1, USame
  <2> QED
    BY <2>10, <2>11 DEF ya, xp1, va, y, e, p, p1, xp
<1> HIDE DEF X
<1>6. 0 \in Nat
  OBVIOUS
<1>7. \A v \in Nat, x, c \in Bytes, m \in Nat :
        /\ Extend(Plus(v, x, m), c) = Plus(Extend(v, c), x, m + 1)
        /\ Slide(Plus(v, x, m), Weight(m + 1), x, c) = Extend(v, c)
  BY <1>1, <1>5
<1> QED
  BY <1>1, <1>3, <1>4, <1>6, <1>7 DEF Laws

\* A power of two that Width bits do not hold is a multiple of their modulus.
LEMMA PowerAbove ==
    ASSUME NEW m \in Nat
    PROVE  \E q \in Nat : 2^(Width + m) = q * Modulus
<1> DEFINE S == {j \in Nat : \E q \in Nat : 2^(Width + j) = q * Modulus}
<1>1. Width \in Nat /\ Modulus \in Nat
  BY Sizes
<1>2. 0 \in S
  <2>1. Width + 0 = Width /\ Modulus = 1 * Modulus
    BY <1>1
  <2>2. 2^(Width + 0) = 1 * Modulus
    BY <2>1 DEF Modulus
  <2> QED
    BY <2>2
<1>3. ASSUME NEW j \in S PROVE j + 1 \in S
  <2>1. PICK q \in Nat : 2^(Width + j) = q * Modulus
    OBVIOUS
  <2>2. Width + j \in Nat /\ Width + (j + 1) = (Width + j) + 1
    BY <1>1
  <2>3. 2^((Width + j) + 1) = 2 * 2^(Width + j)
    BY <2>2, PowerOfTwo
  <2>4. 2 * (q * Modulus) = (2 * q) * Modulus /\ 2 * q \in Nat
    BY <1>1
  <2>5. 2^(Width + (j + 1)) = (2 * q) * Modulus
    BY <2>1, <2>2, <2>3, <2>4
  <2> QED
    BY <2>4, <2>5
<1>4. S \in SUBSET Nat
  OBVIOUS
<1>5. m \in S
  <2> HIDE DEF S
  <2> QED
    BY <1>2, <1>3, <1>4, Induction
<1> QED
  BY <1>5

\* What gearhash takes out, shifted out of the checksum or not, is what has come in.
LEMMA GearWeights ==
    ASSUME NEW m \in Nat, NEW x \in Bytes, table[x] \in Nat
    PROVE  /\ GearWeight(m)[x] \in Int
           /\ \E q \in Int : GearWeight(m)[x] = table[x] * 2^m + q * Modulus
<1> DEFINE g == table[x]
           p == 2^m
           gp == g * p
<1>1. p \in Nat /\ Modulus \in Nat \ {0} /\ Width \in Nat
  BY PowerOfTwo, Sizes
<1>2. GearWeight(m)[x] = IF m < Width THEN U(gp) ELSE 0
  BY DEF GearWeight
<1>3. gp \in Int
  BY <1>1
<1>4. CASE m < Width
  <2> HIDE DEF gp
  <2>1. U(gp) \in Int /\ \E q \in Int : U(gp) = gp + q * Modulus
    BY <1>3, UIs
  <2> QED
    BY <1>2, <1>4, <2>1 DEF gp
<1>5. CASE ~ (m < Width)
  <2>1. m - Width \in Nat /\ Width + (m - Width) = m
    BY <1>1, <1>5
  <2>2. PICK q \in Nat : 2^(Width + (m - Width)) = q * Modulus
    BY <2>1, PowerAbove
  <2>3. p = q * Modulus
    BY <2>1, <2>2
  <2> HIDE DEF g, p
  <2>4. gp = (g * q) * Modulus /\ g * q \in Int
    BY <2>3, <1>1 DEF g
  <2> DEFINE e == g * q
  <2>5. gp = e * Modulus /\ e \in Int
    BY <2>4
  <2> HIDE DEF gp, e
  <2>6. 0 = gp + (-e) * Modulus /\ -e \in Int
    BY <2>5, <1>1
  <2> QED
    BY <1>2, <1>5, <2>6 DEF gp, g, p
<1> QED
  BY <1>4, <1>5

LEMMA GearLaws == ASSUME family = "gearhash", table \in [Bytes -> Nat] PROVE Laws
<1> DEFINE X(v, x, m) == U(v + table[x] * 2^m)
<1>1. /\ Values = Nat /\ Empty = 0
      /\ \A v, c : Extend(v, c) = U(U(v * 2) + table[c])
      /\ \A v, x, m : Plus(v, x, m) = X(v, x, m)
      /\ \A m : Weight(m) = GearWeight(m)
      /\ \A v, wt, x, c : Slide(v, wt, x, c) = U(U(v * 2) - wt[x] + table[c])
  BY DEF Values, Empty, Extend, Plus, Weight, Slide, GearExtend, GearSlide
<1>2. Modulus \in Int /\ \A c \in Bytes : table[c] \in Nat
  BY Sizes
<1>3. ASSUME NEW v \in Nat, NEW c \in Bytes PROVE U(U(v * 2) + table[c]) \in Nat
  <2>1. v * 2 \in Int
    OBVIOUS
  <2>2. U(v * 2) + table[c] \in Int
    BY <2>1, <1>2, UIs
  <2> QED
    BY <2>2, UIs
<1>4. ASSUME NEW x \in Bytes PROVE U(U(0 * 2) + table[x]) = X(0, x, 0)
  <2>1. Modulus \in Nat \ {0} /\ 0 * 2 = 0 /\ 2^0 = 1
    BY Sizes
  <2>2. U(0) = 0
    BY <2>1, UFits
  <2>3. 0 + table[x] = 0 + table[x] * 1
    BY <1>2
  <2> QED
    BY <2>1, <2>2, <2>3
<1>5. ASSUME NEW v \in Nat, NEW x \in Bytes, NEW c \in Bytes, NEW m \in Nat
      PROVE  /\ U(U(X(v, x, m) * 2) + table[c]) = X(U(U(v * 2) + table[c]), x, m + 1)
             /\ U(U(X(v, x, m) * 2) - GearWeight(m + 1)[x] + table[c]) = U(U(v * 2) + table[c])
  <2> DEFINE g  == table[x]
             h  == table[c]
             p  == 2^m
             gp == g * p
             wt == GearWeight(m + 1)[x]
             y  == U(v + gp)
             y2 == U(y * 2)
             v2 == U(v * 2)
             e  == U(v2 + h)
  <2>1. g \in Nat /\ h \in Nat /\ p \in Nat /\ 2^(m + 1) = 2 * p
    BY <1>2, PowerOfTwo
  <2>2. gp \in Int /\ g * 2^(m + 1) = 2 * gp
    BY <2>1
  <2>3. PICK q \in Int : wt \in Int /\ wt = 2 * gp + q * Modulus
    <3>1. m + 1 \in Nat /\ table[x] \in Nat
      BY <1>2
    <3>2. wt \in Int /\ \E q \in Int : wt = g * 2^(m + 1) + q * Modulus
      BY <3>1, GearWeights
    <3> QED
      BY <2>2, <3>2
  <2>4. PICK r \in Int : y \in Int /\ y = (v + gp) + r * Modulus
    <3>1. v + gp \in Int
      BY <2>2
    <3> QED
      BY <3>1, UIs
  <2>5. PICK s \in Int : y2 \in Int /\ y2 = y * 2 + s * Modulus
    <3>1. y * 2 \in Int
      BY <2>4
    <3> QED
      BY <3>1, UIs
  <2>6. PICK t \in Int : v2 \in Int /\ v2 = v * 2 + t * Modulus
    <3>1. v * 2 \in Int
      OBVIOUS
    <3> QED
      BY <3>1, UIs
  <2>7. PICK u \in Int : e \in Int /\ e = (v2 + h) + u * Modulus
    <3>1. v2 + h \in Int
      BY <2>1, <2>6
    <3> QED
      BY <3>1, UIs
  <2> HIDE DEF g, h, p, gp, wt, y, y2, v2, e
  <2>8. U(y2 + h) = U(e + 2 * gp)
    <3>1. /\ y2 + h = (e + 2 * gp) + (2 * r + s - t - u) * Modulus
          /\ y2 + h \in Int /\ e + 2 * gp \in Int /\ 2 * r + s - t - u \in Int
      BY <2>1, <2>2, <2>4, <2>5, <2>6, <2>7, <1>2
    <3> QED
      BY <3>1, USame
  <2>9. U(y2 - wt + h) = U(v2 + h)
    <3>1. /\ y2 - wt + h = (v2 + h) + (2 * r + s - t - q) * Modulus
          /\ y2 - wt + h \in Int /\ v2 + h \in Int /\ 2 * r + s - t - q \in Int
      BY <2>1, <2>2, <2>3, <2>4, <2>5, <2>6, <1>2
    <3> QED
      BY <3>1, USame
  <2>10. X(e, x, m + 1) = U(e + 2 * gp) /\ X(v, x, m) = y
    BY <2>2 DEF g, p, gp, y
  <2> HIDE DEF X
  <2> QED
    BY <2>8, <2>9, <2>10 DEF g, h, wt, y2, v2, e
<1> HIDE DEF X
<1>6. 0 \in Nat
  OBVIOUS
<1>7. \A v \in Nat, x, c \in Bytes, m \in Nat :
        /\ Extend(Plus(v, x, m), c) = Plus(Extend(v, c), x, m + 1)
        /\ Slide(Plus(v, x, m), Weight(m + 1), x, c) = Extend(v, c)
  BY <1>1, <1>5
<1> QED
  BY <1>1, <1>3, <1>4, <1>6, <1>7 DEF Laws

\* Positions of bits.
W(x) == x % Width

LEMMA WIs ==
    \A x \in Int : W(x) \in 0..(Width - 1) /\ \E q \in Int : W(x) = x + q * Width
  BY Sizes, Multiple DEF W

LEMMA WSame ==
    ASSUME NEW x \in Int, NEW y \in Int, NEW q \in Int, x = y + q * Width
    PROVE  W(x) = W(y)
  BY Sizes, SameRemainder DEF W

BitIndex == 0..(Width - 1)

\* Where a rotation takes a bit.
LEMMA BitRotates ==
    ASSUME NEW x \in BitIndex, NEW y \in BitIndex, NEW i \in Nat, NEW j \in Nat
    PROVE  /\ W(x + i) \in BitIndex
           /\ W(x + 0) = x
           /\ W(W(x + i) + j) = W(x + (i + j))
           /\ W(x + W(i)) = W(x + i)
           /\ W(x + i) = W(y + i) => x = y
<1>1. Width \in Nat \ {0} /\ x \in 0..(Width - 1) /\ y \in 0..(Width - 1)
  BY Sizes DEF BitIndex
<1>2. /\ x + i \in Int /\ y + i \in Int /\ i \in Int /\ x + 0 = x
      /\ x + (i + j) \in Int
  BY <1>1
<1>3. W(x) = x
  BY <1>1, SmallRemainder DEF W
<1>4. PICK q \in Int : W(x + i) \in 0..(Width - 1) /\ W(x + i) = (x + i) + q * Width
  BY <1>2, WIs
<1>5. PICK r \in Int : W(y + i) = (y + i) + r * Width
  BY <1>2, WIs
<1>6. PICK s \in Int : W(i) \in 0..(Width - 1) /\ W(i) = i + s * Width
  BY <1>2, WIs
<1>7. W(W(x + i) + j) = W(x + (i + j))
  <2>1. W(x + i) + j = (x + (i + j)) + q * Width /\ W(x + i) + j \in Int
    BY <1>1, <1>4
  <2> QED
    BY <2>1, <1>2, WSame
<1>8. W(x + W(i)) = W(x + i)
  <2>1. x + W(i) = (x + i) + s * Width /\ x + W(i) \in Int
    BY <1>1, <1>6
  <2> QED
    BY <2>1, <1>2, WSame
<1>9. ASSUME W(x + i) = W(y + i) PROVE x = y
  <2> DEFINE e == r - q
  <2>1. e \in Int /\ x - y = e * Width /\ x - y < Width /\ x - y > -Width
    BY <1>1, <1>4, <1>5, <1>9
  <2> HIDE DEF e
  <2>2. ~ (e >= 1)
    BY <2>1, <1>1
  <2>3. ~ (e <= -1)
    BY <2>1, <1>1
  <2>4. e = 0
    BY <2>1, <2>2, <2>3
  <2> QED
    BY <2>1, <2>4, <1>1
<1> QED
  BY <1>2, <1>3, <1>4, <1>7, <1>8, <1>9 DEF BitIndex

\* Rotations of a word of Width bits.
LEMMA Rotations ==
    ASSUME NEW v \in SUBSET (BitIndex), NEW w \in SUBSET (BitIndex),
           NEW i \in Nat, NEW j \in Nat
    PROVE  /\ RotateLeft(v, i) \in SUBSET (BitIndex)
           /\ RotateLeft(v, 0) = v
           /\ RotateLeft(RotateLeft(v, i), j) = RotateLeft(v, i + j)
           /\ RotateLeft(v, BuzWeight(i)) = RotateLeft(v, i)
           /\ RotateLeft(Xor(v, w), i) = Xor(RotateLeft(v, i), RotateLeft(w, i))
<1>1. \A u, l : RotateLeft(u, l) = {W(x + l) : x \in u}
  BY DEF RotateLeft, W
<1>2. ASSUME NEW x \in BitIndex
      PROVE  /\ W(x + i) \in BitIndex /\ W(x + 0) = x
             /\ W(W(x + i) + j) = W(x + (i + j)) /\ W(x + W(i)) = W(x + i)
  BY BitRotates
<1>3. ASSUME NEW x \in BitIndex, NEW y \in BitIndex, W(x + i) = W(y + i) PROVE x = y
  <2>1. /\ W(W(x + i) + j) = W(x + (i + j))
        /\ W(x + i) = W(y + i) => x = y
    BY BitRotates
  <2> QED
    BY <1>3, <2>1
<1>4. BuzWeight(i) = W(i)
  BY DEF BuzWeight, W
<1>5. v \in SUBSET BitIndex /\ w \in SUBSET BitIndex
  OBVIOUS
<1>6. RotateLeft(v, i) \in SUBSET BitIndex
  BY <1>1, <1>2, <1>5
<1>7. RotateLeft(v, 0) = v
  <2>1. \A x \in v : W(x + 0) = x
    BY <1>2, <1>5
  <2> QED
    BY <1>1, <2>1
<1>8. RotateLeft(RotateLeft(v, i), j) = RotateLeft(v, i + j)
  <2>1. RotateLeft(RotateLeft(v, i), j) = {W(y + j) : y \in {W(x + i) : x \in v}}
    BY <1>1
  <2>2. {W(y + j) : y \in {W(x + i) : x \in v}} = {W(W(x + i) + j) : x \in v}
    OBVIOUS
  <2>3. {W(W(x + i) + j) : x \in v} = {W(x + (i + j)) : x \in v}
    <3>1. \A x \in v : W(W(x + i) + j) = W(x + (i + j))
      BY <1>2, <1>5
    <3> QED
      BY <3>1
  <2> QED
    BY <1>1, <2>1, <2>2, <2>3
<1>9. RotateLeft(v, BuzWeight(i)) = RotateLeft(v, i)
  <2>1. \A x \in v : W(x + W(i)) = W(x + i)
    BY <1>2, <1>5
  <2>2. {W(x + W(i)) : x \in v} = {W(x + i) : x \in v}
    BY <2>1
  <2> QED
    BY <1>1, <1>4, <2>2
<1>10. RotateLeft(Xor(v, w), i) = Xor(RotateLeft(v, i), RotateLeft(w, i))
  <2> DEFINE f == {W(x + i) : x \in v}
             g == {W(x + i) : x \in w}
             h == {W(x + i) : x \in (v \ w) \union (w \ v)}
  <2>1. ASSUME NEW z \in h PROVE z \in (f \ g) \union (g \ f)
    <3>1. PICK x \in (v \ w) \union (w \ v) : z = W(x + i)
      BY <2>1
    <3>2. \A y \in v \union w : W(y + i) = z => y = x
      BY <3>1, <1>3, <1>5
    <3> QED
      BY <3>1, <3>2
  <2>2. ASSUME NEW z \in (f \ g) \union (g \ f) PROVE z \in h
    OBVIOUS
  <2>3. h = (f \ g) \union (g \ f)
    <3> HIDE DEF f, g, h
    <3> QED
      BY <2>1, <2>2
  <2>4. RotateLeft(Xor(v, w), i) = h /\ RotateLeft(v, i) = f /\ RotateLeft(w, i) = g
    BY <1>1 DEF Xor
  <2> QED
    BY <2>3, <2>4 DEF Xor
<1> QED
  BY <1>6, <1>7, <1>8, <1>9, <1>10

LEMMA BuzLaws == ASSUME family = "buzhash" PROVE Laws
<1> DEFINE V  == SUBSET (BitIndex)
           T(c) == BitsOf(table[c])
           X(v, x, m) == Xor(v, RotateLeft(T(x), m))
           E(v, c) == Xor(RotateLeft(v, 1), T(c))
<1>1. /\ Values = V /\ Empty = {}
      /\ \A v, c : Extend(v, c) = E(v, c)
      /\ \A v, x, m : Plus(v, x, m) = X(v, x, m)
      /\ \A m : Weight(m) = BuzWeight(m)
      /\ \A v, wt, x, c :
            Slide(v, wt, x, c) = Xor(Xor(RotateLeft(v, 1), RotateLeft(T(x), wt)), T(c))
  BY DEF Values, Empty, Extend, Plus, Weight, Slide, BuzExtend, BuzSlide, BitIndex
<1>2. \A c : T(c) \in V
  BY DEF BitsOf, BitIndex
<1>3. \A v, w \in V : Xor(v, w) \in V
  BY DEF Xor
<1>4. \A v, w \in V, i, j \in Nat :
        /\ RotateLeft(v, i) \in V
        /\ RotateLeft(v, 0) = v
        /\ RotateLeft(RotateLeft(v, i), j) = RotateLeft(v, i + j)
        /\ RotateLeft(v, BuzWeight(i)) = RotateLeft(v, i)
        /\ RotateLeft(Xor(v, w), i) = Xor(RotateLeft(v, i), RotateLeft(w, i))
  BY Rotations
<1>5. ASSUME NEW x \in Bytes PROVE E({}, x) = X({}, x, 0)
  <2>1. RotateLeft({}, 1) = {} /\ RotateLeft(T(x), 0) = T(x)
    <3>1. RotateLeft({}, 1) = {}
      BY DEF RotateLeft
    <3>2. RotateLeft(T(x), 0) = T(x)
      <4> DEFINE t == T(x)
      <4>1. t \in V /\ 0 \in Nat
        BY <1>2
      <4> HIDE DEF t
      <4>2. RotateLeft(t, 0) = t
        BY <4>1, <1>4
      <4> QED
        BY <4>2 DEF t
    <3> QED
      BY <3>1, <3>2
  <2> QED
    BY <2>1
<1>6. ASSUME NEW v \in V, NEW x \in Bytes, NEW c \in Bytes, NEW m \in Nat
      PROVE  /\ E(X(v, x, m), c) = X(E(v, c), x, m + 1)
             /\ Xor(Xor(RotateLeft(X(v, x, m), 1), RotateLeft(T(x), BuzWeight(m + 1))), T(c))
                  = E(v, c)
  <2> DEFINE t  == T(x)
             u  == T(c)
             r  == RotateLeft(t, m)
             y  == Xor(v, r)
             v1 == RotateLeft(v, 1)
             t1 == RotateLeft(t, m + 1)
  <2>1. t \in V /\ u \in V /\ r \in V /\ 1 \in Nat /\ m + 1 \in Nat
    <3>1. t \in V /\ u \in V
      BY <1>2
    <3> HIDE DEF t, u, V
    <3> QED
      BY <3>1, <1>4
  <2>2. RotateLeft(r, 1) = t1
    <3> HIDE DEF t, V
    <3> QED
      BY <2>1, <1>4
  <2>3. RotateLeft(y, 1) = Xor(v1, t1)
    <3> HIDE DEF r, t1, V
    <3>1. RotateLeft(Xor(v, r), 1) = Xor(RotateLeft(v, 1), RotateLeft(r, 1))
      BY <2>1, <1>4
    <3> QED
      BY <2>2, <3>1
  <2>4. RotateLeft(t, BuzWeight(m + 1)) = t1
    <3> HIDE DEF t, V
    <3> QED
      BY <2>1, <1>4
  <2> HIDE DEF t, u, r, y, v1, t1
  <2>5. /\ Xor(RotateLeft(y, 1), u) = Xor(Xor(v1, u), t1)
        /\ Xor(Xor(RotateLeft(y, 1), t1), u) = Xor(v1, u)
    <3>1. Xor(Xor(v1, t1), u) = Xor(Xor(v1, u), t1)
      BY DEF Xor
    <3>2. Xor(Xor(v1, t1), t1) = v1
      BY DEF Xor
    <3> QED
      BY <2>3, <3>1, <3>2
  <2> QED
    BY <2>4, <2>5 DEF t, u, y, v1, t1, r
<1> HIDE DEF X
<1>7. {} \in V
  OBVIOUS
<1>8. \A v \in V, c \in Bytes : E(v, c) \in V
  BY <1>2, <1>3, <1>4
<1> HIDE DEF E, T, V
<1>9. \A v \in V, x, c \in Bytes, m \in Nat :
        /\ Extend(Plus(v, x, m), c) = Plus(Extend(v, c), x, m + 1)
        /\ Slide(Plus(v, x, m), Weight(m + 1), x, c) = Extend(v, c)
  BY <1>1, <1>6
<1> QED
  BY <1>1, <1>5, <1>7, <1>8, <1>9 DEF Laws

\* The laws hold of each package, as New and the like configure it.
LEMMA AllLaws == ASSUME Configured PROVE Laws
<1>1. Modulus \in Nat
  BY Sizes
<1>2. a \in Int /\ table \in [Bytes -> Nat]
  BY <1>1 DEF Configured
<1> QED
  BY <1>2, AdlerLaws, BozoLaws, BuzLaws, GearLaws DEF Configured

-----------------------------------------------------------------------------
(* Rolling.                                                                *)

\* A checksum is what it would be without the first byte, and that byte in front.
LEMMA FirstByte ==
    ASSUME Configured, NEW x \in Bytes, NEW w \in Seq(Bytes)
    PROVE  Hash(w) \in Values /\ Hash(<<x>> \o w) = Plus(Hash(w), x, Len(w))
<1> DEFINE P(v) == Hash(v) \in Values /\ Hash(<<x>> \o v) = Plus(Hash(v), x, Len(v))
           S == {m \in Nat : \A v \in Seq(Bytes) : Len(v) = m => P(v)}
<1>1. /\ Empty \in Values
      /\ \A v \in Values, c \in Bytes : Extend(v, c) \in Values
      /\ Extend(Empty, x) = Plus(Empty, x, 0)
      /\ \A v \in Values, c \in Bytes, m \in Nat :
            Extend(Plus(v, x, m), c) = Plus(Extend(v, c), x, m + 1)
  BY AllLaws DEF Laws
<1>2. 0 \in S
  <2> SUFFICES ASSUME NEW v \in Seq(Bytes), Len(v) = 0 PROVE P(v)
    OBVIOUS
  <2>1. v = <<>> /\ <<x>> \o v = Append(<<>>, x) /\ <<>> \in Seq(Bytes)
    OBVIOUS
  <2>2. Hash(Append(<<>>, x)) = Extend(Hash(<<>>), x)
    BY <2>1, HashAppend
  <2> QED
    BY <2>1, <2>2, <1>1, HashNone
<1>3. ASSUME NEW m \in S PROVE m + 1 \in S
  <2> SUFFICES ASSUME NEW v \in Seq(Bytes), Len(v) = m + 1 PROVE P(v)
    OBVIOUS
  <2>1. m \in Nat
    OBVIOUS
  <2> DEFINE u == SubSeq(v, 1, m)
             c == v[m + 1]
  <2>2. u \in Seq(Bytes) /\ Len(u) = m /\ c \in Bytes /\ v = Append(u, c)
    BY <2>1, LastByte
  <2> HIDE DEF u, c
  <2>3. Hash(u) \in Values /\ Hash(<<x>> \o u) = Plus(Hash(u), x, m)
    BY <2>2
  <2>4. <<x>> \o v = Append(<<x>> \o u, c) /\ <<x>> \o u \in Seq(Bytes)
    BY <2>2
  <2>5. Hash(v) = Extend(Hash(u), c)
    BY <2>2, HashAppend
  <2>6. Hash(<<x>> \o v) = Extend(Plus(Hash(u), x, m), c)
    BY <2>2, <2>3, <2>4, HashAppend
  <2> QED
    BY <2>1, <2>2, <2>3, <2>5, <2>6, <1>1
<1>4. S \in SUBSET Nat
  OBVIOUS
<1>5. \A m \in Nat : m \in S
  <2> HIDE DEF S
  <2> QED
    BY <1>2, <1>3, <1>4, Induction
<1>6. Len(w) \in S
  BY <1>5
<1> QED
  BY <1>6

\* Taking the first byte out with its weight and one more in gives the checksum of the
\* window that has moved by one.
LEMMA SlideIsHash ==
    ASSUME Configured, NEW w \in Seq(Bytes), w # <<>>, NEW c \in Bytes
    PROVE  Slide(Hash(w), Weight(Len(w)), w[1], c) = Hash(Append(Tail(w), c))
<1> DEFINE x == w[1]
           t == Tail(w)
<1>1. x \in Bytes /\ t \in Seq(Bytes) /\ Len(t) \in Nat /\ Len(w) = Len(t) + 1
  BY FirstAndRest
<1>2. w = <<x>> \o t
  BY FirstAndRest
<1> HIDE DEF x, t
<1>3. Hash(t) \in Values /\ Hash(<<x>> \o t) = Plus(Hash(t), x, Len(t))
  BY <1>1, FirstByte
<1>4. Slide(Plus(Hash(t), x, Len(t)), Weight(Len(t) + 1), x, c) = Extend(Hash(t), c)
  BY <1>1, <1>3, AllLaws DEF Laws
<1>5. Hash(Append(t, c)) = Extend(Hash(t), c)
  BY <1>1, HashAppend
<1> QED
  BY <1>1, <1>2, <1>3, <1>4, <1>5 DEF x, t

-----------------------------------------------------------------------------
(* The window.                                                             *)

\* The oldest byte is in the window, if there is one.
WindowInv ==
    /\ window \in Seq(Bytes)
    /\ oldest \in Nat
    /\ oldest = 0 \/ oldest < Len(window)

\* w from index o round.
Circle(w, o) == SubSeq(w, o + 1, Len(w)) \o SubSeq(w, 1, o)

LEMMA Parts ==
    ASSUME NEW S, NEW w \in Seq(S), NEW o \in 0..Len(w)
    PROVE  /\ SubSeq(w, 1, o) \in Seq(S) /\ Len(SubSeq(w, 1, o)) = o
           /\ \A i \in 1..o : SubSeq(w, 1, o)[i] = w[i]
           /\ SubSeq(w, o + 1, Len(w)) \in Seq(S)
           /\ Len(SubSeq(w, o + 1, Len(w))) = Len(w) - o
           /\ \A i \in 1..(Len(w) - o) : SubSeq(w, o + 1, Len(w))[i] = w[o + i]
<1>1. Len(w) \in Nat /\ o \in Nat /\ o <= Len(w)
  OBVIOUS
<1>2. /\ SubSeq(w, 1, o) \in Seq(S) /\ Len(SubSeq(w, 1, o)) = o
      /\ \A i \in 1..o : SubSeq(w, 1, o)[i] = w[i]
  BY <1>1
<1>3. /\ SubSeq(w, o + 1, Len(w)) \in Seq(S)
      /\ Len(SubSeq(w, o + 1, Len(w))) = Len(w) - o
      /\ \A i \in 1..(Len(w) - o) : SubSeq(w, o + 1, Len(w))[i] = w[o + i]
  BY <1>1
<1> QED
  BY <1>2, <1>3

LEMMA CircleAt ==
    ASSUME NEW S, NEW w \in Seq(S), NEW o \in 0..Len(w)
    PROVE  /\ Circle(w, o) \in Seq(S) /\ Len(Circle(w, o)) = Len(w)
           /\ \A i \in 1..Len(w) :
                Circle(w, o)[i] = IF i <= Len(w) - o THEN w[o + i] ELSE w[i - (Len(w) - o)]
<1> DEFINE s == SubSeq(w, o + 1, Len(w))
           t == SubSeq(w, 1, o)
<1>1. /\ t \in Seq(S) /\ Len(t) = o /\ \A i \in 1..o : t[i] = w[i]
      /\ s \in Seq(S) /\ Len(s) = Len(w) - o /\ \A i \in 1..(Len(w) - o) : s[i] = w[o + i]
  BY Parts
<1>2. Len(w) \in Nat /\ o \in Nat /\ o <= Len(w)
  OBVIOUS
<1> HIDE DEF s, t
<1>3. /\ s \o t \in Seq(S) /\ Len(s \o t) = Len(s) + Len(t)
      /\ \A i \in 1..(Len(s) + Len(t)) :
           (s \o t)[i] = IF i <= Len(s) THEN s[i] ELSE t[i - Len(s)]
  BY <1>1, ConcatProperties
<1>4. ASSUME NEW i \in 1..Len(w)
      PROVE  (s \o t)[i] = IF i <= Len(w) - o THEN w[o + i] ELSE w[i - (Len(w) - o)]
  <2>1. CASE i <= Len(w) - o
    <3>1. i \in 1..(Len(w) - o) /\ (s \o t)[i] = s[i]
      BY <2>1, <1>1, <1>2, <1>3
    <3> QED
      BY <2>1, <3>1, <1>1
  <2>2. CASE ~ (i <= Len(w) - o)
    <3>1. i - (Len(w) - o) \in 1..o /\ (s \o t)[i] = t[i - (Len(w) - o)]
      BY <2>2, <1>1, <1>2, <1>3
    <3> QED
      BY <2>2, <3>1, <1>1
  <2> QED
    BY <2>1, <2>2
<1>5. Circle(w, o) = s \o t
  BY DEF Circle, s, t
<1>6. s \o t \in Seq(S) /\ Len(s \o t) = Len(w)
  BY <1>1, <1>2, <1>3
<1> QED
  BY <1>4, <1>5, <1>6

LEMMA Reversed ==
    ASSUME NEW S, NEW w \in Seq(S)
    PROVE  /\ Reverse(w) \in Seq(S) /\ Len(Reverse(w)) = Len(w)
           /\ \A i \in 1..Len(w) : Reverse(w)[i] = w[Len(w) - i + 1]
<1>1. Len(w) \in Nat /\ \A i \in 1..Len(w) : w[i] \in S
  OBVIOUS
<1>2. Reverse(w) = [i \in 1..Len(w) |-> w[(Len(w) - i) + 1]]
  BY DEF Reverse
<1>3. \A i \in 1..Len(w) : (Len(w) - i) + 1 \in 1..Len(w)
  BY <1>1
<1>4. Reverse(w) \in [1..Len(w) -> S]
  BY <1>1, <1>2, <1>3
<1> QED
  BY <1>1, <1>2, <1>4

\* Reversing both parts and then the whole rotates w.
LEMMA MoveLeftRotates ==
    ASSUME NEW S, window \in Seq(S), NEW o \in 0..Len(window)
    PROVE  MoveLeft(o) = Circle(window, o)
<1> DEFINE w == window
           s == Reverse(SubSeq(w, 1, o))
           t == Reverse(SubSeq(w, o + 1, Len(w)))
           m == s \o t
<1>1. w \in Seq(S) /\ Len(w) \in Nat /\ o \in Nat /\ o <= Len(w)
  OBVIOUS
<1>2. /\ s \in Seq(S) /\ Len(s) = o /\ \A i \in 1..o : s[i] = w[o - i + 1]
  <2> DEFINE u == SubSeq(w, 1, o)
  <2>1. u \in Seq(S) /\ Len(u) = o /\ \A i \in 1..o : u[i] = w[i]
    BY <1>1, Parts
  <2>2. s \in Seq(S) /\ Len(s) = o /\ \A i \in 1..o : s[i] = u[o - i + 1]
    <3> HIDE DEF u
    <3>1. /\ Reverse(u) \in Seq(S) /\ Len(Reverse(u)) = Len(u)
          /\ \A i \in 1..Len(u) : Reverse(u)[i] = u[Len(u) - i + 1]
      BY <2>1, Reversed
    <3> QED
      BY <3>1, <2>1 DEF u
  <2>3. \A i \in 1..o : o - i + 1 \in 1..o
    BY <1>1
  <2> HIDE DEF u, s
  <2> QED
    BY <2>1, <2>2, <2>3
<1>3. /\ t \in Seq(S) /\ Len(t) = Len(w) - o
      /\ \A i \in 1..(Len(w) - o) : t[i] = w[o + (Len(w) - o - i + 1)]
  <2> DEFINE u == SubSeq(w, o + 1, Len(w))
  <2>1. /\ u \in Seq(S) /\ Len(u) = Len(w) - o
        /\ \A i \in 1..(Len(w) - o) : u[i] = w[o + i]
    BY <1>1, Parts
  <2>2. /\ t \in Seq(S) /\ Len(t) = Len(w) - o
        /\ \A i \in 1..(Len(w) - o) : t[i] = u[(Len(w) - o) - i + 1]
    <3> HIDE DEF u
    <3>1. /\ Reverse(u) \in Seq(S) /\ Len(Reverse(u)) = Len(u)
          /\ \A i \in 1..Len(u) : Reverse(u)[i] = u[Len(u) - i + 1]
      BY <2>1, Reversed
    <3> QED
      BY <3>1, <2>1 DEF u
  <2>3. \A i \in 1..(Len(w) - o) : (Len(w) - o) - i + 1 \in 1..(Len(w) - o)
    BY <1>1
  <2> HIDE DEF u, t
  <2> QED
    BY <2>1, <2>2, <2>3
<1> HIDE DEF s, t
<1>4. /\ m \in Seq(S) /\ Len(m) = Len(w)
      /\ \A i \in 1..Len(w) : m[i] = IF i <= o THEN s[i] ELSE t[i - o]
  <2>1. /\ s \o t \in Seq(S) /\ Len(s \o t) = Len(s) + Len(t)
        /\ \A i \in 1..(Len(s) + Len(t)) :
             (s \o t)[i] = IF i <= Len(s) THEN s[i] ELSE t[i - Len(s)]
    BY <1>2, <1>3, ConcatProperties
  <2> QED
    BY <2>1, <1>1, <1>2, <1>3
<1> HIDE DEF m
<1>5. /\ Reverse(m) \in Seq(S) /\ Len(Reverse(m)) = Len(w)
      /\ \A i \in 1..Len(w) : Reverse(m)[i] = m[Len(w) - i + 1]
  BY <1>4, Reversed
<1>6. /\ Circle(w, o) \in Seq(S) /\ Len(Circle(w, o)) = Len(w)
      /\ \A i \in 1..Len(w) :
           Circle(w, o)[i] = IF i <= Len(w) - o THEN w[o + i] ELSE w[i - (Len(w) - o)]
  BY <1>1, CircleAt
<1>7. ASSUME NEW i \in 1..Len(w) PROVE Reverse(m)[i] = Circle(w, o)[i]
  <2> DEFINE j == Len(w) - i + 1
  <2>1. j \in 1..Len(w) /\ Reverse(m)[i] = m[j]
    BY <1>1, <1>5
  <2>2. CASE i <= Len(w) - o
    <3>1. ~ (j <= o) /\ j - o \in 1..(Len(w) - o) /\ o + (Len(w) - o - (j - o) + 1) = o + i
      BY <2>2, <1>1
    <3>2. m[j] = t[j - o]
      BY <3>1, <2>1, <1>4
    <3>3. t[j - o] = w[o + (Len(w) - o - (j - o) + 1)]
      BY <3>1, <1>3
    <3> HIDE DEF j
    <3> QED
      BY <2>1, <2>2, <3>1, <3>2, <3>3, <1>6
  <2>3. CASE ~ (i <= Len(w) - o)
    <3>1. j <= o /\ j \in 1..o /\ o - j + 1 = i - (Len(w) - o)
      BY <2>3, <1>1
    <3>2. m[j] = s[j]
      BY <3>1, <2>1, <1>4
    <3>3. s[j] = w[o - j + 1]
      BY <3>1, <1>2
    <3> HIDE DEF j
    <3> QED
      BY <2>1, <2>3, <3>1, <3>2, <3>3, <1>6
  <2> QED
    BY <2>2, <2>3
<1>8. Reverse(m) = Circle(w, o)
  BY <1>5, <1>6, <1>7, SeqEqual
<1>9. MoveLeft(o) = Reverse(m)
  BY DEF MoveLeft, First, From, m, s, t
<1> QED
  BY <1>8, <1>9

LEMMA ContentIs == content = Circle(window, oldest)
  BY DEF content, From, First, Circle

\* What the window holds, as Write, Roll and Reset see it.
LEMMA InOrder ==
    ASSUME WindowInv
    PROVE  /\ oldest \in 0..Len(window)
           /\ content \in Seq(Bytes) /\ Len(content) = Len(window)
           /\ oldest = 0 => content = window
<1>1. Len(window) \in Nat /\ oldest \in 0..Len(window) /\ window \in Seq(Bytes)
  BY DEF WindowInv
<1>2. /\ Circle(window, oldest) \in Seq(Bytes) /\ Len(Circle(window, oldest)) = Len(window)
      /\ \A i \in 1..Len(window) :
            Circle(window, oldest)[i] = IF i <= Len(window) - oldest THEN window[oldest + i]
                                        ELSE window[i - (Len(window) - oldest)]
  BY <1>1, CircleAt
<1>3. ASSUME oldest = 0 PROVE Circle(window, oldest) = window
  <2>1. \A i \in 1..Len(window) : Circle(window, oldest)[i] = window[i]
    BY <1>1, <1>2, <1>3
  <2> QED
    BY <1>1, <1>2, <2>1, SeqEqual
<1> QED
  BY <1>1, <1>2, <1>3, ContentIs

LEMMA WriteStep ==
    ASSUME WindowInv, NEW m \in Nat, NEW data \in [1..m -> Bytes], Write(data)
    PROVE  /\ WindowInv' /\ content' = content \o data
<1>1. data \in Seq(Bytes)
  OBVIOUS
<1>2. /\ oldest \in 0..Len(window) /\ window \in Seq(Bytes)
      /\ content \in Seq(Bytes)
      /\ oldest = 0 => content = window
  BY InOrder DEF WindowInv
<1>3. oldest' = 0
      /\ window' = (IF oldest # 0 THEN MoveLeft(oldest) ELSE window) \o data
  BY DEF Write
<1>4. window' = content \o data
  <2>1. MoveLeft(oldest) = content
    BY <1>2, MoveLeftRotates, ContentIs
  <2> QED
    BY <2>1, <1>2, <1>3
<1>5. window' \in Seq(Bytes)
  BY <1>1, <1>2, <1>4
<1>6. WindowInv'
  BY <1>3, <1>5 DEF WindowInv
<1>7. content' = window'
  <2> DEFINE w == window'
  <2>1. content' = Circle(w, 0)
    BY <1>3 DEF content, From, First, Circle
  <2>2. w \in Seq(Bytes)
    BY <1>5
  <2> HIDE DEF w
  <2>3. /\ Circle(w, 0) \in Seq(Bytes) /\ Len(Circle(w, 0)) = Len(w)
        /\ \A i \in 1..Len(w) :
             Circle(w, 0)[i] = IF i <= Len(w) - 0 THEN w[0 + i] ELSE w[i - (Len(w) - 0)]
    BY <2>2, CircleAt
  <2>4. \A i \in 1..Len(w) : Circle(w, 0)[i] = w[i]
    BY <2>2, <2>3
  <2>5. Circle(w, 0) = w
    BY <2>2, <2>3, <2>4, SeqEqual
  <2> QED
    BY <2>1, <2>5 DEF w
<1> QED
  BY <1>4, <1>6, <1>7

LEMMA RollStep ==
    ASSUME WindowInv, NEW c \in Bytes, Roll(c)
    PROVE  WindowInv' /\ content # <<>>
           /\ content' = Append(Tail(content), c)
<1> DEFINE w  == window
           o  == oldest
           w2 == window'
           o2 == oldest'
           L  == Len(window)
<1>1. w \in Seq(Bytes) /\ L \in Nat \ {0} /\ o \in 0..(L - 1)
  BY DEF Roll, WindowInv
<1>2. w2 = [w EXCEPT ![o + 1] = c] /\ o2 = (IF o + 1 >= L THEN 0 ELSE o + 1)
  BY DEF Roll
<1>3. /\ w2 \in Seq(Bytes) /\ Len(w2) = L
      /\ \A j \in 1..L : w2[j] = IF j = o + 1 THEN c ELSE w[j]
  <2>1. o + 1 \in 1..L /\ L = Len(w)
    BY <1>1
  <2> HIDE DEF w, w2, o, o2, L
  <2> QED
    BY <2>1, <1>1, <1>2, ExceptSeq
<1>4. o2 \in 0..(L - 1)
  BY <1>1, <1>2
<1>5. WindowInv'
  BY <1>1, <1>3, <1>4 DEF WindowInv
<1>6. content = Circle(w, o) /\ content' = Circle(w2, o2)
  BY DEF content, From, First, Circle
<1>7. /\ Circle(w, o) \in Seq(Bytes) /\ Len(Circle(w, o)) = L
      /\ \A i \in 1..L : Circle(w, o)[i] = IF i <= L - o THEN w[o + i] ELSE w[i - (L - o)]
  BY <1>1, CircleAt
<1> HIDE DEF w2, o2
<1>8. /\ Circle(w2, o2) \in Seq(Bytes) /\ Len(Circle(w2, o2)) = L
      /\ \A i \in 1..L :
            Circle(w2, o2)[i] = IF i <= L - o2 THEN w2[o2 + i] ELSE w2[i - (L - o2)]
  <2>1. o2 \in 0..Len(w2)
    BY <1>1, <1>3, <1>4
  <2>2. /\ Circle(w2, o2) \in Seq(Bytes) /\ Len(Circle(w2, o2)) = Len(w2)
        /\ \A i \in 1..Len(w2) : Circle(w2, o2)[i] =
              IF i <= Len(w2) - o2 THEN w2[o2 + i] ELSE w2[i - (Len(w2) - o2)]
    BY <2>1, <1>3, CircleAt
  <2> QED
    BY <2>2, <1>3
<1> HIDE DEF w, o, L
<1> DEFINE old == Circle(w, o)
           new == Append(Tail(old), c)
<1>9. /\ new \in Seq(Bytes) /\ Len(new) = L
      /\ \A i \in 1..L : new[i] = IF i < L THEN old[i + 1] ELSE c
  <2> HIDE DEF old
  <2>1. old \in Seq(Bytes) /\ Len(old) = L /\ L \in Nat \ {0}
    BY <1>1, <1>7 DEF old
  <2>2. old # <<>>
    BY <2>1
  <2>3. /\ Tail(old) \in Seq(Bytes) /\ Len(Tail(old)) = L - 1
        /\ \A i \in 1..(L - 1) : Tail(old)[i] = old[i + 1]
    BY <2>1, <2>2
  <2> DEFINE t == Tail(old)
  <2> HIDE DEF t
  <2>4. t \in Seq(Bytes) /\ Len(t) = L - 1 /\ \A i \in 1..(L - 1) : t[i] = old[i + 1]
    BY <2>3 DEF t
  <2>5. /\ Append(t, c) \in Seq(Bytes) /\ Len(Append(t, c)) = L
        /\ \A i \in 1..L : Append(t, c)[i] = IF i < L THEN old[i + 1] ELSE c
    BY <2>1, <2>4
  <2> QED
    BY <2>5 DEF t
<1>10. ASSUME NEW i \in 1..L PROVE Circle(w2, o2)[i] = new[i]
  <2> HIDE DEF new
  <2>1. CASE i = L
    <3>1. new[i] = c
      BY <2>1, <1>1, <1>9
    <3>2. Circle(w2, o2)[i] = w2[o + 1]
      <4>1. CASE o + 1 >= L
        <5>1. o2 = 0 /\ o + 1 = L
          BY <4>1, <1>1, <1>2
        <5>2. i <= L - o2 /\ o2 + i = o + 1
          BY <5>1, <2>1, <1>1
        <5> QED
          BY <5>2, <1>8
      <4>2. CASE ~ (o + 1 >= L)
        <5>1. o2 = o + 1 /\ ~ (i <= L - o2) /\ i - (L - o2) = o + 1
          BY <4>2, <2>1, <1>1, <1>2
        <5> QED
          BY <5>1, <1>8
      <4> QED
        BY <4>1, <4>2
    <3>3. o + 1 \in 1..L
      BY <1>1
    <3> QED
      BY <3>1, <3>2, <3>3, <1>3
  <2>2. CASE i < L
    <3>1. new[i] = old[i + 1] /\ i + 1 \in 1..L
      BY <2>2, <1>1, <1>9
    <3>2. old[i + 1] = IF i + 1 <= L - o THEN w[o + (i + 1)] ELSE w[(i + 1) - (L - o)]
      BY <3>1, <1>7
    <3>3. Circle(w2, o2)[i] = IF i <= L - o2 THEN w2[o2 + i] ELSE w2[i - (L - o2)]
      BY <1>8
    <3> HIDE DEF old
    <3>4. CASE i + 1 <= L - o
      <4>1. /\ o + (i + 1) \in 1..L /\ o + (i + 1) # o + 1
            /\ i <= L - o2 /\ o2 + i = o + (i + 1)
        BY <3>4, <1>1, <1>2
      <4> QED
        BY <4>1, <3>1, <3>2, <3>3, <3>4, <1>3
    <3>5. CASE ~ (i + 1 <= L - o)
      <4>1. /\ (i + 1) - (L - o) \in 1..L /\ (i + 1) - (L - o) # o + 1
        BY <3>5, <2>2, <1>1
      <4>2. CASE o + 1 >= L
        <5>1. o2 = 0 /\ o + 1 = L
          BY <4>2, <1>1, <1>2
        <5>2. i <= L - o2 /\ o2 + i = (i + 1) - (L - o)
          BY <5>1, <2>2, <1>1
        <5> QED
          BY <5>2, <4>1, <3>1, <3>2, <3>3, <3>5, <1>3
      <4>3. CASE ~ (o + 1 >= L)
        <5>1. /\ o2 = o + 1 /\ ~ (i <= L - o2)
              /\ i - (L - o2) = (i + 1) - (L - o)
          BY <4>3, <3>5, <1>1, <1>2
        <5> QED
          BY <5>1, <4>1, <3>1, <3>2, <3>3, <3>5, <1>3
      <4> QED
        BY <4>2, <4>3
    <3> QED
      BY <3>4, <3>5
  <2> QED
    BY <2>1, <2>2, <1>1
<1>11. Circle(w2, o2) = new
  <2> HIDE DEF new
  <2> QED
    BY <1>8, <1>9, <1>10, SeqEqual
<1>12. old # <<>>
  BY <1>1, <1>7
<1> QED
  BY <1>5, <1>6, <1>11, <1>12

LEMMA CircleFromStart == ASSUME NEW S, NEW w \in Seq(S) PROVE Circle(w, 0) = w
<1>1. 0 \in 0..Len(w) /\ Len(w) \in Nat
  OBVIOUS
<1>2. /\ Circle(w, 0) \in Seq(S) /\ Len(Circle(w, 0)) = Len(w)
      /\ \A i \in 1..Len(w) :
           Circle(w, 0)[i] = IF i <= Len(w) - 0 THEN w[0 + i] ELSE w[i - (Len(w) - 0)]
  BY <1>1, CircleAt
<1>3. \A i \in 1..Len(w) : Circle(w, 0)[i] = w[i]
  BY <1>1, <1>2
<1> QED
  BY <1>2, <1>3, SeqEqual

LEMMA ResetStep ==
    ASSUME window' = <<>>, oldest' = 0
    PROVE  content' = <<>>
<1>1. content' = Circle(<<>>, 0)
  BY DEF content, From, First, Circle
<1>2. <<>> \in Seq({})
  OBVIOUS
<1> QED
  BY <1>1, <1>2, CircleFromStart

\* The lengths that Next writes.
LEMMA WriteLengths ==
    ASSUME WindowInv
    PROVE  \A m \in 1..(MaxWindow - Len(window)) : m \in Nat
<1>1. MaxWindow \in Nat /\ Len(window) \in Nat
  BY RollingHashAssumption DEF WindowInv
<1> QED
  BY <1>1

\* Write leaves the weight that Roll will need; without a window it needs none.
WeightTrue == window # <<>> => weight = Weight(Len(window))

IInv == Configured /\ WindowInv /\ WeightTrue /\ RollAgreesWithWrite

\* While the packages' parameters stay, so do the checksums and the weights.
LEMMA SameParameters ==
    ASSUME UNCHANGED <<family, a, table>>, NEW w
    PROVE  /\ Configured' = Configured
           /\ Empty' = Empty
           /\ content' = w => Hash(content)' = Hash(w)
           /\ Len(window)' = w => Weight(Len(window))' = Weight(w)
<1>1. Configured' = Configured
  BY DEF Configured
<1>2. Empty' = Empty
  BY DEF Empty, AdlerEmpty
<1>3. content' = w => Hash(content)' = Hash(w)
  BY DEF Hash, Empty, Extend, AdlerExtend, AdlerEmpty, BozoExtend, BuzExtend, GearExtend,
         RotateLeft, BitsOf, Xor
<1>4. Len(window)' = w => Weight(Len(window))' = Weight(w)
  BY DEF Weight, AdlerWeight, BozoWeight, BuzWeight, GearWeight
<1> QED
  BY <1>1, <1>2, <1>3, <1>4

\* IInv holds in every reachable state.
THEOREM Invariance == Spec => []IInv
<1>1. Init => IInv
  <2> SUFFICES ASSUME Init PROVE IInv
    OBVIOUS
  <2>1. Configured /\ window = <<>> /\ oldest = 0 /\ value = Empty
    BY DEF Init
  <2>2. WindowInv
    BY <2>1 DEF WindowInv
  <2>3. content = <<>>
    BY <2>1, <2>2, InOrder
  <2> QED
    BY <2>1, <2>2, <2>3, HashNone DEF IInv, WeightTrue, RollAgreesWithWrite
<1>2. IInv /\ [Next]_vars => IInv'
  <2> SUFFICES ASSUME IInv, [Next]_vars PROVE IInv'
    OBVIOUS
  <2> USE DEF IInv
  <2>1. ASSUME NEW m \in Nat, NEW data \in [1..m -> Bytes], Write(data) PROVE IInv'
    <3>1. WindowInv' /\ content' = content \o data
      BY <2>1, WriteStep
    <3>2. UNCHANGED <<family, a, table>> /\ oldest' = 0 /\ value' = Hash(window')
          /\ weight' = Weight(Len(window'))
      BY <2>1 DEF Write
    <3>3. content' = window'
      <4> DEFINE w == window'
      <4>1. content' = Circle(w, 0) /\ w \in Seq(Bytes)
        BY <3>1, <3>2 DEF content, From, First, Circle, WindowInv
      <4> HIDE DEF w
      <4>2. Circle(w, 0) = w
        BY <4>1, CircleFromStart
      <4> QED
        BY <4>1, <4>2 DEF w
    <3>4. Configured' /\ Hash(content)' = value' /\ Weight(Len(window))' = weight'
      BY <3>2, <3>3, SameParameters
    <3> QED
      BY <3>1, <3>4 DEF WeightTrue, RollAgreesWithWrite
  <2>2. ASSUME NEW c \in Bytes, Roll(c) PROVE IInv'
    <3>1. WindowInv' /\ content # <<>> /\ content' = Append(Tail(content), c)
      BY <2>2, RollStep
    <3>2. /\ UNCHANGED <<family, a, table, weight>> /\ window # <<>>
          /\ value' = Slide(value, weight, window[oldest + 1], c)
          /\ window' = [window EXCEPT ![oldest + 1] = c]
      BY <2>2 DEF Roll
    <3>3. content \in Seq(Bytes) /\ Len(content) = Len(window) /\ content[1] = window[oldest + 1]
      <4>1. window \in Seq(Bytes) /\ oldest \in 0..Len(window) /\ oldest < Len(window)
        BY <3>2 DEF WindowInv
      <4>2. 1 \in 1..Len(window) /\ 1 <= Len(window) - oldest
        BY <4>1
      <4> QED
        BY <4>1, <4>2, CircleAt, ContentIs
    <3>4. Slide(value, weight, window[oldest + 1], c) = Hash(Append(Tail(content), c))
      BY <3>1, <3>2, <3>3, SlideIsHash DEF WeightTrue, RollAgreesWithWrite
    <3>5. Len(window') = Len(window) /\ window' # <<>>
      BY <3>2 DEF WindowInv
    <3>6. Configured' /\ Hash(content)' = value' /\ Weight(Len(window))' = weight'
      <4>1. Len(window)' = Len(window)
        BY <3>5
      <4>2. weight = Weight(Len(window))
        BY <3>2 DEF WeightTrue
      <4> QED
        BY <3>1, <3>2, <3>4, <4>1, <4>2, SameParameters
    <3> QED
      BY <3>1, <3>6 DEF WeightTrue, RollAgreesWithWrite
  <2>3. CASE Reset
    <3>1. /\ UNCHANGED <<family, a, table>> /\ window' = <<>> /\ oldest' = 0 /\ value' = Empty
      BY <2>3 DEF Reset
    <3>2. WindowInv'
      BY <3>1 DEF WindowInv
    <3>3. content' = <<>>
      BY <3>1, ResetStep
    <3>4. Configured' /\ Hash(content)' = value'
      BY <3>1, <3>3, HashNone, SameParameters
    <3> QED
      BY <3>1, <3>2, <3>4 DEF WeightTrue, RollAgreesWithWrite
  <2>4. CASE UNCHANGED vars
    <3>1. UNCHANGED <<family, a, table, window, oldest, weight, value>>
      BY <2>4 DEF vars
    <3>2. content' = content /\ WindowInv' /\ Len(window)' = Len(window)
      BY <3>1 DEF content, From, First, WindowInv
    <3>3. Configured' /\ Hash(content)' = Hash(content)
          /\ Weight(Len(window))' = Weight(Len(window))
      BY <3>1, <3>2, SameParameters
    <3> QED
      BY <3>1, <3>2, <3>3 DEF WeightTrue, RollAgreesWithWrite
  <2> QED
    BY <2>1, <2>2, <2>3, <2>4, WriteLengths DEF Next
<1> QED
  BY <1>1, <1>2, PTL DEF Spec

\* Whatever mix of Write, Roll and Reset led to a window, the checksum is the one that
\* writing it at once would give.
THEOREM RollIsWrite == Spec => []RollAgreesWithWrite
<1>1. IInv => RollAgreesWithWrite
  BY DEF IInv
<1> QED
  BY <1>1, Invariance, PTL

-----------------------------------------------------------------------------
(* BatchRoll.                                                              *)

\* A lane's sums are the checksums of its windows.
LEMMA LaneIsHash ==
    ASSUME Configured, NEW data \in Seq(Bytes), NEW w \in Nat \ {0},
           NEW first \in Nat, NEW last \in Int, last + w <= Len(data)
    PROVE  \A i \in first..last :
               Lane(data, w, first, last)[i] = Hash(WindowAt(data, w, i))
<1> DEFINE F(v) == [i \in first..last |->
                       IF i = first THEN Hash(SubSeq(data, first + 1, first + w))
                       ELSE Slide(v[i - 1], Weight(w), data[i], data[i + w])]
           g    == [i \in first..last |-> Hash(WindowAt(data, w, i))]
           L    == CHOOSE v : v = F(v)
<1>1. ASSUME NEW i \in Nat, i + 1 + w <= Len(data)
      PROVE  Slide(Hash(WindowAt(data, w, i)), Weight(w), data[i + 1], data[(i + 1) + w])
               = Hash(WindowAt(data, w, i + 1))
  <2> DEFINE v == WindowAt(data, w, i)
             c == data[(i + 1) + w]
  <2>1. /\ v \in Seq(Bytes) /\ v # <<>> /\ Len(v) = w /\ v[1] = data[i + 1] /\ c \in Bytes
        /\ WindowAt(data, w, i + 1) = Append(Tail(v), c)
    BY <1>1, NextWindow
  <2> HIDE DEF v, c
  <2>2. Slide(Hash(v), Weight(Len(v)), v[1], c) = Hash(Append(Tail(v), c))
    BY <2>1, SlideIsHash
  <2> QED
    BY <2>1, <2>2 DEF v, c
<1>2. g = F(g)
  <2>1. ASSUME NEW i \in first..last
        PROVE  Hash(WindowAt(data, w, i))
                 = IF i = first THEN Hash(SubSeq(data, first + 1, first + w))
                   ELSE Slide(g[i - 1], Weight(w), data[i], data[i + w])
    <3>1. CASE i = first
      BY <3>1 DEF WindowAt
    <3>2. CASE i # first
      <4>1. /\ i - 1 \in first..last /\ i - 1 \in Nat /\ (i - 1) + 1 + w <= Len(data)
            /\ (i - 1) + 1 = i
        BY <3>2
      <4>2. g[i - 1] = Hash(WindowAt(data, w, i - 1))
        BY <4>1
      <4> DEFINE j == i - 1
      <4> HIDE DEF j, g
      <4>3. j \in Nat /\ j + 1 + w <= Len(data) /\ j + 1 = i /\ g[i - 1] = Hash(WindowAt(data, w, j))
        BY <4>1, <4>2 DEF j
      <4>4. Slide(Hash(WindowAt(data, w, j)), Weight(w), data[j + 1], data[(j + 1) + w])
              = Hash(WindowAt(data, w, j + 1))
        BY <4>3, <1>1
      <4> QED
        BY <3>2, <4>3, <4>4
    <3> QED
      BY <3>1, <3>2
  <2> QED
    BY <2>1
<1>3. L = F(L)
  <2> HIDE DEF g, F
  <2> QED
    BY <1>2, Zenon
<1>4. Lane(data, w, first, last) = L
  BY DEF Lane
<1>5. ASSUME NEW i \in first..last
      PROVE  L[i] = IF i = first THEN Hash(WindowAt(data, w, first))
                    ELSE Slide(L[i - 1], Weight(w), data[i], data[i + w])
  <2> HIDE DEF L
  <2> QED
    BY <1>3 DEF WindowAt
<1> HIDE DEF L, F, g
<1> DEFINE S == {j \in Nat : first + j <= last => L[first + j] = Hash(WindowAt(data, w, first + j))}
<1>6. 0 \in S
  <2> SUFFICES ASSUME first + 0 <= last PROVE L[first + 0] = Hash(WindowAt(data, w, first + 0))
    OBVIOUS
  <2>1. first + 0 = first /\ first \in first..last
    OBVIOUS
  <2> QED
    BY <2>1, <1>5
<1>7. ASSUME NEW j \in S PROVE j + 1 \in S
  <2> SUFFICES ASSUME first + (j + 1) <= last
               PROVE  L[first + (j + 1)] = Hash(WindowAt(data, w, first + (j + 1)))
    OBVIOUS
  <2> DEFINE i == first + j
  <2>1. /\ j \in Nat /\ i \in Nat /\ i <= last /\ first + (j + 1) = i + 1
        /\ i + 1 \in first..last /\ i + 1 # first /\ (i + 1) - 1 = i
        /\ i + 1 + w <= Len(data)
    OBVIOUS
  <2>2. L[i] = Hash(WindowAt(data, w, i))
    BY <2>1
  <2> HIDE DEF i
  <2>3. L[i + 1] = Slide(L[i], Weight(w), data[i + 1], data[(i + 1) + w])
    BY <2>1, <1>5
  <2> QED
    BY <2>1, <2>2, <2>3, <1>1
<1>8. S \in SUBSET Nat
  OBVIOUS
<1>9. \A j \in Nat : j \in S
  <2> HIDE DEF S
  <2> QED
    BY <1>6, <1>7, <1>8, Induction
<1>10. ASSUME NEW i \in first..last PROVE L[i] = Hash(WindowAt(data, w, i))
  <2>1. i - first \in Nat /\ first + (i - first) = i /\ first + (i - first) <= last
    OBVIOUS
  <2>2. L[first + (i - first)] = Hash(WindowAt(data, w, first + (i - first)))
    BY <2>1, <1>9
  <2> QED
    BY <2>1, <2>2
<1> QED
  BY <1>4, <1>10

\* BatchRoll gives the checksums of all windows of its data.
LEMMA BatchIsHash ==
    ASSUME Configured, NEW data \in Seq(Bytes), NEW w \in 1..Len(data)
    PROVE  BatchRoll(data, w)
             = [i \in 0..(Len(data) - w) |-> Hash(SubSeq(data, i + 1, i + w))]
<1> DEFINE m  == Len(data) - w
           h  == halfOf(m)
           la == IF h > m THEN m ELSE h - 1
           sumsA == Lane(data, w, 0, la)
           sumsB == Lane(data, w, h, m)
<1>1. m \in Nat /\ w \in Nat \ {0} /\ m + w = Len(data) /\ Len(data) \in Nat
  OBVIOUS
<1>2. h \in Nat /\ h >= 1
  <2> HIDE DEF m
  <2>1. (m + 2) \div 2 \in Nat /\ (m + 2) \div 2 >= 1
    BY <1>1
  <2> QED
    BY <2>1 DEF halfOf
<1> HIDE DEF m, h
<1>3. la \in Int /\ la <= m
  BY <1>1, <1>2
<1>4. BatchRoll(data, w) = [i \in 0..m |-> IF i < h \/ h > m THEN sumsA[i] ELSE sumsB[i]]
  BY DEF BatchRoll, m, h
<1>5. \A i \in 0..la : sumsA[i] = Hash(WindowAt(data, w, i))
  <2>1. 0 \in Nat /\ la + w <= Len(data)
    BY <1>1, <1>3
  <2> HIDE DEF la
  <2> QED
    BY <1>1, <1>3, <2>1, LaneIsHash
<1>6. \A i \in h..m : sumsB[i] = Hash(WindowAt(data, w, i))
  <2>1. m \in Int /\ m + w <= Len(data)
    BY <1>1
  <2> QED
    BY <1>1, <1>2, <2>1, LaneIsHash
<1>7. ASSUME NEW i \in 0..m
      PROVE  (IF i < h \/ h > m THEN sumsA[i] ELSE sumsB[i]) = Hash(SubSeq(data, i + 1, i + w))
  <2>1. CASE i < h \/ h > m
    <3>1. i \in 0..la
      BY <2>1, <1>1, <1>2
    <3> HIDE DEF sumsA, sumsB
    <3> QED
      BY <2>1, <3>1, <1>5 DEF WindowAt
  <2>2. CASE ~ (i < h \/ h > m)
    <3>1. i \in h..m
      BY <2>2, <1>1, <1>2
    <3> HIDE DEF sumsA, sumsB
    <3> QED
      BY <2>2, <3>1, <1>6 DEF WindowAt
  <2> QED
    BY <2>1, <2>2
<1> HIDE DEF sumsA, sumsB
<1>8. BatchRoll(data, w) = [i \in 0..m |-> Hash(SubSeq(data, i + 1, i + w))]
  BY <1>4, <1>7
<1> QED
  BY <1>8 DEF m

\* dst[i] is the checksum of the i-th window of the data, whichever lane computed it.
THEOREM BatchIsWrite == Spec => []BatchRollAgrees
<1>1. IInv => BatchRollAgrees
  BY BatchIsHash DEF IInv, WindowInv, BatchRollAgrees
<1> QED
  BY <1>1, Invariance, PTL

-----------------------------------------------------------------------------
(* The window as its readers see it.                                       *)

\* What Taken leaves of p.
LEMMA TakenIs ==
    ASSUME NEW S, NEW p \in Seq(S), NEW m \in Nat
    PROVE  /\ Taken(p, m) \in Seq(S) /\ Len(Taken(p, m)) <= Len(p)
           /\ \A i \in 1..Len(Taken(p, m)) : Taken(p, m)[i] = p[i]
           /\ ~ (m < Len(p)) => Taken(p, m) = p
<1> DEFINE l == IF m < Len(p) THEN m ELSE Len(p)
<1>1. l \in Nat /\ l <= Len(p) /\ Len(p) \in Nat /\ (~ (m < Len(p)) => l = Len(p))
  OBVIOUS
<1>2. Taken(p, m) = SubSeq(p, 1, l)
  BY DEF Taken
<1> HIDE DEF l
<1>3. /\ SubSeq(p, 1, l) \in Seq(S) /\ Len(SubSeq(p, 1, l)) = l
      /\ \A i \in 1..l : SubSeq(p, 1, l)[i] = p[i]
  BY <1>1
<1>4. ASSUME l = Len(p) PROVE SubSeq(p, 1, l) = p
  BY <1>3, <1>4, SeqEqual
<1> QED
  BY <1>1, <1>2, <1>3, <1>4

\* A sequence that agrees with a longer one is its prefix.
LEMMA PrefixBy ==
    ASSUME NEW S, NEW s \in Seq(S), NEW t \in Seq(S), Len(s) <= Len(t),
           \A i \in 1..Len(s) : s[i] = t[i]
    PROVE  IsPrefix(s, t)
<1>1. SubSeq(s, 1, Len(s)) = s
  <2> DEFINE u == SubSeq(s, 1, Len(s))
  <2>1. u \in Seq(S) /\ Len(u) = Len(s) /\ \A i \in 1..Len(s) : u[i] = s[i]
    OBVIOUS
  <2> HIDE DEF u
  <2>2. u = s
    BY <2>1, SeqEqual
  <2> QED
    BY <2>2 DEF u
<1>2. SubSeq(t, 1, Len(s)) = s
  <2> DEFINE u == SubSeq(t, 1, Len(s))
  <2>1. u \in Seq(S) /\ Len(u) = Len(s) /\ \A i \in 1..Len(s) : u[i] = t[i]
    OBVIOUS
  <2> HIDE DEF u
  <2>2. u = s
    BY <2>1, SeqEqual
  <2> QED
    BY <2>2 DEF u
<1> QED
  BY <1>1, <1>2 DEF IsPrefix

\* What WriteWindow has written is a prefix of the window, and all of it unless it
\* reports an error.
THEOREM WrittenInOrder == Spec => []WindowWrittenInOrder
<1>1. ASSUME WindowInv, NEW k1 \in 0..Len(window), NEW k2 \in 0..Len(window)
      PROVE  LET w == WriteWindow(k1, k2)
             IN  /\ IsPrefix(w.bytes, content)
                 /\ ~ w.failed => w.bytes = content
  <2> DEFINE f      == From(oldest)
             g      == First(oldest)
             older  == Taken(f, k1)
             newer  == Taken(g, k2)
             failed == k1 < Len(f)
             bytes  == older \o (IF failed THEN <<>> ELSE newer)
             w      == WriteWindow(k1, k2)
  <2>1. w.bytes = bytes /\ (w.failed <=> failed \/ k2 < oldest)
    BY DEF WriteWindow
  <2>2. window \in Seq(Bytes) /\ oldest \in 0..Len(window) /\ Len(window) \in Nat
    <3>1. oldest \in 0..Len(window)
      BY <1>1, InOrder
    <3>2. window \in Seq(Bytes)
      BY <1>1 DEF WindowInv
    <3> QED
      BY <3>1, <3>2
  <2> SUFFICES IsPrefix(w.bytes, content) /\ (~ w.failed => w.bytes = content)
    OBVIOUS
  <2> HIDE DEF w
  <2>3. f \in Seq(Bytes) /\ g \in Seq(Bytes) /\ Len(g) = oldest /\ content = f \o g
    BY <2>2, Parts DEF From, First, content
  <2> HIDE DEF f, g
  <2>4. /\ older \in Seq(Bytes) /\ Len(older) <= Len(f)
        /\ \A i \in 1..Len(older) : older[i] = f[i]
        /\ ~ failed => older = f
    <3>1. k1 \in Nat
      BY <2>2
    <3> QED
      BY <2>3, <3>1, TakenIs
  <2>5. /\ newer \in Seq(Bytes) /\ Len(newer) <= Len(g)
        /\ \A i \in 1..Len(newer) : newer[i] = g[i]
        /\ ~ (k2 < oldest) => newer = g
    <3>1. k2 \in Nat
      BY <2>2
    <3> QED
      BY <2>3, <3>1, TakenIs
  <2> HIDE DEF older, newer
  <2>6. /\ f \o g \in Seq(Bytes) /\ Len(f \o g) = Len(f) + Len(g)
        /\ \A i \in 1..(Len(f) + Len(g)) :
             (f \o g)[i] = IF i <= Len(f) THEN f[i] ELSE g[i - Len(f)]
    BY <2>3, ConcatProperties
  <2>7. CASE failed
    <3>1. bytes = older
      BY <2>4, <2>7, ConcatEmptySeq
    <3>2. \A i \in 1..Len(older) : older[i] = (f \o g)[i]
      BY <2>3, <2>4, <2>6
    <3>3. Len(older) <= Len(f \o g)
      BY <2>3, <2>4, <2>6
    <3> DEFINE fg == f \o g
    <3> HIDE DEF fg, bytes
    <3>4. IsPrefix(older, fg)
      BY <2>4, <2>6, <3>2, <3>3, PrefixBy DEF fg
    <3> QED
      BY <2>1, <2>3, <2>7, <3>1, <3>4 DEF fg
  <2>8. CASE ~ failed
    <3>1. bytes = f \o newer
      BY <2>4, <2>8
    <3>2. /\ f \o newer \in Seq(Bytes) /\ Len(f \o newer) = Len(f) + Len(newer)
          /\ \A i \in 1..(Len(f) + Len(newer)) :
               (f \o newer)[i] = IF i <= Len(f) THEN f[i] ELSE newer[i - Len(f)]
      BY <2>3, <2>5, ConcatProperties
    <3> DEFINE fg == f \o g
               fn == f \o newer
    <3>3. ASSUME NEW i \in 1..(Len(f) + Len(newer)) PROVE fn[i] = fg[i]
      <4>1. Len(f) \in Nat /\ Len(g) \in Nat /\ Len(newer) \in Nat
        BY <2>3, <2>5
      <4>2. i \in 1..(Len(f) + Len(g))
        BY <4>1, <2>5
      <4>3. CASE i <= Len(f)
        BY <4>2, <4>3, <2>6, <3>2
      <4>4. CASE ~ (i <= Len(f))
        <5>1. i - Len(f) \in 1..Len(newer) /\ fn[i] = newer[i - Len(f)] /\ fg[i] = g[i - Len(f)]
          BY <4>1, <4>2, <4>4, <2>6, <3>2
        <5> QED
          BY <5>1, <2>5
      <4> QED
        BY <4>3, <4>4
    <3>4. Len(fn) <= Len(fg) /\ Len(fn) = Len(f) + Len(newer)
      BY <2>3, <2>5, <2>6, <3>2
    <3>5. fn \in Seq(Bytes) /\ fg \in Seq(Bytes)
      BY <2>6, <3>2
    <3>6. ~ (k2 < oldest) => fn = fg
      BY <2>5
    <3> HIDE DEF fg, fn, bytes
    <3>7. IsPrefix(fn, fg)
      BY <3>3, <3>4, <3>5, PrefixBy
    <3>8. bytes = fn /\ content = fg
      BY <3>1, <2>3 DEF fn, fg
    <3> QED
      BY <2>1, <2>8, <3>6, <3>7, <3>8
  <2> QED
    BY <2>7, <2>8
<1>2. IInv => WindowWrittenInOrder
  BY <1>1 DEF IInv, WindowWrittenInOrder
<1> QED
  BY <1>2, Invariance, PTL

\* The circular buffer implements the window of a rolling hash: every Write extends it,
\* every Roll slides it and every Reset empties it.
THEOREM Slides == Spec => ImplementsSlidingWindow
<1>1. Init => Sliding!Init
  <2> SUFFICES ASSUME Init PROVE content = <<>>
    BY DEF Sliding!Init
  <2>1. WindowInv /\ oldest = 0 /\ window = <<>>
    BY DEF Init, WindowInv
  <2> QED
    BY <2>1, InOrder
<1>2. IInv /\ [Next]_vars => [Sliding!Next]_content
  <2> SUFFICES ASSUME WindowInv, [Next]_vars PROVE Sliding!Next \/ content' = content
    BY DEF IInv
  <2>1. ASSUME NEW m \in 1..(MaxWindow - Len(window)), NEW data \in [1..m -> Bytes], Write(data)
        PROVE  Sliding!Write
    <3>1. content' = content \o data
      <4>1. m \in Nat
        BY WriteLengths
      <4> QED
        BY <2>1, <4>1, WriteStep
    <3>2. Len(content) = Len(window)
      BY InOrder
    <3> QED
      BY <3>1, <3>2 DEF Sliding!Write
  <2>2. ASSUME NEW c \in Bytes, Roll(c) PROVE Sliding!Roll
    BY <2>2, RollStep DEF Sliding!Roll
  <2>3. CASE Reset
    <3>1. content' = <<>>
      BY <2>3, ResetStep DEF Reset
    <3> QED
      BY <3>1 DEF Sliding!Next, Sliding!Reset
  <2>4. CASE UNCHANGED vars
    BY <2>4 DEF vars, content, From, First
  <2> QED
    BY <2>1, <2>2, <2>3, <2>4 DEF Next, Sliding!Next
<1> QED
  BY <1>1, <1>2, Invariance, PTL DEF Spec, ImplementsSlidingWindow, Sliding!Spec

-----------------------------------------------------------------------------
(* The sets of positions in ascending order.                               *)

\* Ascending(S) has each element of S at its rank, and nothing else.
LEMMA AscendingRanks ==
    ASSUME NEW S \in SUBSET Int, IsFiniteSet(S)
    PROVE  /\ Ascending(S) \in Seq(S)
           /\ Len(Ascending(S)) = Cardinality(S)
           /\ \A j \in 1..Cardinality(S) :
                 Ascending(S)[j] \in S /\ Rank(S, Ascending(S)[j]) = j - 1
<1>1. Cardinality(S) \in Nat
  BY Ranks
<1>0. Ascending(S) = [j \in 1..Cardinality(S) |-> CHOOSE x \in S : Rank(S, x) = j - 1]
  BY DEF Ascending, Rank
<1>2. ASSUME NEW j \in 1..Cardinality(S)
      PROVE  Ascending(S)[j] \in S /\ Rank(S, Ascending(S)[j]) = j - 1
  <2>1. Ascending(S)[j] = CHOOSE x \in S : Rank(S, x) = j - 1
    BY <1>0
  <2>2. \E x \in S : Rank(S, x) = j - 1
    BY <1>1, Ranks
  <2> QED
    BY <2>1, <2>2
<1>3. Ascending(S) = [j \in 1..Cardinality(S) |-> Ascending(S)[j]]
  BY <1>0
<1>4. Ascending(S) \in [1..Cardinality(S) -> S]
  BY <1>0, <1>2, <1>3
<1>5. Ascending(S) \in Seq(S) /\ Len(Ascending(S)) = Cardinality(S)
  BY <1>1, <1>4
<1> QED
  BY <1>2, <1>5

\* A sequence with the elements of S at their ranks is Ascending(S).
LEMMA AscendingUnique ==
    ASSUME NEW S \in SUBSET Int, IsFiniteSet(S), NEW s \in Seq(S), Len(s) = Cardinality(S),
           \A j \in 1..Len(s) : Rank(S, s[j]) = j - 1
    PROVE  s = Ascending(S)
<1>1. /\ Ascending(S) \in Seq(S) /\ Len(Ascending(S)) = Len(s)
      /\ \A j \in 1..Len(s) :
           Ascending(S)[j] \in S /\ Rank(S, Ascending(S)[j]) = j - 1
  BY AscendingRanks
<1>2. \A j \in 1..Len(s) : s[j] \in S
  BY ElementOfSeq
<1>3. \A j \in 1..Len(s) : s[j] = Ascending(S)[j]
  <2>1. \A x, y \in S : Rank(S, x) = Rank(S, y) => x = y
    BY Ranks
  <2> QED
    BY <1>1, <1>2, <2>1
<1> QED
  BY <1>1, <1>3, SeqEqual

LEMMA AscendingNone == Ascending({}) = <<>>
<1>1. IsFiniteSet({}) /\ Cardinality({}) = 0
  BY FS_EmptySet
<1>2. <<>> \in Seq({}) /\ Len(<<>>) = 0
  BY EmptySeq
<1>3. \A j \in 1..Len(<<>>) : Rank({}, <<>>[j]) = j - 1
  BY <1>2
<1>4. {} \in SUBSET Int
  OBVIOUS
<1> QED
  BY <1>1, <1>2, <1>3, <1>4, AscendingUnique

LEMMA AscendingOne == ASSUME NEW x \in Int PROVE Ascending({x}) = <<x>>
<1>1. IsFiniteSet({x}) /\ Cardinality({x}) = 1
  BY FS_Singleton
<1>2. <<x>> \in Seq({x}) /\ Len(<<x>>) = 1 /\ <<x>>[1] = x
  OBVIOUS
<1>3. Rank({x}, x) = 0
  <2>1. {y \in {x} : y < x} = {}
    OBVIOUS
  <2> QED
    BY <2>1, FS_EmptySet DEF Rank
<1>4. \A j \in 1..Len(<<x>>) : Rank({x}, <<x>>[j]) = j - 1
  BY <1>2, <1>3
<1>5. {x} \in SUBSET Int
  OBVIOUS
<1> QED
  BY <1>1, <1>2, <1>4, <1>5, AscendingUnique

\* What comes before the rest comes first.
LEMMA AscendingConcat ==
    ASSUME NEW S \in SUBSET Int, NEW T \in SUBSET Int, IsFiniteSet(S), IsFiniteSet(T),
           \A x \in S, y \in T : x < y
    PROVE  Ascending(S) \o Ascending(T) = Ascending(S \union T)
<1> DEFINE both == S \union T
           s == Ascending(S)
           t == Ascending(T)
<1>1. S \intersect T = {} /\ \A x \in both : x \in Int
  OBVIOUS
<1>2. /\ Cardinality(S) \in Nat /\ Cardinality(T) \in Nat
      /\ IsFiniteSet(both) /\ Cardinality(both) = Cardinality(S) + Cardinality(T)
  <2>1. /\ Cardinality(S) \in Nat /\ Cardinality(T) \in Nat
        /\ Cardinality(S \intersect T) = 0
    BY <1>1, FS_CardinalityType, FS_EmptySet
  <2>2. /\ IsFiniteSet(both)
        /\ Cardinality(both) = Cardinality(S) + Cardinality(T) - Cardinality(S \intersect T)
    BY FS_Union
  <2> QED
    BY <2>1, <2>2
<1>3. /\ s \in Seq(S) /\ Len(s) = Cardinality(S)
      /\ \A j \in 1..Cardinality(S) : s[j] \in S /\ Rank(S, s[j]) = j - 1
  BY AscendingRanks
<1>4. /\ t \in Seq(T) /\ Len(t) = Cardinality(T)
      /\ \A j \in 1..Cardinality(T) : t[j] \in T /\ Rank(T, t[j]) = j - 1
  BY AscendingRanks
<1> HIDE DEF s, t
<1>5. s \in Seq(both) /\ t \in Seq(both)
  BY <1>3, <1>4, SeqMonotonic
<1>6. /\ s \o t \in Seq(both) /\ Len(s \o t) = Cardinality(both)
      /\ \A j \in 1..Cardinality(both) :
           (s \o t)[j] = IF j <= Cardinality(S) THEN s[j] ELSE t[j - Cardinality(S)]
  <2> HIDE DEF both
  <2>1. /\ s \o t \in Seq(both) /\ Len(s \o t) = Len(s) + Len(t)
        /\ \A j \in 1..(Len(s) + Len(t)) :
             (s \o t)[j] = IF j <= Len(s) THEN s[j] ELSE t[j - Len(s)]
    BY <1>5, ConcatProperties
  <2> QED
    BY <2>1, <1>2, <1>3, <1>4
<1>7. ASSUME NEW x \in S PROVE Rank(both, x) = Rank(S, x)
  <2>1. \A y \in T : ~ (y < x)
    BY <1>1
  <2>2. {y \in both : y < x} = {y \in S : y < x}
    BY <2>1
  <2> QED
    BY <2>2 DEF Rank
<1>8. ASSUME NEW x \in T PROVE Rank(both, x) = Cardinality(S) + Rank(T, x)
  <2> DEFINE low == {y \in T : y < x}
  <2>1. {y \in both : y < x} = S \union low /\ S \intersect low = {}
    BY <1>1
  <2>2. IsFiniteSet(low)
    BY FS_Subset
  <2>3. Cardinality(low) \in Nat
    BY <2>2, FS_CardinalityType
  <2>4. Cardinality(S \union low) = Cardinality(S) + Cardinality(low)
    <3>1. Cardinality(S \union low)
            = Cardinality(S) + Cardinality(low) - Cardinality(S \intersect low)
      BY <2>2, FS_Union
    <3>2. Cardinality(S \intersect low) = 0
      BY <2>1, FS_EmptySet
    <3> HIDE DEF low
    <3> QED
      BY <3>1, <3>2, <2>3, <1>2
  <2> QED
    BY <2>1, <2>4 DEF Rank
<1> HIDE DEF both
<1>9. ASSUME NEW j \in 1..Cardinality(both) PROVE Rank(both, (s \o t)[j]) = j - 1
  <2>1. CASE j <= Cardinality(S)
    <3>1. j \in 1..Cardinality(S) /\ (s \o t)[j] = s[j]
      BY <2>1, <1>2, <1>6
    <3> QED
      BY <3>1, <1>3, <1>7
  <2>2. CASE ~ (j <= Cardinality(S))
    <3>1. /\ j - Cardinality(S) \in 1..Cardinality(T)
          /\ (s \o t)[j] = t[j - Cardinality(S)]
      BY <2>2, <1>2, <1>6
    <3>2. Rank(both, t[j - Cardinality(S)]) = Cardinality(S) + (j - Cardinality(S) - 1)
      BY <3>1, <1>4, <1>8
    <3> QED
      BY <3>1, <3>2, <1>2
  <2> QED
    BY <2>1, <2>2
<1>10. both \in SUBSET Int
  BY DEF both
<1>11. s \o t = Ascending(both)
  BY <1>2, <1>6, <1>9, <1>10, AscendingUnique
<1> QED
  BY <1>11 DEF s, t, both
-----------------------------------------------------------------------------
(* The scan.                                                               *)

\* The hits among the positions from lo to hi.
Found(lo, hi) == {h \in hits : lo <= h /\ h <= hi}

Inputs ==
    /\ blockSize \in Nat \ {0}
    /\ n \in Int /\ n >= -1
    /\ hits \in SUBSET (0..n)

\* Both lanes have reported all they have passed; lane A is in the first half.
Lanes ==
    /\ n \in Nat /\ half <= n
    /\ ia \in 0..limitA /\ ib \in half..n
    /\ outA = Ascending(Found(0, ia))
    /\ outB = Ascending(Found(half, ib))

\* Lane A's hits among the block's first k steps are the bits below blockSize, lane
\* B's the others.
BitsTrue ==
    /\ bits \subseteq 0..(2 * blockSize - 1)
    /\ \A i \in 0..(blockSize - 1) :
         /\ i \in bits <=> i < k /\ ia + i + 1 \in hits
         /\ blockSize + i \in bits <=> i < k /\ ib + i + 1 \in hits

AtCalled == pc = "called" => ia = 0 /\ ib = 0 /\ bits = {} /\ k = 0 /\ outA = <<>> /\ outB = <<>>

\* One lane is enough for a single window.
AtSingle ==
    pc = "single" =>
        /\ n \in Nat /\ half > n
        /\ ia \in 0..n /\ vA = ia
        /\ outA = Ascending(Found(0, ia)) /\ outB = <<>>

AtWarmB ==
    pc = "warmB" =>
        /\ n \in Nat /\ half <= n
        /\ ia = 0 /\ vA = 0 /\ k = 0 /\ bits = {}
        /\ outA = Ascending(Found(0, 0)) /\ outB = <<>>

\* A whole block is left of both lanes.
AtBlock ==
    pc = "block" =>
        /\ Lanes
        /\ k \in 0..blockSize
        /\ \E q \in 0..(fullBlocks - 1) : ia = q * blockSize
        /\ ib = half + ia
        /\ vA = ia + k /\ vB = ib + k
        /\ BitsTrue

AtLockstep == pc = "lockstep" => Lanes /\ vA = ia /\ vB = ib

ScanInv ==
    /\ Inputs
    /\ pc \in {"called", "single", "warmB", "block", "lockstep", "returned"}
    /\ AtCalled /\ AtSingle /\ AtWarmB /\ AtBlock /\ AtLockstep
    /\ AllHitsInOrder

-----------------------------------------------------------------------------
LEMMA Halves ==
    ASSUME n \in Nat
    PROVE  /\ half \in Nat /\ 1 <= half /\ 2 * half <= n + 2 /\ n + 2 <= 2 * half + 1
           /\ limitA = half - 1 /\ limitB = n - half
           /\ limit <= limitA /\ limit <= limitB /\ limit \in Int
           /\ half <= n => limit \in Nat
<1>1. half \in Nat /\ 1 <= half /\ 2 * half <= n + 2 /\ n + 2 <= 2 * half + 1
  BY DEF half
<1> QED
  BY <1>1 DEF limitA, limitB, limit

\* A block that is started ends within both lanes.
LEMMA BlockFits ==
    ASSUME Inputs, n \in Nat, half <= n, NEW q \in Nat, q < fullBlocks
    PROVE  /\ blockSize \in Nat \ {0} /\ q * blockSize \in Nat
           /\ q * blockSize + blockSize = (q + 1) * blockSize
           /\ q * blockSize + blockSize <= limit
           /\ q * blockSize + blockSize < fullBlocks * blockSize => q + 1 < fullBlocks
<1>1. blockSize \in Nat \ {0}
  BY DEF Inputs
<1>2. limit \in Nat
  BY Halves
<1> DEFINE f == fullBlocks
           l == limit
           s == blockSize
<1>3. f \in Nat /\ f * s <= l
  BY <1>1, <1>2 DEF fullBlocks
<1>4. q < f /\ l \in Nat /\ s \in Nat \ {0}
  BY <1>1, <1>2
<1> HIDE DEF f, l, s
<1>5. (q + 1) * s = q * s + s /\ q * s \in Nat
  BY <1>4
<1>6. (q + 1) * s <= f * s
  BY <1>3, <1>4
<1>7. (q + 1) * s < f * s => q + 1 < f
  BY <1>3, <1>4
<1>8. f * s \in Nat
  BY <1>3, <1>4
<1>9. q * s + s <= l
  BY <1>3, <1>4, <1>5, <1>6, <1>8
<1> QED
  BY <1>4, <1>5, <1>7, <1>9 DEF f, l, s

LEMMA FoundType ==
    ASSUME Inputs, NEW lo \in Int, NEW hi \in Int
    PROVE  Found(lo, hi) \in SUBSET Int /\ IsFiniteSet(Found(lo, hi))
<1>1. IsFiniteSet(0..n)
  BY FS_Interval DEF Inputs
<1>2. Found(lo, hi) \in SUBSET (0..n)
  BY DEF Found, Inputs
<1>3. 0..n \subseteq Int
  OBVIOUS
<1> QED
  BY <1>1, <1>2, <1>3, FS_Subset

\* What is found up to mid and then from there on is found.
LEMMA FoundMore ==
    ASSUME Inputs, NEW lo \in Int, NEW mid \in Int, NEW hi \in Int, lo <= mid + 1, mid <= hi
    PROVE  Ascending(Found(lo, mid)) \o Ascending(Found(mid + 1, hi)) = Ascending(Found(lo, hi))
<1>1. \A h \in hits : h \in Int
  BY DEF Inputs
<1>2. Found(lo, hi) = Found(lo, mid) \union Found(mid + 1, hi)
  BY <1>1 DEF Found
<1>3. \A x \in Found(lo, mid), y \in Found(mid + 1, hi) : x < y
  BY <1>1 DEF Found
<1>4. /\ Found(lo, mid) \in SUBSET Int /\ IsFiniteSet(Found(lo, mid))
      /\ Found(mid + 1, hi) \in SUBSET Int /\ IsFiniteSet(Found(mid + 1, hi))
  BY FoundType
<1> QED
  BY <1>2, <1>3, <1>4, AscendingConcat

\* Reporting the position a lane has come to.
LEMMA ReportOne ==
    ASSUME Inputs, NEW lo \in Int, NEW p \in Int, lo <= p
    PROVE  Report(Ascending(Found(lo, p - 1)), p, p) = Ascending(Found(lo, p))
<1> DEFINE out == Ascending(Found(lo, p - 1))
<1>1. \A h \in hits : h \in Int
  BY DEF Inputs
<1>2. out \o Ascending(Found(p, p)) = Ascending(Found(lo, p))
  <2>1. out \o Ascending(Found((p - 1) + 1, p)) = Ascending(Found(lo, p))
    <3> DEFINE mid == p - 1
    <3>1. mid \in Int /\ lo <= mid + 1 /\ mid <= p
      OBVIOUS
    <3> HIDE DEF mid
    <3>2. Ascending(Found(lo, mid)) \o Ascending(Found(mid + 1, p)) = Ascending(Found(lo, p))
      BY <3>1, FoundMore
    <3> QED
      BY <3>2 DEF mid
  <2>2. (p - 1) + 1 = p
    OBVIOUS
  <2> QED
    BY <2>1, <2>2
<1>3. out \in Seq(Found(lo, p - 1))
  BY FoundType, AscendingRanks
<1>4. CASE p \in hits
  <2>1. Found(p, p) = {p}
    <3>1. \A h \in hits : p <= h /\ h <= p <=> h = p
      BY <1>1
    <3> QED
      BY <3>1, <1>4 DEF Found
  <2>2. out \o <<p>> = Ascending(Found(lo, p))
    BY <1>2, <2>1, AscendingOne
  <2>3. out \o <<p>> = Append(out, p)
    <3> HIDE DEF out
    <3> QED
      BY <1>3
  <2> QED
    BY <1>4, <2>2, <2>3 DEF Report, Masked
<1>5. CASE p \notin hits
  <2>1. Found(p, p) = {}
    BY <1>1, <1>5 DEF Found
  <2>2. out \o <<>> = Ascending(Found(lo, p))
    BY <1>2, <2>1, AscendingNone
  <2>3. out \o <<>> = out
    BY <1>3, ConcatEmptySeq
  <2> QED
    BY <1>5, <2>2, <2>3 DEF Report, Masked
<1> QED
  BY <1>4, <1>5

\* The first window of a lane.
LEMMA ReportFirst ==
    ASSUME Inputs, NEW p \in Int
    PROVE  Report(<<>>, p, p) = Ascending(Found(p, p))
<1>1. \A h \in hits : h \in Int
  BY DEF Inputs
<1>2. Found(p, p - 1) = {}
  BY <1>1 DEF Found
<1>3. Report(Ascending(Found(p, p - 1)), p, p) = Ascending(Found(p, p))
  BY ReportOne
<1> QED
  BY <1>2, <1>3, AscendingNone

\* The two outputs together.
LEMMA AllFound ==
    ASSUME Inputs, n \in Nat, half <= n
    PROVE  Ascending(Found(0, half - 1)) \o Ascending(Found(half, n)) = Ascending(hits)
<1>1. half \in Nat /\ half >= 1 /\ half - 1 \in Int /\ (half - 1) + 1 = half
  BY Halves
<1>2. Found(0, n) = hits
  <2>1. \A h \in hits : h \in Int /\ 0 <= h /\ h <= n
    BY DEF Inputs
  <2> QED
    BY <2>1 DEF Found
<1>3. ASSUME NEW h \in Int, h >= 1, h <= n
      PROVE  Ascending(Found(0, h - 1)) \o Ascending(Found(h, n)) = Ascending(Found(0, n))
  <2>1. h - 1 \in Int /\ (h - 1) + 1 = h /\ 0 \in Int /\ n \in Int /\ 0 <= (h - 1) + 1 /\ h - 1 <= n
    BY <1>3
  <2>2. Ascending(Found(0, h - 1)) \o Ascending(Found((h - 1) + 1, n)) = Ascending(Found(0, n))
    BY <2>1, FoundMore
  <2> QED
    BY <2>1, <2>2
<1> QED
  BY <1>1, <1>2, <1>3
-----------------------------------------------------------------------------
(* The steps.  A step keeps the inputs, so what is found is a matter of positions. *)

LEMMA SameInputs ==
    ASSUME Inputs, UNCHANGED inputs
    PROVE  /\ Inputs' /\ half' = half /\ limitA' = limitA /\ fullBlocks' = fullBlocks
           /\ UNCHANGED <<blockSize, n, hits>>
           /\ \A lo, hi : Found(lo, hi)' = Found(lo, hi)
<1>1. UNCHANGED <<blockSize, n, hits>>
  BY DEF inputs
<1>2. half' = half
  BY <1>1 DEF half
<1>3. limitA' = limitA /\ limitB' = limitB
  BY <1>1, <1>2 DEF limitA, limitB
<1>4. fullBlocks' = fullBlocks
  BY <1>1, <1>3 DEF limit, fullBlocks
<1>5. \A lo, hi : Found(lo, hi)' = Found(lo, hi)
  BY <1>1 DEF Found
<1> QED
  BY <1>1, <1>2, <1>3, <1>4, <1>5 DEF Inputs

LEMMA TooShortStep == ASSUME ScanInv, TooShort PROVE ScanInv'
<1>1. Inputs /\ UNCHANGED inputs /\ pc = "called" /\ pc' = "returned" /\ n < 0
      /\ UNCHANGED <<outA, outB>>
  BY DEF ScanInv, TooShort
<1>2. outA = <<>> /\ outB = <<>>
  BY <1>1 DEF ScanInv, AtCalled
<1>3. hits' = {}
  BY <1>1 DEF Inputs, inputs
<1>4. outA' \o outB' = Ascending(hits')
  BY <1>1, <1>2, <1>3, AscendingNone
<1>5. AllHitsInOrder'
  BY <1>4 DEF AllHitsInOrder, Ascending
<1> QED
  BY <1>1, <1>5, SameInputs DEF ScanInv, AtCalled, AtSingle, AtWarmB, AtBlock, AtLockstep

LEMMA WarmAStep == ASSUME ScanInv, WarmA PROVE ScanInv'
<1>1. /\ Inputs /\ UNCHANGED inputs /\ pc = "called" /\ n \in Nat
      /\ pc' = (IF half > n THEN "single" ELSE "warmB")
      /\ vA' = 0 /\ outA' = Report(outA, 0, 0) /\ UNCHANGED <<ia, bits, k, outB>>
  BY DEF ScanInv, WarmA, Inputs
<1>2. outA = <<>> /\ outB = <<>> /\ ia = 0 /\ k = 0 /\ bits = {}
  BY <1>1 DEF ScanInv, AtCalled
<1>3. outA' = Ascending(Found(0, 0))
  BY <1>1, <1>2, ReportFirst
<1>4. n' = n /\ half' = half /\ half \in Nat /\ Found(0, 0)' = Found(0, 0)
  BY <1>1, SameInputs, Halves
<1>5. AtSingle'
  <2>1. 0 \in 0..n
    BY <1>1
  <2> QED
    BY <2>1, <1>1, <1>2, <1>3, <1>4 DEF AtSingle
<1>6. AtWarmB'
  BY <1>1, <1>2, <1>3, <1>4 DEF AtWarmB
<1> QED
  BY <1>1, <1>5, <1>6, SameInputs DEF ScanInv, AtCalled, AtBlock, AtLockstep, AllHitsInOrder

LEMMA SingleStep == ASSUME ScanInv, Single PROVE ScanInv'
<1>1. /\ Inputs /\ UNCHANGED inputs /\ pc = "single" /\ UNCHANGED outB
  BY DEF ScanInv, Single
<1>2. /\ n \in Nat /\ half > n /\ ia \in 0..n /\ vA = ia
      /\ outA = Ascending(Found(0, ia)) /\ outB = <<>>
  BY <1>1 DEF ScanInv, AtSingle
<1>3. CASE ia < n
  <2>1. vA' = ia + 1 /\ ia' = ia + 1 /\ outA' = Report(outA, ia + 1, ia + 1) /\ pc' = pc
    BY <1>2, <1>3 DEF Single, Rolled
  <2>2. outA' = Ascending(Found(0, ia + 1))
    <3>1. /\ ia + 1 \in Int /\ 0 <= ia + 1 /\ (ia + 1) - 1 = ia
      BY <1>2
    <3> QED
      BY <3>1, <2>1, <1>1, <1>2, ReportOne
  <2>3. AtSingle'
    BY <1>1, <1>2, <1>3, <2>1, <2>2, SameInputs DEF AtSingle
  <2> QED
    BY <1>1, <2>1, <2>3, SameInputs
       DEF ScanInv, AtCalled, AtWarmB, AtBlock, AtLockstep, AllHitsInOrder
<1>4. CASE ~ (ia < n)
  <2>1. pc' = "returned" /\ UNCHANGED outA /\ ia = n
    BY <1>2, <1>4 DEF Single
  <2>2. Found(0, n) = hits
    <3>1. \A h \in hits : h \in Int /\ 0 <= h /\ h <= n
      BY <1>1 DEF Inputs
    <3> QED
      BY <3>1 DEF Found
  <2>3. outA \in Seq(hits)
    BY <1>1, <1>2, <2>1, <2>2, FoundType, AscendingRanks
  <2>4. outA \o outB = Ascending(hits)
    BY <1>2, <2>1, <2>2, <2>3, ConcatEmptySeq
  <2>5. outA' \o outB' = Ascending(hits')
    BY <1>1, <2>1, <2>4, SameInputs
  <2>6. AllHitsInOrder'
    BY <2>5 DEF AllHitsInOrder, Ascending
  <2> QED
    BY <1>1, <2>1, <2>6, SameInputs
       DEF ScanInv, AtCalled, AtSingle, AtWarmB, AtBlock, AtLockstep
<1> QED
  BY <1>3, <1>4

LEMMA WarmBStep == ASSUME ScanInv, WarmB PROVE ScanInv'
<1>1. /\ Inputs /\ UNCHANGED inputs /\ pc = "warmB"
      /\ pc' = (IF fullBlocks > 0 THEN "block" ELSE "lockstep")
      /\ vB' = half /\ outB' = Report(outB, half, half) /\ ib' = half
      /\ UNCHANGED <<vA, ia, bits, k, outA>>
  BY DEF ScanInv, WarmB
<1>2. /\ n \in Nat /\ half <= n /\ ia = 0 /\ vA = 0 /\ k = 0 /\ bits = {}
      /\ outA = Ascending(Found(0, 0)) /\ outB = <<>>
  BY <1>1 DEF ScanInv, AtWarmB
<1>3. half \in Nat /\ 1 <= half /\ limitA = half - 1
  BY <1>2, Halves
<1>4. outB' = Ascending(Found(half, half))
  BY <1>1, <1>2, <1>3, ReportFirst
<1>5. Lanes'
  BY <1>1, <1>2, <1>3, <1>4, SameInputs DEF Lanes
<1>6. AtBlock'
  <2> SUFFICES ASSUME pc' = "block" PROVE AtBlock'
    BY DEF AtBlock
  <2>1. blockSize \in Nat \ {0} /\ blockSize' = blockSize /\ fullBlocks' = fullBlocks
    BY <1>1, SameInputs DEF Inputs
  <2>2. fullBlocks \in Int /\ fullBlocks > 0
    <3>1. limit \in Nat
      BY <1>2, Halves
    <3> QED
      BY <3>1, <2>1, <1>1 DEF fullBlocks
  <2>3. \E q \in 0..(fullBlocks' - 1) : ia' = q * blockSize'
    <3>1. 0 \in 0..(fullBlocks' - 1) /\ ia' = 0 * blockSize'
      BY <1>1, <1>2, <2>1, <2>2
    <3> QED
      BY <3>1
  <2>4. BitsTrue'
    BY <1>1, <1>2, <2>1 DEF BitsTrue
  <2>5. k' \in 0..blockSize' /\ ib' = half' + ia' /\ vA' = ia' + k' /\ vB' = ib' + k'
    BY <1>1, <1>2, <1>3, <2>1, SameInputs
  <2> QED
    BY <1>5, <2>3, <2>4, <2>5 DEF AtBlock
<1>7. AtLockstep'
  BY <1>1, <1>2, <1>5 DEF AtLockstep
<1> QED
  BY <1>1, <1>6, <1>7, SameInputs DEF ScanInv, AtCalled, AtSingle, AtWarmB, AllHitsInOrder

LEMMA BlockStepStep == ASSUME ScanInv, BlockStep PROVE ScanInv'
<1>1. /\ Inputs /\ UNCHANGED inputs /\ pc = "block" /\ k < blockSize
      /\ UNCHANGED <<ia, ib, outA, outB, pc>>
  BY DEF ScanInv, BlockStep
<1>2. /\ Lanes /\ k \in 0..blockSize /\ ib = half + ia
      /\ \E q \in 0..(fullBlocks - 1) : ia = q * blockSize
      /\ vA = ia + k /\ vB = ib + k /\ BitsTrue
  BY <1>1 DEF ScanInv, AtBlock
<1>3. /\ blockSize \in Nat \ {0} /\ blockSize' = blockSize /\ ia \in Nat /\ ib \in Nat
      /\ half \in Nat /\ k \in Nat
  BY <1>1, <1>2, SameInputs, Halves DEF Inputs, Lanes
<1>4. vA' = ia + k + 1 /\ vB' = ib + k + 1 /\ k' = k + 1
      /\ bits' = bits \union (IF ia + k + 1 \in hits THEN {k} ELSE {})
                     \union (IF ib + k + 1 \in hits THEN {k + blockSize} ELSE {})
  BY <1>2 DEF BlockStep, Rolled, Masked
<1>5. BitsTrue'
  <2>1. bits' \subseteq 0..(2 * blockSize - 1)
    <3>1. k \in 0..(2 * blockSize - 1) /\ k + blockSize \in 0..(2 * blockSize - 1)
      BY <1>1, <1>3
    <3> QED
      BY <3>1, <1>2, <1>4 DEF BitsTrue
  <2>2. ASSUME NEW i \in 0..(blockSize - 1)
        PROVE  /\ i \in bits' <=> i < k + 1 /\ ia + i + 1 \in hits
               /\ blockSize + i \in bits' <=> i < k + 1 /\ ib + i + 1 \in hits
    <3>1. /\ i \in bits <=> i < k /\ ia + i + 1 \in hits
          /\ blockSize + i \in bits <=> i < k /\ ib + i + 1 \in hits
      BY <1>2 DEF BitsTrue
    <3>2. /\ i < k + 1 <=> i < k \/ i = k
          /\ i # k + blockSize /\ blockSize + i # k
          /\ blockSize + i = k + blockSize <=> i = k
      BY <1>1, <1>3
    <3>3. CASE i = k
      <4>1. /\ ~ (i < k) /\ i < k + 1
        BY <3>3, <1>3
      <4> QED
        BY <4>1, <3>1, <3>2, <3>3, <1>4
    <3>4. CASE i # k
      BY <3>4, <3>1, <3>2, <1>4
    <3> QED
      BY <3>3, <3>4
  <2> QED
    BY <2>1, <2>2, <1>1, <1>3, <1>4, SameInputs DEF BitsTrue
<1>6. Lanes'
  BY <1>1, <1>2, SameInputs DEF Lanes
<1>7. AtBlock'
  <2>1. k' \in 0..blockSize' /\ vA' = ia' + k' /\ vB' = ib' + k'
    BY <1>1, <1>3, <1>4
  <2>2. ib' = half' + ia' /\ \E q \in 0..(fullBlocks' - 1) : ia' = q * blockSize'
    BY <1>1, <1>2, SameInputs
  <2> QED
    BY <1>5, <1>6, <2>1, <2>2 DEF AtBlock
<1> QED
  BY <1>1, <1>7, SameInputs DEF ScanInv, AtCalled, AtSingle, AtWarmB, AtLockstep, AllHitsInOrder

\* The bits of a whole block, from the lane's offset on, are what it found.
LEMMA BlockFound ==
    ASSUME Inputs, NEW base \in Nat, NEW from \in Nat, blockSize \in Nat,
           \A i \in 0..(blockSize - 1) : from + i \in bits <=> base + i + 1 \in hits
    PROVE  Positions(from, base) = Ascending(Found(base + 1, base + blockSize))
<1> DEFINE set == {i \in 0..(blockSize - 1) : from + i \in bits}
<1>1. \A h \in hits : h \in Int
  BY DEF Inputs
<1>2. {base + i + 1 : i \in set} = Found(base + 1, base + blockSize)
  <2>1. ASSUME NEW i \in set PROVE base + i + 1 \in Found(base + 1, base + blockSize)
    <3>1. i \in 0..(blockSize - 1) /\ base + i + 1 \in hits
      OBVIOUS
    <3>2. base + 1 <= base + i + 1 /\ base + i + 1 <= base + blockSize
      BY <3>1
    <3> QED
      BY <3>1, <3>2 DEF Found
  <2>2. ASSUME NEW h \in Found(base + 1, base + blockSize)
        PROVE  \E i \in set : h = base + i + 1
    <3>1. h \in hits /\ h \in Int /\ base + 1 <= h /\ h <= base + blockSize
      BY <1>1 DEF Found
    <3> DEFINE j == h - base - 1
    <3>2. j \in 0..(blockSize - 1) /\ base + j + 1 = h
      BY <3>1
    <3>3. from + j \in bits
      BY <3>1, <3>2
    <3> HIDE DEF j
    <3>4. j \in set
      BY <3>2, <3>3
    <3> QED
      BY <3>2, <3>4
  <2> QED
    BY <2>1, <2>2
<1> QED
  BY <1>2 DEF Positions

LEMMA ExtractStep == ASSUME ScanInv, Extract PROVE ScanInv'
<1>1. /\ Inputs /\ UNCHANGED inputs /\ pc = "block" /\ k = blockSize
      /\ outA' = outA \o Positions(0, ia) /\ outB' = outB \o Positions(blockSize, ib)
      /\ bits' = {} /\ k' = 0
      /\ ia' = ia + blockSize /\ ib' = ib + blockSize
      /\ pc' = (IF ia' < fullBlocks * blockSize THEN "block" ELSE "lockstep")
      /\ UNCHANGED <<vA, vB>>
  BY DEF ScanInv, Extract
<1>2. /\ Lanes /\ k \in 0..blockSize /\ ib = half + ia
      /\ \E q \in 0..(fullBlocks - 1) : ia = q * blockSize
      /\ vA = ia + k /\ vB = ib + k /\ BitsTrue
  BY <1>1 DEF ScanInv, AtBlock
<1>3. n \in Nat /\ half <= n
  BY <1>2 DEF Lanes
<1>4. PICK q \in 0..(fullBlocks - 1) : ia = q * blockSize
  BY <1>2
<1>5. /\ blockSize \in Nat \ {0} /\ blockSize' = blockSize /\ ia \in Nat /\ ib \in Nat
      /\ half \in Nat /\ half' = half /\ fullBlocks' = fullBlocks
      /\ limit \in Nat /\ limit <= half - 1 /\ limit <= n - half /\ limitA = half - 1
  <2>1. /\ half \in Nat /\ limitA = half - 1 /\ limitB = n - half
        /\ limit \in Nat /\ limit <= limitA /\ limit <= limitB
    BY <1>3, Halves
  <2>2. blockSize \in Nat \ {0} /\ ia \in Nat /\ ib \in Nat
    <3>1. blockSize \in Nat \ {0}
      BY <1>1 DEF Inputs
    <3>2. ia \in 0..limitA /\ ib \in half..n /\ half \in Nat
      BY <1>2, <2>1 DEF Lanes
    <3>3. ia \in Nat
      BY <3>2
    <3>4. ib \in Nat
      <4> HIDE DEF half
      <4> QED
        BY <3>2, <1>3
    <3> QED
      BY <3>1, <3>3, <3>4
  <2>3. blockSize' = blockSize /\ half' = half /\ fullBlocks' = fullBlocks
    BY <1>1, SameInputs
  <2> QED
    BY <2>1, <2>2, <2>3
<1>6. fullBlocks \in Nat
  BY <1>5 DEF fullBlocks
<1>7. /\ ia + blockSize <= limit
      /\ ia + blockSize = (q + 1) * blockSize
      /\ ia + blockSize < fullBlocks * blockSize => q + 1 < fullBlocks
      /\ q \in Nat /\ q < fullBlocks
  <2>1. q \in Nat /\ q < fullBlocks
    BY <1>4, <1>6
  <2> QED
    BY <2>1, <1>1, <1>3, <1>4, BlockFits
<1>8. outA' = Ascending(Found(0, ia + blockSize)) /\ outB' = Ascending(Found(half, ib + blockSize))
  <2>1. Positions(0, ia) = Ascending(Found(ia + 1, ia + blockSize))
    <3>1. \A i \in 0..(blockSize - 1) : 0 + i \in bits <=> ia + i + 1 \in hits
      <4>1. ASSUME NEW i \in 0..(blockSize - 1)
            PROVE  0 + i \in bits <=> ia + i + 1 \in hits
        <5>1. i < k /\ 0 + i = i
          BY <1>1, <1>5
        <5> QED
          BY <5>1, <1>2 DEF BitsTrue
      <4> QED
        BY <4>1
    <3> QED
      BY <3>1, <1>1, <1>5, BlockFound
  <2>2. Positions(blockSize, ib) = Ascending(Found(ib + 1, ib + blockSize))
    <3>1. \A i \in 0..(blockSize - 1) : blockSize + i \in bits <=> ib + i + 1 \in hits
      <4>1. ASSUME NEW i \in 0..(blockSize - 1)
            PROVE  blockSize + i \in bits <=> ib + i + 1 \in hits
        <5>1. i < k
          BY <1>1, <1>5
        <5> QED
          BY <5>1, <1>2 DEF BitsTrue
      <4> QED
        BY <4>1
    <3> QED
      BY <3>1, <1>1, <1>5, BlockFound
  <2>3. /\ 0 <= ia + 1 /\ ia <= ia + blockSize /\ ia + blockSize \in Int /\ ia \in Int
        /\ half <= ib + 1 /\ ib <= ib + blockSize /\ ib + blockSize \in Int /\ ib \in Int
        /\ half \in Int /\ 0 \in Int /\ Inputs
    <3>1. half <= ib
      BY <1>2, <1>5
    <3> HIDE DEF half
    <3>2. Inputs
      BY <1>1
    <3> QED
      BY <3>1, <3>2, <1>5
  <2>4. Ascending(Found(0, ia)) \o Ascending(Found(ia + 1, ia + blockSize))
          = Ascending(Found(0, ia + blockSize))
    BY <2>3, FoundMore
  <2>5. Ascending(Found(half, ib)) \o Ascending(Found(ib + 1, ib + blockSize))
          = Ascending(Found(half, ib + blockSize))
    BY <2>3, FoundMore
  <2> QED
    BY <2>1, <2>2, <2>4, <2>5, <1>1, <1>2 DEF Lanes
<1>9. Lanes'
  <2>1. ia' \in 0..limitA /\ ib' \in half..n
    BY <1>1, <1>2, <1>3, <1>5, <1>7
  <2>2. limitA' = limitA /\ n' = n /\ \A lo, hi : Found(lo, hi)' = Found(lo, hi)
    BY <1>1, SameInputs
  <2> QED
    BY <2>1, <2>2, <1>1, <1>3, <1>5, <1>8 DEF Lanes
<1>10. ib' = half' + ia' /\ vA' = ia' /\ vB' = ib' /\ ia' \in Nat /\ ib' \in Nat
  BY <1>1, <1>2, <1>5
<1>11. AtBlock'
  <2> SUFFICES ASSUME pc' = "block" PROVE AtBlock'
    BY DEF AtBlock
  <2>1. \E r \in 0..(fullBlocks' - 1) : ia' = r * blockSize'
    <3>1. q + 1 \in 0..(fullBlocks - 1)
      BY <1>1, <1>6, <1>7
    <3> QED
      BY <3>1, <1>1, <1>5, <1>7
  <2>2. BitsTrue'
    BY <1>1, <1>5 DEF BitsTrue
  <2>3. k' \in 0..blockSize' /\ vA' = ia' + k' /\ vB' = ib' + k'
    BY <1>1, <1>5, <1>10
  <2> QED
    BY <1>9, <1>10, <2>1, <2>2, <2>3 DEF AtBlock
<1>12. AtLockstep'
  BY <1>9, <1>10 DEF AtLockstep
<1> QED
  BY <1>1, <1>11, <1>12, SameInputs DEF ScanInv, AtCalled, AtSingle, AtWarmB, AllHitsInOrder

\* A lane that goes on by one position.
LEMMA OneMore ==
    ASSUME Inputs, NEW lo \in Int, NEW i \in Int, lo <= i
    PROVE  Report(Ascending(Found(lo, i)), i + 1, i + 1) = Ascending(Found(lo, i + 1))
<1>1. i + 1 \in Int /\ lo <= i + 1 /\ (i + 1) - 1 = i
  OBVIOUS
<1>2. Report(Ascending(Found(lo, (i + 1) - 1)), i + 1, i + 1) = Ascending(Found(lo, i + 1))
  BY <1>1, ReportOne
<1> QED
  BY <1>1, <1>2

LEMMA TailStep == ASSUME ScanInv, Lockstep \/ Finish PROVE ScanInv'
<1>1. Inputs /\ UNCHANGED inputs /\ pc = "lockstep" /\ pc' = pc
  BY DEF ScanInv, Lockstep, Finish
<1>2. Lanes /\ vA = ia /\ vB = ib /\ n \in Nat /\ half <= n
  BY <1>1 DEF ScanInv, AtLockstep, Lanes
<1>3. /\ half \in Nat /\ limitA = half - 1 /\ ia \in 0..limitA /\ ib \in half..n
      /\ outA = Ascending(Found(0, ia)) /\ outB = Ascending(Found(half, ib))
  BY <1>2, Halves DEF Lanes
<1>4. /\ Report(outA, ia + 1, ia + 1) = Ascending(Found(0, ia + 1))
      /\ Report(outB, ib + 1, ib + 1) = Ascending(Found(half, ib + 1))
  BY <1>1, <1>3, OneMore
<1>5. /\ \/ ia < limitA /\ vA' = ia + 1 /\ ia' = ia + 1 /\ outA' = Ascending(Found(0, ia + 1))
         \/ vA' = vA /\ ia' = ia /\ outA' = outA
      /\ \/ ib < n /\ vB' = ib + 1 /\ ib' = ib + 1 /\ outB' = Ascending(Found(half, ib + 1))
         \/ vB' = vB /\ ib' = ib /\ outB' = outB
  <2>1. CASE Lockstep
    BY <2>1, <1>2, <1>4 DEF Lockstep, Rolled
  <2>2. CASE Finish /\ ia < limitA
    BY <2>2, <1>2, <1>4 DEF Finish, Rolled
  <2>3. CASE Finish /\ ~ (ia < limitA)
    BY <2>3, <1>2, <1>4 DEF Finish, Rolled
  <2> QED
    BY <2>1, <2>2, <2>3
<1>6. /\ ia' \in 0..limitA /\ vA' = ia' /\ outA' = Ascending(Found(0, ia'))
      /\ ib' \in half..n /\ vB' = ib' /\ outB' = Ascending(Found(half, ib'))
  BY <1>2, <1>3, <1>5
<1>7. /\ limitA' = limitA /\ n' = n /\ half' = half
      /\ \A lo, hi : Found(lo, hi)' = Found(lo, hi)
  BY <1>1, SameInputs
<1>8. Lanes'
  BY <1>2, <1>6, <1>7 DEF Lanes
<1>9. AtLockstep'
  BY <1>6, <1>8 DEF AtLockstep
<1> QED
  BY <1>1, <1>9, SameInputs DEF ScanInv, AtCalled, AtSingle, AtWarmB, AtBlock, AllHitsInOrder

LEMMA ReturnStep == ASSUME ScanInv, Return PROVE ScanInv'
<1>1. /\ Inputs /\ UNCHANGED inputs /\ pc = "lockstep" /\ pc' = "returned"
      /\ ia >= limitA /\ ib >= n /\ UNCHANGED <<outA, outB>>
  BY DEF ScanInv, Return
<1>2. Lanes /\ n \in Nat /\ half <= n
  BY <1>1 DEF ScanInv, AtLockstep, Lanes
<1>3. half \in Nat /\ limitA = half - 1
  BY <1>2, Halves
<1>4. ia = half - 1 /\ ib = n
  BY <1>1, <1>2, <1>3 DEF Lanes
<1>5. outA \o outB = Ascending(hits)
  BY <1>1, <1>2, <1>4, AllFound DEF Lanes
<1>6. outA' \o outB' = Ascending(hits')
  BY <1>1, <1>5, SameInputs
<1>7. AllHitsInOrder'
  BY <1>6 DEF AllHitsInOrder, Ascending
<1> QED
  BY <1>1, <1>7, SameInputs DEF ScanInv, AtCalled, AtSingle, AtWarmB, AtBlock, AtLockstep

\* ScanInv holds in every reachable state.
THEOREM ScanInvariance == ScanSpec => []ScanInv
<1>1. ScanInit => ScanInv
  <2> SUFFICES ASSUME ScanInit PROVE ScanInv
    OBVIOUS
  <2>1. Inputs
    BY LanesAssumption DEF ScanInit, Inputs
  <2> QED
    BY <2>1
       DEF ScanInit, ScanInv, AtCalled, AtSingle, AtWarmB, AtBlock, AtLockstep, AllHitsInOrder
<1>2. ScanInv /\ [ScanNext]_scanVars => ScanInv'
  <2> SUFFICES ASSUME ScanInv, [ScanNext]_scanVars PROVE ScanInv'
    OBVIOUS
  <2>1. CASE UNCHANGED scanVars
    <3>1. UNCHANGED inputs /\ UNCHANGED <<blockSize, n, hits, vA, vB, ia, ib, bits, k, outA, outB, pc>>
      BY <2>1 DEF scanVars, inputs
    <3>2. Inputs
      BY DEF ScanInv
    <3>3. Lanes' <=> Lanes
      BY <3>1, <3>2, SameInputs DEF Lanes
    <3>4. AtCalled' /\ AtSingle' /\ AtWarmB' /\ AtLockstep'
      BY <3>1, <3>2, <3>3, SameInputs DEF ScanInv, AtCalled, AtSingle, AtWarmB, AtLockstep
    <3>5. AtBlock'
      BY <3>1, <3>2, <3>3, SameInputs DEF ScanInv, AtBlock, BitsTrue
    <3>6. AllHitsInOrder'
      BY <3>1 DEF ScanInv, AllHitsInOrder, Ascending
    <3> QED
      BY <3>1, <3>2, <3>4, <3>5, <3>6, SameInputs DEF ScanInv
  <2> QED
    BY <2>1, TooShortStep, WarmAStep, SingleStep, WarmBStep, BlockStepStep, ExtractStep,
       TailStep, ReturnStep DEF ScanNext
<1> QED
  BY <1>1, <1>2, PTL DEF ScanSpec

\* All hits, in order and once.
THEOREM ScanComplete == ScanSpec => []AllHitsInOrder
<1>1. ScanInv => AllHitsInOrder
  BY DEF ScanInv
<1> QED
  BY <1>1, ScanInvariance, PTL

-----------------------------------------------------------------------------
(* The cache of rabinkarp64's tables.                                      *)

Held == {"looking", "looked", "storing", "stored"}

CacheTypes ==
    /\ lock \in Goroutines \union {Nil}
    /\ want \in [Goroutines -> index]
    /\ tables \in [Goroutines -> index \union {Nil}]
    /\ at \in [Goroutines -> {"idle", "lookup", "building", "store"} \union Held]

\* The map is cached tables under their own index.
EntriesTrue ==
    /\ DOMAIN entries \subseteq index
    /\ entries = [i \in DOMAIN entries |-> i]

\* The lock is held from either Lock to the Unlock that follows, by that goroutine.
LockHeld == \A g \in Goroutines : at[g] \in Held <=> lock = g

\* What a goroutine has found or built is what it was asked for, until the next call.
TableTrue ==
    \A g \in Goroutines :
        /\ at[g] \in {"idle", "looked"} => tables[g] \in {Nil, want[g]}
        /\ at[g] \in {"store", "storing", "stored"} => tables[g] = want[g]

CacheInv == CacheTypes /\ EntriesTrue /\ LockHeld /\ TableTrue

\* CacheInv holds in every reachable state.
THEOREM CacheInvariance == CacheSpec => []CacheInv
<1>1. CacheInit => CacheInv
  <2> SUFFICES ASSUME CacheInit PROVE CacheInv
    OBVIOUS
  <2>1. CacheTypes
    BY DEF CacheInit, CacheTypes
  <2>2. EntriesTrue
    BY DEF CacheInit, EntriesTrue
  <2>3. LockHeld
    BY CacheAssumption DEF CacheInit, LockHeld, Held
  <2>4. TableTrue
    BY DEF CacheInit, TableTrue
  <2> QED
    BY <2>1, <2>2, <2>3, <2>4 DEF CacheInv
<1>2. CacheInv /\ [CacheNext]_cacheVars => CacheInv'
  <2> SUFFICES ASSUME CacheInv, [CacheNext]_cacheVars PROVE CacheInv'
    OBVIOUS
  <2> USE DEF CacheInv
  <2>1. ASSUME NEW g \in Goroutines, Call(g) PROVE CacheInv'
    <3>1. CacheTypes'
      BY <2>1 DEF CacheTypes, Call, Held
    <3>2. EntriesTrue'
      BY <2>1 DEF EntriesTrue, Call
    <3>3. LockHeld'
      BY <2>1 DEF CacheTypes, LockHeld, Call, Held
    <3>4. TableTrue'
      BY <2>1 DEF CacheTypes, TableTrue, Call
    <3> QED
      BY <3>1, <3>2, <3>3, <3>4
  <2>2. ASSUME NEW g \in Goroutines, Lock(g) PROVE CacheInv'
    <3>1. CacheTypes'
      BY <2>2 DEF CacheTypes, Lock, Held
    <3>2. EntriesTrue'
      BY <2>2 DEF EntriesTrue, Lock
    <3>3. LockHeld'
      BY <2>2, CacheAssumption DEF CacheTypes, LockHeld, Lock, Held
    <3>4. TableTrue'
      BY <2>2 DEF CacheTypes, TableTrue, Lock
    <3> QED
      BY <3>1, <3>2, <3>3, <3>4
  <2>3. ASSUME NEW g \in Goroutines, Look(g) PROVE CacheInv'
    <3>1. /\ at' = [at EXCEPT ![g] = "looked"]
          /\ tables' = [tables EXCEPT ![g] = IF want[g] \in DOMAIN entries
                                           THEN entries[want[g]] ELSE Nil]
          /\ at[g] = "looking" /\ UNCHANGED <<entries, lock, want>>
      BY <2>3 DEF Look, idx
    <3>2. (IF want[g] \in DOMAIN entries THEN entries[want[g]] ELSE Nil) \in {Nil, want[g]}
      BY DEF EntriesTrue
    <3>3. CacheTypes'
      BY <3>1, <3>2 DEF CacheTypes, Held
    <3>4. EntriesTrue'
      BY <3>1 DEF EntriesTrue
    <3>5. LockHeld'
      BY <3>1 DEF CacheTypes, LockHeld, Held
    <3>6. TableTrue'
      BY <3>1, <3>2 DEF CacheTypes, TableTrue
    <3> QED
      BY <3>3, <3>4, <3>5, <3>6
  <2>4. ASSUME NEW g \in Goroutines, Unlock(g) PROVE CacheInv'
    <3>1. CacheTypes'
      BY <2>4 DEF CacheTypes, Unlock, Held
    <3>2. EntriesTrue'
      BY <2>4 DEF EntriesTrue, Unlock
    <3>3. LockHeld'
      BY <2>4, CacheAssumption DEF CacheTypes, LockHeld, Unlock, Held
    <3>4. TableTrue'
      BY <2>4 DEF CacheTypes, TableTrue, Unlock
    <3> QED
      BY <3>1, <3>2, <3>3, <3>4
  <2>5. ASSUME NEW g \in Goroutines, Build(g) PROVE CacheInv'
    <3>1. CacheTypes'
      BY <2>5 DEF CacheTypes, Build, Held
    <3>2. EntriesTrue'
      BY <2>5 DEF EntriesTrue, Build
    <3>3. LockHeld'
      BY <2>5 DEF CacheTypes, LockHeld, Build, Held
    <3>4. TableTrue'
      BY <2>5 DEF CacheTypes, TableTrue, Build
    <3> QED
      BY <3>1, <3>2, <3>3, <3>4
  <2>6. ASSUME NEW g \in Goroutines, Store(g) PROVE CacheInv'
    <3>1. /\ at[g] = "storing" /\ at' = [at EXCEPT ![g] = "stored"]
          /\ UNCHANGED <<lock, want, tables>>
          /\ entries' = [i \in DOMAIN entries \union {want[g]} |->
                           IF i = want[g] THEN tables[g] ELSE entries[i]]
      BY <2>6 DEF Store, idx
    <3>2. tables[g] = want[g] /\ want[g] \in index
      BY <3>1 DEF CacheTypes, TableTrue
    <3>3. CacheTypes'
      BY <3>1 DEF CacheTypes, Held
    <3>4. EntriesTrue'
      BY <3>1, <3>2 DEF EntriesTrue
    <3>5. LockHeld'
      BY <3>1 DEF CacheTypes, LockHeld, Held
    <3>6. TableTrue'
      BY <3>1 DEF CacheTypes, TableTrue
    <3> QED
      BY <3>3, <3>4, <3>5, <3>6
  <2>7. CASE UNCHANGED cacheVars
    BY <2>7 DEF cacheVars, CacheTypes, EntriesTrue, LockHeld, TableTrue
  <2> QED
    BY <2>1, <2>2, <2>3, <2>4, <2>5, <2>6, <2>7 DEF CacheNext, InCall
<1> QED
  BY <1>1, <1>2, PTL DEF CacheSpec

\* Although a call takes the lock twice, no goroutine accesses the map while
\* another one writes it.
THEOREM MapSafe == CacheSpec => []MapGuarded
<1>1. CacheInv => MapGuarded
  BY DEF CacheInv, LockHeld, Held, MapGuarded
<1> QED
  BY <1>1, CacheInvariance, PTL

\* Whoever built it and however often it was built, a table is for the polynomial
\* and the window it was asked for.
THEOREM TablesOwn == CacheSpec => []OwnTables
<1>1. CacheInv => OwnTables
  BY DEF CacheInv, TableTrue, OwnTables
<1> QED
  BY <1>1, CacheInvariance, PTL
=============================================================================
