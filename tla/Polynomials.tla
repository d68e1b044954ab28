---------------------------- MODULE Polynomials ----------------------------
(***************************************************************************)
(* Arithmetic on polynomials over GF(2), polynomials.go.  A Pol is an      *)
(* unsigned integer of Width bits, taken for the set of its set bits: the  *)
(* powers of X with coefficient 1.  What is shifted past bit Width - 1 is  *)
(* lost.  The loops are recursive functions of what they change.           *)
(***************************************************************************)
EXTENDS Integers, FiniteSets

CONSTANTS Width,           \* bits of a Pol, 64 in the code
          DerivedDegree    \* of DerivePolynomial's result, 53 in the code

ASSUME WidthAssumption ==
    /\ Width \in Nat /\ Width >= 2
    /\ DerivedDegree \in 1..(Width - 1)

Pol == SUBSET (0..(Width - 1))

Zero == {}
One  == {0}
X    == {1}

Overflow == {-1}   \* no Pol: Mul panics

Add(x, y) == (x \ y) \union (y \ x)

Deg(x) == IF x = Zero THEN -1 ELSE CHOOSE i \in x : \A j \in x : j <= i

Shl(x, k) == {i + k : i \in x} \intersect (0..(Width - 1))

\* mul: the sum of x << i over the set bits i of y.
mul(x, y) ==
    {j \in 0..(Width - 1) : Cardinality({i \in y : j - i \in x}) % 2 = 1}

\* DivMod(x, d), for d # 0: d is subtracted, shifted under x's highest bit, until
\* the degree is less than d's.
DivMod(x, d) ==
    LET divided[z \in Pol] ==
            LET diff == Deg(z) - Deg(d)
            IN  IF diff < 0 THEN [q |-> Zero, r |-> z]
                ELSE LET rest == divided[Add(z, Shl(d, diff))]
                     IN  [q |-> rest.q \union {diff}, r |-> rest.r]
    IN  divided[x]

Div(x, d) == DivMod(x, d).q
Mod(x, d) == DivMod(x, d).r

\* Mutant: an overflow is seen only when the product is less than a factor.
mulOverflowsByDegree(a, b) == Deg(mul(a, b)) < Deg(a)

\* mulOverflows: the truncated product, divided by b, does not give a back.
mulOverflows(a, b) ==
    /\ a \notin {Zero, One} /\ b \notin {Zero, One}
    /\ Div(mul(a, b), b) # a

Mul(x, y) == IF mulOverflows(x, y) THEN Overflow ELSE mul(x, y)

\* GCD(x, f): Euclid's algorithm, on the polynomial of the higher degree first.
GCD(x, f) ==
    LET gcd[p \in Pol \X Pol] ==
            IF p[2] = Zero THEN p[1]
            ELSE IF p[1] = Zero THEN p[2]
            ELSE IF Deg(p[1]) < Deg(p[2]) THEN gcd[<<p[1], Mod(p[2], p[1])>>]
            ELSE gcd[<<p[2], Mod(p[1], p[2])>>]
    IN  gcd[<<x, f>>]

\* a multiplied j times by X and reduced, as MulMod's inner loop does.
TimesX(a, j, g) ==
    LET times[i \in 0..j] ==
            IF i = 0 THEN a
            ELSE IF times[i - 1] = Overflow THEN Overflow
            ELSE LET p == Mul(times[i - 1], X)
                 IN  IF p = Overflow THEN Overflow ELSE Mod(p, g)
    IN  times[j]

\* MulMod(x, f, g): the terms of f one by one, lowest first.
MulMod(x, f, g) ==
    LET upTo[i \in -1..Deg(f)] ==
            IF i = -1 THEN Zero
            ELSE IF i \notin f THEN upTo[i - 1]
            ELSE IF upTo[i - 1] = Overflow \/ TimesX(x, i, g) = Overflow THEN Overflow
            ELSE Mod(Add(upTo[i - 1], TimesX(x, i, g)), g)
    IN  IF x = Zero \/ f = Zero THEN Zero ELSE upTo[Deg(f)]

\* qp(p, g): X squared p times modulo g, minus X.
qp(p, g) ==
    LET squared[i \in 0..p] == IF i = 0 THEN X ELSE MulMod(squared[i - 1], squared[i - 1], g)
    IN  Mod(Add(squared[p], X), g)

\* Mutant: the factors of degree Deg(x) / 2 are not looked for.
IrreducibleShort(x) == \A i \in 1..(Deg(x) \div 2 - 1) : GCD(x, qp(i, x)) = One

\* Irreducible: Ben-Or's test.
Irreducible(x) == \A i \in 1..(Deg(x) \div 2) : GCD(x, qp(i, x)) = One

\* A random word cut to the degree, with its highest and lowest bit set.
Candidate(f) == (f \intersect 0..DerivedDegree) \union {0, DerivedDegree}

\* DerivePolynomial, from the words that it may draw before its source fails or it
\* has used up randPolMaxTries of them: the first irreducible candidate, or Zero
\* and an error.
DerivePolynomial(draws) ==
    LET good == {i \in DOMAIN draws : Irreducible(Candidate(draws[i]))}
    IN  IF good = {} THEN Zero
        ELSE Candidate(draws[CHOOSE i \in good : \A j \in good : i <= j])
=============================================================================
