---------------------------- MODULE MCRabinKarp ----------------------------
(***************************************************************************)
(* RabinKarp with every polynomial of degree ByteWidth or more (the ones   *)
(* of DerivePolynomial have degree 53), irreducible or not, and the        *)
(* operators of Polynomials on those polynomials, against their            *)
(* definitions in mathematics.  What is said of a polynomial does not      *)
(* depend on the window and is evaluated once for each, in the state with  *)
(* an empty window.                                                        *)
(***************************************************************************)
EXTENDS RabinKarp

High == {p \in Pol : Deg(p) >= ByteWidth}

\* A byte is a remainder, and polShift does not wrap.
ASSUME HighModuli == Moduli \subseteq High

\* "degree 53 (largest prime number below 64-8)", polynomials.go, line 174.
ASSUME DerivedDegreeIsPrime ==
    DerivedDegree > 1 /\ \A n \in 2..(DerivedDegree - 1) : DerivedDegree % n # 0

\* The product, without a width.
Product(p, q) ==
    {j \in 0..(2 * Width) : Cardinality({i \in q : j - i \in p}) % 2 = 1}

Divides(d, p) == \E q \in Pol : Product(d, q) = p

NoFactors(p) == ~ \E d \in Pol : Deg(d) > 0 /\ Deg(d) < Deg(p) /\ Divides(d, p)

\* The window as one polynomial, of any degree, and the multiples of pol.
Joined == UNION {{ByteWidth * (Len(window) - i) + j : j \in window[i]} : i \in 1..Len(window)}

Multiples ==
    {{j \in 0..(2 * ByteWidth * MaxWindow) : Cardinality({i \in q : j - i \in pol}) % 2 = 1} :
        q \in SUBSET (0..(ByteWidth * MaxWindow))}

\* The checksum is the one that writing the window gives (Roll agrees with Write), and
\* the remainder of the window's polynomial modulo pol, whichever writes and rolls led
\* to it, when the degree of pol leaves room for a byte above it ("degree 53 (largest
\* prime number below 64-8)", polynomials.go, line 174).
ValueIsResidue ==
    /\ RollAgreesWithWrite
    /\ Deg(pol) <= Width - ByteWidth =>
           Deg(value) < Deg(pol) /\ Add(Joined, value) \in Multiples

\* Mul panics exactly when the product does not fit (mulOverflows divides the
\* truncated product back, which is the only trace of the overflow).
OverflowIsNoticed ==
    window = <<>> =>
        \A x \in Pol :
            Mul(x, pol) = IF Product(x, pol) \subseteq 0..(Width - 1)
                          THEN Product(x, pol) ELSE Overflow

\* The irreducible polynomials of the derived degree.
Primes == {p \in Pol : Deg(p) = DerivedDegree /\ NoFactors(p)}

\* A polynomial passes Ben-Or's test iff it is no product of two of lower degree, for
\* which DivMod, GCD, MulMod and qp all have to be right and no product of theirs may
\* overflow.  So, whatever is drawn, DerivePolynomial gives an irreducible polynomial of
\* its degree, or reports that no draw would do; each of the (2^d - 2) / d of a prime
\* degree d (polynomials.go, lines 176-178) can come out.
DerivedIsIrreducible ==
    window = <<>> =>
        /\ Irreducible(pol) <=> NoFactors(pol)
        /\ Cardinality(Primes) * DerivedDegree = 2 ^ DerivedDegree - 2
        /\ \A draw \in Pol :
            LET derived == DerivePolynomial(<<draw, pol>>)
            IN  /\ derived \in Primes \/
                     (derived = Zero /\ Primes \intersect {Candidate(draw), Candidate(pol)} = {})
                /\ draw \in Primes => derived = draw
=============================================================================
