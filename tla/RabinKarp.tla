----------------------------- MODULE RabinKarp -----------------------------
(***************************************************************************)
(* The checksum of rabinkarp64.go: the window, taken for a polynomial of   *)
(* ByteWidth bits per byte, modulo pol.  Write computes it; Roll slides it *)
(* with two tables: `out' for the byte that leaves, from its weight in a   *)
(* window of that length, and `mod' for the reduction of the ByteWidth     *)
(* bits that are shifted past the degree of pol.                           *)
(*                                                                         *)
(* A byte is the polynomial of its bits.  The circular buffer is that of   *)
(* RollingHash; here the window is a sequence.                             *)
(***************************************************************************)
EXTENDS Polynomials, Sequences

CONSTANTS ByteWidth,     \* bits of a byte, 8 in the code
          MaxWindow,     \* bound of the model
          Moduli         \* what NewFromPol is called with

ASSUME RabinKarpAssumption ==
    /\ ByteWidth \in Nat \ {0}
    /\ MaxWindow \in Nat \ {0}
    /\ Moduli \subseteq Pol \ {Zero}

VARIABLES pol,      \* the modulus
          window,   \* the bytes, oldest first
          tabled,   \* the length of the window d.tables was built for
          value     \* the checksum

vars == <<pol, window, tabled, value>>

Byte == SUBSET (0..(ByteWidth - 1))

Init ==
    /\ pol \in Moduli
    /\ window = <<>>
    /\ tabled = 0
    /\ value = Zero

\* One step of Horner's rule, as Write and buildTables take it.
Horner(h, b) == Mod(Shl(h, ByteWidth) \union b, pol)

Hash(w) ==
    LET h[i \in 0..Len(w)] == IF i = 0 THEN Zero ELSE Horner(h[i - 1], w[i])
    IN  h[Len(w)]

\* Mutant: the leaving byte is given the weight of a window longer by one.
outOfLonger(size, b) == Hash(<<b>> \o [i \in 1..size |-> Zero])

\* out[b]: the checksum of b followed by size - 1 zero bytes.
out(size, b) == Hash(<<b>> \o [i \in 1..(size - 1) |-> Zero])

\* mod[b]: b(x) * x^k reduced, and the bits it cancels.
mod(b) == Mod(Shl(b, Deg(pol)), pol) \union Shl(b, Deg(pol))

\* Write(data): the longer window is hashed, and its tables are fetched.
Write(data) ==
    /\ data # <<>>
    /\ window' = window \o data
    /\ value' = Hash(window')
    /\ tabled' = Len(window')
    /\ UNCHANGED pol

\* value >> (polShift & 63), cut to a byte; polShift is Deg(pol) - 8 in uint
\* arithmetic, so that it is a large shift when the degree is less than 8.
polShift == (Deg(pol) - ByteWidth) % Width

TopByte(v) == {i - polShift : i \in v} \intersect (0..(ByteWidth - 1))

\* The byte that left a window of `size' bytes is taken out, the next one shifted in.
Slide(v, size, leave, enter) ==
    LET without == Add(v, out(size, leave))
    IN  Add(Shl(without, ByteWidth) \union enter, mod(TopByte(without)))

\* Roll(c), which needs a window.
Roll(c) ==
    /\ window # <<>>
    /\ value' = Slide(value, tabled, Head(window), c)
    /\ window' = Append(Tail(window), c)
    /\ UNCHANGED <<pol, tabled>>

Reset ==
    /\ window' = <<>>
    /\ value' = Zero
    /\ tabled' = 0
    /\ UNCHANGED pol

-----------------------------------------------------------------------------
(* BatchRoll and BatchBoundaries of data, for 0 < w <= Len(data) *)
(* They leave the digest alone and fetch the tables of their own window length. *)

half(n) == (n + 2) \div 2

\* Mutant: the bytes leave by the tables that the digest holds.
LaneOfDigest(data, w, first, last) ==
    LET v[i \in first..last] ==
            IF i = first THEN Hash(SubSeq(data, first + 1, first + w))
            ELSE Slide(v[i - 1], tabled, data[i], data[i + w])
    IN  v

\* The sums of positions first .. last, from first's window on.
Lane(data, w, first, last) ==
    LET v[i \in first..last] ==
            IF i = first THEN Hash(SubSeq(data, first + 1, first + w))
            ELSE Slide(v[i - 1], w, data[i], data[i + w])
    IN  v

\* Lane A has dst[0:half], lane B dst[half:n+1], or lane A has all of a short dst.
BatchRoll(data, w) ==
    LET n     == Len(data) - w
        alone == half(n) > n
        vA    == Lane(data, w, 0, IF alone THEN n ELSE half(n) - 1)
        vB    == Lane(data, w, half(n), n)
    IN  [i \in 0..n |-> IF alone \/ i < half(n) THEN vA[i] ELSE vB[i]]

\* The same lanes, with a test for each sum (in which order: TwoLanes).
BatchBoundaries(data, w, mask) ==
    {i \in 0..(Len(data) - w) : BatchRoll(data, w)[i] \intersect mask = {}}

-----------------------------------------------------------------------------
Next ==
    \/ \E n \in 1..(MaxWindow - Len(window)) : \E data \in [1..n -> Byte] : Write(data)
    \/ \E c \in Byte : Roll(c)
    \/ Reset

Spec == Init /\ [][Next]_vars
-----------------------------------------------------------------------------
\* Rolling to a window gives the checksum that writing it gives (Roll, BatchRoll).
RollAgreesWithWrite == value = Hash(window)

\* A position is a boundary iff the checksum of its window passes the mask, whichever
\* lane computed it and whatever window the digest itself was written with: BatchRoll is
\* "equivalent to Write(data[:window]) followed by a Roll for each subsequent byte"
\* (rabinkarp64.go, lines 253-258), and BatchBoundaries does the same test on the same values.
BatchAgrees ==
    \A w \in 1..Len(window) :
        LET positions == 0..(Len(window) - w)
            sums      == [i \in positions |-> Hash(SubSeq(window, i + 1, i + w))]
        IN  /\ BatchRoll(window, w) = sums
            /\ \A bit \in 0..(Width - 1) :
                   BatchBoundaries(window, w, {bit}) = {i \in positions : bit \notin sums[i]}
=============================================================================
