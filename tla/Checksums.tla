----------------------------- MODULE Checksums -----------------------------
(***************************************************************************)
(* The arithmetic of adler32, bozo32/bozo64, buzhash32/buzhash64 and       *)
(* gearhash64: how Write computes a checksum from a window, how Roll takes *)
(* the oldest byte out with a weight that Write left behind, and how       *)
(* BatchRoll does the same over two lanes with a weight of its own.        *)
(* RollingHash holds the state of a digest; rabinkarp64 is RabinKarp.      *)
(*                                                                         *)
(* Integers are unsigned of Width bits; buzhash's are sets of bits.        *)
(***************************************************************************)
EXTENDS Integers, Sequences

CONSTANTS Width,       \* bits of a checksum, 32 or 64 in the code
          Mod,         \* adler32.Mod, 65521 in the code
          Bytes        \* the values of a byte

Modulus == 2^Width

\* As 65521, 255 and 2^32 are: no intermediate sum of adler32 wraps.
ASSUME ChecksumsAssumption ==
    /\ Width \in Nat \ {0} /\ Mod \in Nat \ {0}
    /\ Bytes \subseteq 0..(Mod - 1)
    /\ 3 * Mod <= Modulus + 1
    /\ \A c \in Bytes : (Mod - 1) * c < Modulus

VARIABLES family,    \* which package
          a,         \* bozo's multiplier, NewFromInt(a)
          table      \* bytehash and gear, NewFromUint32Array and NewFromUint64Array

U(x) == x % Modulus

-----------------------------------------------------------------------------
(* adler32 *)

AdlerEmpty == [a |-> 1, b |-> 0]

AdlerExtend(v, c) ==
    LET s == (v.a + c) % Mod IN [a |-> s, b |-> (v.b + s) % Mod]

AdlerWeight(n) == n % Mod

\* Mutant: the difference may be less than 0.
AdlerSlideWraps(v, wt, leave, enter) ==
    LET s == U(v.a + enter - leave) % Mod
    IN  [a |-> s, b |-> U(v.b + s + Mod - 1 - (U(wt * leave) % Mod)) % Mod]

AdlerSlide(v, wt, leave, enter) ==
    LET s == U(v.a + Mod + enter - leave) % Mod
    IN  [a |-> s, b |-> U(v.b + s + Mod - 1 - (U(wt * leave) % Mod)) % Mod]

-----------------------------------------------------------------------------
(* bozo32 and bozo64 *)

BozoExtend(v, c) == U(v * a + c)

\* a multiplied n times.
BozoWeight(n) ==
    LET power[i \in 0..n] == IF i = 0 THEN 1 ELSE U(power[i - 1] * a) IN power[n]

BozoSlide(v, wt, leave, enter) == U(v * a + enter - leave * wt)

-----------------------------------------------------------------------------
(* buzhash32 and buzhash64 *)

BitsOf(x)        == {i \in 0..(Width - 1) : (x \div 2^i) % 2 = 1}
RotateLeft(v, k) == {(i + k) % Width : i \in v}
Xor(v, w)        == (v \ w) \union (w \ v)

BuzExtend(v, c) == Xor(RotateLeft(v, 1), BitsOf(table[c]))

BuzWeight(n) == n % Width

BuzSlide(v, wt, leave, enter) ==
    Xor(Xor(RotateLeft(v, 1), RotateLeft(BitsOf(table[leave]), wt)), BitsOf(table[enter]))

-----------------------------------------------------------------------------
(* gearhash64 *)

GearExtend(v, c) == U(U(v * 2) + table[c])

\* gear shifted by n, which leaves nothing of it once n >= Width.
GearWeight(n) == [c \in Bytes |-> IF n < Width THEN U(table[c] * 2^n) ELSE 0]

GearSlide(v, wt, leave, enter) == U(U(v * 2) - wt[leave] + table[enter])

-----------------------------------------------------------------------------
(* The digest of a package *)

Empty ==
    CASE family = "adler32" -> AdlerEmpty
      [] family = "buzhash" -> {}
      [] OTHER              -> 0

Extend(v, c) ==
    CASE family = "adler32"  -> AdlerExtend(v, c)
      [] family = "bozo"     -> BozoExtend(v, c)
      [] family = "buzhash"  -> BuzExtend(v, c)
      [] family = "gearhash" -> GearExtend(v, c)

Weight(n) ==
    CASE family = "adler32"  -> AdlerWeight(n)
      [] family = "bozo"     -> BozoWeight(n)
      [] family = "buzhash"  -> BuzWeight(n)
      [] family = "gearhash" -> GearWeight(n)

Slide(v, wt, leave, enter) ==
    CASE family = "adler32"  -> AdlerSlide(v, wt, leave, enter)
      [] family = "bozo"     -> BozoSlide(v, wt, leave, enter)
      [] family = "buzhash"  -> BuzSlide(v, wt, leave, enter)
      [] family = "gearhash" -> GearSlide(v, wt, leave, enter)

Hash(w) ==
    LET h[i \in 0..Len(w)] == IF i = 0 THEN Empty ELSE Extend(h[i - 1], w[i])
    IN  h[Len(w)]

\* What New, NewFromInt and NewFromUint64Array are called with.
Configured ==
    /\ family \in {"adler32", "bozo", "buzhash", "gearhash"}
    /\ a \in 0..(Modulus - 1)
    /\ table \in [Bytes -> 0..(Modulus - 1)]
    /\ family # "bozo" => a = 0
    /\ family \in {"adler32", "bozo"} => table = [c \in Bytes |-> 0]

-----------------------------------------------------------------------------
(* BatchRoll(dst, data, w), for 0 < w <= Len(data) *)

\* The sums of positions first .. last of data, from first's window on.
Lane(data, w, first, last) ==
    LET v[i \in first..last] ==
            IF i = first THEN Hash(SubSeq(data, first + 1, first + w))
            ELSE Slide(v[i - 1], Weight(w), data[i], data[i + w])
    IN  v

halfOf(n) == (n + 2) \div 2

\* Mutant: lane B starts from the window before its own.
BatchRollEarly(data, w) ==
    LET n  == Len(data) - w
        vA == Lane(data, w, 0, IF halfOf(n) > n THEN n ELSE halfOf(n) - 1)
        vB == Lane(data, w, halfOf(n) - 1, n)
    IN  [i \in 0..n |-> IF i < halfOf(n) \/ halfOf(n) > n THEN vA[i] ELSE vB[i - 1]]

\* Lane A has dst[0:half] and lane B dst[half:n+1], if that is not empty.
BatchRoll(data, w) ==
    LET n  == Len(data) - w
        vA == Lane(data, w, 0, IF halfOf(n) > n THEN n ELSE halfOf(n) - 1)
        vB == Lane(data, w, halfOf(n), n)
    IN  [i \in 0..n |-> IF i < halfOf(n) \/ halfOf(n) > n THEN vA[i] ELSE vB[i]]
=============================================================================
