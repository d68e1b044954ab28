---------------------------- MODULE RollingHash ----------------------------
(***************************************************************************)
(* The digest objects of adler32, bozo32, bozo64, buzhash32, buzhash64 and *)
(* gearhash64: one circular buffer (internal/window), one checksum, and    *)
(* the weight of the byte that leaves next, which depends on the length of *)
(* the window and is cached by Write (n, a^n, rotBH or shiftedGear).       *)
(***************************************************************************)
EXTENDS Checksums, SequencesExt

CONSTANT MaxWindow   \* bound of the model: no window is longer

ASSUME RollingHashAssumption == MaxWindow \in Nat \ {0}

VARIABLES window,   \* the circular buffer
          oldest,   \* index, from 0, of its oldest byte
          weight,   \* of the leaving byte
          value     \* the checksum

vars == <<family, a, table, window, oldest, weight, value>>

Init ==
    /\ Configured
    /\ window = <<>>
    /\ oldest = 0
    /\ weight = Weight(0)
    /\ value = Empty

First(n) == SubSeq(window, 1, n)
From(n)  == SubSeq(window, n + 1, Len(window))

\* Mutant: the last of the three reversals is missing.
MoveLeftTwice(n) == Reverse(First(n)) \o Reverse(From(n))

\* MoveLeft: reversing both parts and then the whole brings index n to 0.
MoveLeft(n) == Reverse(Reverse(First(n)) \o Reverse(From(n)))

\* Write(data): the window is put in order, extended and its checksum computed.
Write(data) ==
    /\ data # <<>>
    /\ LET longer == (IF oldest # 0 THEN MoveLeft(oldest) ELSE window) \o data
       IN  /\ window' = longer
           /\ value' = Hash(longer)
           /\ weight' = Weight(Len(longer))
    /\ oldest' = 0
    /\ UNCHANGED <<family, a, table>>

\* Roll(c), which needs a window: the entering byte replaces the leaving one.
Roll(c) ==
    /\ window # <<>>
    /\ value' = Slide(value, weight, window[oldest + 1], c)
    /\ window' = [window EXCEPT ![oldest + 1] = c]
    /\ oldest' = IF oldest + 1 >= Len(window) THEN 0 ELSE oldest + 1
    /\ UNCHANGED <<family, a, table, weight>>

\* Reset: buzhash32, buzhash64 and gearhash64 keep the weight, the others do not.
Reset ==
    /\ window' = <<>>
    /\ oldest' = 0
    /\ value' = Empty
    /\ weight' = IF family \in {"buzhash", "gearhash"} THEN weight ELSE Weight(0)
    /\ UNCHANGED <<family, a, table>>

\* What a writer keeps of p when it takes at most k bytes: less is an error.
Taken(p, k) == SubSeq(p, 1, IF k < Len(p) THEN k ELSE Len(p))

\* Mutant: the newer bytes are written although the older ones failed.
WriteWindowBoth(k1, k2) ==
    LET older == Taken(From(oldest), k1)
        newer == Taken(First(oldest), k2)
    IN  [bytes  |-> older \o newer,
         failed |-> k1 < Len(From(oldest)) \/ k2 < oldest]

\* WriteWindow, to a writer that takes at most k1 and then k2 bytes: the older bytes
\* of the buffer and then, if that went well, the newer ones.
WriteWindow(k1, k2) ==
    LET older  == Taken(From(oldest), k1)
        failed == k1 < Len(From(oldest))
    IN  [bytes  |-> older \o (IF failed THEN <<>> ELSE Taken(First(oldest), k2)),
         failed |-> failed \/ k2 < oldest]

Next ==
    \/ \E n \in 1..(MaxWindow - Len(window)) : \E data \in [1..n -> Bytes] : Write(data)
    \/ \E c \in Bytes : Roll(c)
    \/ Reset

Spec == Init /\ [][Next]_vars
-----------------------------------------------------------------------------
\* The window in order, as Write after Roll puts it back.
content == From(oldest) \o First(oldest)

\* The checksum is the one that writing the window at once would give, whatever mix
\* of Write, Roll and Reset led there, for every multiplier and table, and for
\* windows longer than a checksum has bits or than Mod.
RollAgreesWithWrite == value = Hash(content)

\* dst[i] is the checksum of data[i:i+window], whichever lane computed it: BatchRoll is
\* "equivalent to Write(data[:window]) followed by a Roll for each subsequent byte"
\* (bozo32.go, lines 127-132), for whatever data the digest's window holds.
BatchRollAgrees ==
    oldest = 0 =>
        \A w \in 1..Len(window) :
            BatchRoll(window, w) =
                [i \in 0..(Len(window) - w) |-> Hash(SubSeq(window, i + 1, i + w))]

\* Although WriteWindow takes two writes, what it wrote is a prefix of the window, all
\* of it unless it reports an error: a reader of the bytes never sees a gap.
WindowWrittenInOrder ==
    \A k1, k2 \in 0..Len(window) :
        LET w == WriteWindow(k1, k2)
        IN  /\ IsPrefix(w.bytes, content)
            /\ ~ w.failed => w.bytes = content

\* The window holds the last bytes written or rolled in, in order: Write extends it,
\* Roll slides it, although the buffer is circular and Write reorders it.
Sliding == INSTANCE SlidingWindow

ImplementsSlidingWindow == Sliding!Spec
=============================================================================
