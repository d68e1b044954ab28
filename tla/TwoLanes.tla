------------------------------ MODULE TwoLanes ------------------------------
(***************************************************************************)
(* BatchBoundaries, the fused two-lane scan of a block of data, as         *)
(* buzhash64.go has it (buzhash32 and gearhash64 are alike; adler32,       *)
(* bozo32, bozo64 and rabinkarp64 have no blocks, which is a block that no *)
(* scan fills).  BatchRoll is the walk without blocks and with every       *)
(* position a hit: lane A's are dst[0:half] and lane B's dst[half:n+1].    *)
(*                                                                         *)
(* A lane holds the checksum of the window it has rolled to, which is      *)
(* identified with that window's first position.  A step takes the byte    *)
(* leaving[i] out and entering[i], which is data[i+window], in: a lane     *)
(* that holds another window than i then holds nobody's checksum, Lost.    *)
(***************************************************************************)
EXTENDS Integers, FiniteSets, Sequences

CONSTANTS MaxN,        \* bound of the model: the highest output index
          BlockSizes   \* 32 in the code, and one above MaxN for no blocks

ASSUME LanesAssumption ==
    /\ MaxN \in Nat
    /\ \A s \in BlockSizes : s \in Nat \ {0} /\ s % 2 = 0   \* two steps per iteration

VARIABLES blockSize, \* of the package that scans
          n,         \* len(data) - window
          hits,      \* the positions whose checksum satisfies the mask
          vA, vB,    \* the lanes
          ia, ib,    \* the positions they have rolled to
          bits,      \* bitsAB: lane A's hits in the block, lane B's from blockSize on
          k,         \* steps done in the block
          outA, outB, \* the outputs
          pc         \* control

inputs   == <<blockSize, n, hits>>
scanVars == <<inputs, vA, vB, ia, ib, bits, k, outA, outB, pc>>

Lost == -1

half       == (n + 2) \div 2
limitA     == half - 1
limitB     == n - half
limit      == IF limitA <= limitB THEN limitA ELSE limitB
fullBlocks == limit \div blockSize

Rolled(v, i) == IF v = i THEN i + 1 ELSE Lost
Masked(v)    == v \in hits
Report(out, v, p) == IF Masked(v) THEN Append(out, p) ELSE out

ScanInit ==
    /\ blockSize \in BlockSizes
    /\ n \in -1..MaxN
    /\ hits \in SUBSET (0..n)
    /\ vA = Lost /\ vB = Lost /\ ia = 0 /\ ib = 0
    /\ bits = {} /\ k = 0
    /\ outA = <<>> /\ outB = <<>>
    /\ pc = "called"

\* Less data than a window: no position.
TooShort ==
    /\ pc = "called"
    /\ n < 0
    /\ pc' = "returned"
    /\ UNCHANGED <<inputs, vA, vB, ia, ib, bits, k, outA, outB>>

\* The checksum of data[0:window].
WarmA ==
    /\ pc = "called"
    /\ n >= 0
    /\ vA' = 0
    /\ outA' = Report(outA, 0, 0)
    /\ pc' = IF half > n THEN "single" ELSE "warmB"
    /\ UNCHANGED <<inputs, vB, ia, ib, bits, k, outB>>

\* Too few positions for a second lane: lane A goes on to the end alone.
Single ==
    /\ pc = "single"
    /\ IF ia < n
       THEN /\ vA' = Rolled(vA, ia)
            /\ outA' = Report(outA, vA', ia + 1)
            /\ ia' = ia + 1
            /\ UNCHANGED pc
       ELSE /\ pc' = "returned"
            /\ UNCHANGED <<vA, outA, ia>>
    /\ UNCHANGED <<inputs, vB, ib, bits, k, outB>>

\* The checksum of data[half:half+window].
WarmB ==
    /\ pc = "warmB"
    /\ vB' = half
    /\ outB' = Report(outB, half, half)
    /\ ib' = half
    /\ pc' = IF fullBlocks > 0 THEN "block" ELSE "lockstep"
    /\ UNCHANGED <<inputs, vA, ia, bits, k, outA>>

\* One of the two unrolled steps of the inner loop: hits become bits.
BlockStep ==
    /\ pc = "block"
    /\ k < blockSize
    /\ vA' = Rolled(vA, ia + k)
    /\ vB' = Rolled(vB, ib + k)
    /\ bits' = bits \union (IF Masked(vA') THEN {k} ELSE {})
                    \union (IF Masked(vB') THEN {k + blockSize} ELSE {})
    /\ k' = k + 1
    /\ UNCHANGED <<inputs, ia, ib, outA, outB, pc>>

Ascending(S) ==
    [j \in 1..Cardinality(S) |-> CHOOSE x \in S : Cardinality({y \in S : y < x}) = j - 1]

\* Mutant: a bit is taken for the position before the step.
PositionsBefore(from, base) ==
    Ascending({base + i : i \in {i \in 0..(blockSize - 1) : from + i \in bits}})

\* The set bits, lowest first, as the positions after the steps they stand for.
Positions(from, base) ==
    Ascending({base + i + 1 : i \in {i \in 0..(blockSize - 1) : from + i \in bits}})

\* Mutant: the blocks never get past the first.
ExtractStays ==
    /\ pc = "block"
    /\ k = blockSize
    /\ bits' = {}
    /\ k' = 0
    /\ UNCHANGED <<inputs, vA, vB, ia, ib, outA, outB, pc>>

\* The end of a block: its bits are extracted.
Extract ==
    /\ pc = "block"
    /\ k = blockSize
    /\ outA' = outA \o Positions(0, ia)
    /\ outB' = outB \o Positions(blockSize, ib)
    /\ bits' = {}
    /\ k' = 0
    /\ ia' = ia + blockSize
    /\ ib' = ib + blockSize
    /\ pc' = IF ia' < fullBlocks * blockSize THEN "block" ELSE "lockstep"
    /\ UNCHANGED <<inputs, vA, vB>>

\* What the blocks left, both lanes in lockstep.
Lockstep ==
    /\ pc = "lockstep"
    /\ ia < limitA /\ ib < n
    /\ vA' = Rolled(vA, ia)
    /\ outA' = Report(outA, vA', ia + 1)
    /\ vB' = Rolled(vB, ib)
    /\ outB' = Report(outB, vB', ib + 1)
    /\ ia' = ia + 1
    /\ ib' = ib + 1
    /\ UNCHANGED <<inputs, bits, k, pc>>

\* The longer lane goes on alone, first A's loop and then B's.
Finish ==
    /\ pc = "lockstep"
    /\ (ia < limitA) # (ib < n)
    /\ IF ia < limitA
       THEN /\ vA' = Rolled(vA, ia)
            /\ outA' = Report(outA, vA', ia + 1)
            /\ ia' = ia + 1
            /\ UNCHANGED <<vB, outB, ib>>
       ELSE /\ vB' = Rolled(vB, ib)
            /\ outB' = Report(outB, vB', ib + 1)
            /\ ib' = ib + 1
            /\ UNCHANGED <<vA, outA, ia>>
    /\ UNCHANGED <<inputs, bits, k, pc>>

Return ==
    /\ pc = "lockstep"
    /\ ia >= limitA
    /\ ib >= n
    /\ pc' = "returned"
    /\ UNCHANGED <<inputs, vA, vB, ia, ib, bits, k, outA, outB>>

ScanNext ==
    \/ TooShort \/ WarmA \/ Single \/ WarmB
    \/ BlockStep \/ Extract
    \/ Lockstep \/ Finish
    \/ Return

ScanSpec == ScanInit /\ [][ScanNext]_scanVars
FairScan == ScanSpec /\ WF_scanVars(ScanNext)
-----------------------------------------------------------------------------
\* The outputs, lane A's and then lane B's, are all the hits in ascending order,
\* each once: the order hashForward appends them to bounds in, and the contract of
\* hashBoundaryRoller (rollinghash.go, lines 235-242).
AllHitsInOrder == pc = "returned" => outA \o outB = Ascending(hits)

\* The scan comes to its end whatever the lanes' lengths.
Returns == <>(pc = "returned")
=============================================================================
