---------------------------- MODULE ChunkPolicy ----------------------------
(***************************************************************************)
(* The cutting rule shared by Chunker and ChunkWriter: the one the loop of *)
(* refChunk (chunker_test.go) applies, with the forced cut of next() and   *)
(* WithBoundaries (chunker.go), which is unconditional: refChunk's forced  *)
(* cut also waits for a full window, which differs only when Max < Window. *)
(*                                                                         *)
(* A stream is abstracted to the set `hits' of the global byte positions e *)
(* whose rolling window, the Window bytes ending at e, has a checksum that *)
(* satisfies the mask; no window ends before byte Window - 1.  A checksum  *)
(* is identified by the position its window ends at, and the 0 that stands *)
(* for "no checksum" in the code is NoSum.                                 *)
(***************************************************************************)
EXTENDS Integers

CONSTANTS Window,       \* bytes in a rolling window
          Min, Max,      \* WithBoundaries(min, max)
          StreamLimit    \* bound of the model: no stream has more bytes

ASSUME PolicyAssumption ==
    /\ Window \in Nat \ {0}
    /\ Min \in Nat
    /\ Max \in Nat \ {0}
    /\ StreamLimit \in Nat

HitSets == SUBSET ((Window - 1)..(StreamLimit - 1))

NoSum == -1

\* The accessors of a chunk: Offset, Offset + len(Bytes), Sum, ContentDefined.
Chunks == [offset : Nat, end : Nat, sum : Nat \union {NoSum}, contentDefined : BOOLEAN]

SumAt(e) == IF e >= Window - 1 THEN e ELSE NoSum

Chunk(s, e, cd) ==
    [offset |-> s, end |-> e + 1, sum |-> SumAt(e), contentDefined |-> cd]

\* The accessors before the first Next: Bytes nil, Sum 0, Offset 0.
NoChunk == [offset |-> 0, end |-> 0, sum |-> NoSum, contentDefined |-> FALSE]

\* A chunk starting at s may end at the mask hit e, or is cut there at Max.
Accepts(hits, s, e) == e \in hits /\ e - s + 1 >= Min
ForcedAt(s, e)      == e - s + 1 = Max

\* No cut of a chunk starting at s falls in the bytes s .. n-1.
NoCut(hits, s, n) ==
    \A d \in s..(n - 1) : ~ Accepts(hits, s, d) /\ ~ ForcedAt(s, d)

\* The chunk starting at s ends at e: the first cut at or after s.
CutAt(hits, s, e) ==
    /\ e >= s
    /\ Accepts(hits, s, e) \/ ForcedAt(s, e)
    /\ NoCut(hits, s, e)
=============================================================================
