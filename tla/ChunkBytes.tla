----------------------------- MODULE ChunkBytes -----------------------------
(***************************************************************************)
(* The memory behind chunkerCore's cbuf.  ChunkerCore keeps cbuf as an     *)
(* interval of the stream; here the interval is laid out in an array that  *)
(* compact moves bytes in and that the chunk returned by Bytes is a slice  *)
(* of.  The array never has to be reallocated: a reallocation leaves the   *)
(* old one, and the slices of it, as they are, so this is the worst case.  *)
(* A byte is its position in the stream.                                   *)
(***************************************************************************)
EXTENDS ChunkerCore

VARIABLES cells,   \* the array behind cbuf
          low      \* cell before the first one of the chunk

memVars == <<cells, low>>

Unset == -1

MemInit == cells = [i \in 1..StreamLimit |-> Unset] /\ low = 0

\* Mutant: cbuf is resliced without moving its bytes to the front.
CellsResliced ==
    LET kept == consumed - cbufBase'
        new  == consumed' - consumed
    IN  [i \in 1..StreamLimit |->
           IF i \in (kept + 1)..(kept + new) THEN consumed + i - kept - 1 ELSE cells[i]]

\* What a step that changes cbufBase or consumed does to the array: copy(cbuf,
\* cbuf[drop:]) if a prefix is dropped, then the new bytes behind what is kept.
\* A new stream, whose first byte has not come, leaves the array as it is.
Cells ==
    LET drop == cbufBase' - cbufBase
        kept == consumed - cbufBase'
        new  == consumed' - consumed
    IN  [i \in 1..StreamLimit |->
           CASE drop >= 0 /\ i <= kept                   -> cells[i + drop]
             [] i \in (kept + 1)..(kept + new)           -> consumed + i - kept - 1
             [] OTHER                                    -> cells[i]]

MemStep ==
    /\ cells' = IF consumed' < consumed THEN cells ELSE Cells
    /\ low' = IF state = "hashing" /\ state' = "emitted" THEN chunkStart - cbufBase ELSE low
-----------------------------------------------------------------------------
\* Bytes is the current chunk from the Next that returned true to the next call of
\* Next (the Bytes comments, chunker.go 518-519 and chunkwriter.go 95-96).
BytesValidUntilNext ==
    state = "emitted" =>
        \A i \in 1..(cur.end - cur.offset) : cells[low + i] = cur.offset + i - 1
=============================================================================
