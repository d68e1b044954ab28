-------------------------- MODULE ContentChunking --------------------------
(***************************************************************************)
(* What content-defined chunking promises a caller, however the bytes      *)
(* arrive (the Chunker and ChunkWriter interfaces of rollinghash.go):      *)
(* chunks tile the stream, every chunk ends at the first admissible cut,   *)
(* a cut never depends on how the stream was split into reads or writes,   *)
(* and only a closed stream has a final chunk.                             *)
(***************************************************************************)
EXTENDS ChunkPolicy

VARIABLES hits,      \* positions of the stream where the mask is hit
          written,   \* bytes of the stream supplied so far
          closed,    \* no more bytes will be supplied
          start,     \* start of the chunk not yet emitted
          cur        \* the accessors: the current chunk, or NoChunk

vars == <<hits, written, closed, start, cur>>

Init ==
    /\ hits \in HitSets
    /\ written = 0
    /\ closed = FALSE
    /\ start = 0
    /\ cur = NoChunk

\* Some bytes arrive, and possibly the end of the stream with them.
Supply ==
    /\ ~closed
    /\ written' \in written..StreamLimit
    /\ closed' \in BOOLEAN
    /\ UNCHANGED <<hits, start, cur>>

\* A cut fixed by the bytes supplied so far; whatever follows cannot move it.
Cut ==
    \E e \in start..(written - 1) :
        /\ CutAt(hits, start, e)
        /\ cur' = Chunk(start, e, Accepts(hits, start, e))
        /\ start' = e + 1
        /\ UNCHANGED <<hits, written, closed>>

\* The end of the stream: what is left, if no cut is in it, is the last chunk.
Final ==
    /\ closed
    /\ start < written
    /\ NoCut(hits, start, written)
    /\ cur' = Chunk(start, written - 1, FALSE)
    /\ start' = written
    /\ UNCHANGED <<hits, written, closed>>

\* A closed stream all of whose bytes are in chunks clears the accessors.
Exhausted ==
    /\ closed
    /\ start = written
    /\ cur' = NoChunk
    /\ UNCHANGED <<hits, written, closed, start>>

\* The input failed: no chunk will follow, whatever was supplied.
Abandon ==
    /\ ~closed
    /\ cur' = NoChunk
    /\ UNCHANGED <<hits, written, closed, start>>

Reset ==
    /\ hits' \in HitSets
    /\ written' = 0
    /\ closed' = FALSE
    /\ start' = 0
    /\ cur' = NoChunk

Next == Supply \/ Cut \/ Final \/ Exhausted \/ Abandon \/ Reset

Spec == Init /\ [][Next]_vars
=============================================================================
