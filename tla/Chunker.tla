------------------------------ MODULE Chunker ------------------------------
(***************************************************************************)
(* Chunker (chunker.go): chunkerCore fed from an io.Reader.  Next loops    *)
(* over core.next() and, when it needs more, fillCore, which calls Read    *)
(* until a block of readSize bytes is full, the stream ends or Read fails. *)
(* Within a call `state' goes "hashing" -> "needMore" -> "reading" ->      *)
(* "hashing" ...; between calls it is "ready", "emitted", "coreDone", or   *)
(* "failed" when the call returned false from a failed fillCore.           *)
(***************************************************************************)
EXTENDS ChunkerCore

VARIABLE filled   \* fillCore's n: bytes read into the tail so far

vars == <<coreVars, filled>>

readSize == Larger(BatchSize, Window)

Idle == state \in {"ready", "emitted", "coreDone", "failed"}

Init == CoreInit /\ filled = 0

CallNext == Idle /\ Begin /\ UNCHANGED filled

InCore == CoreStep /\ UNCHANGED filled

\* fillCore: the core is compacted and a tail of readSize bytes is handed out.
StartFill ==
    /\ state = "needMore"
    /\ Compact
    /\ filled' = 0
    /\ state' = "reading"
    /\ UNCHANGED <<hits, chunkStart, consumed, eof, done, err, cur>>

\* Mutant: a full block waits for one more Read.
ReadSomeFills(m) ==
    /\ state = "reading"
    /\ filled + m <= readSize
    /\ filled' = filled + m
    /\ UNCHANGED coreVars

\* Read returns m > 0 bytes and no error: the block may still be short.
\* (Read returning 0 bytes and no error changes nothing.)
ReadSome(m) ==
    /\ state = "reading"
    /\ filled + m < readSize
    /\ filled' = filled + m
    /\ UNCHANGED coreVars

\* commitTail(n): the bytes read become part of the stream.
CommitTail(m) ==
    /\ state = "reading"
    /\ filled + m <= readSize
    /\ consumed' = consumed + filled + m
    /\ filled' = 0
    /\ UNCHANGED <<hits, cbufBase, chunkStart, spent, bounds, hashedTo, done, cur>>

\* The last Read of the block fills it.
ReadFull(m) ==
    /\ filled + m = readSize
    /\ CommitTail(m)
    /\ state' = "hashing"
    /\ UNCHANGED <<eof, err>>

\* Mutant: fillCore stops at the end of the stream but does not finish the core.
ReadEOFUnnoticed(m) ==
    /\ CommitTail(m)
    /\ state' = "hashing"
    /\ UNCHANGED <<eof, err>>

\* Read returns its last bytes, if any, together with io.EOF.
ReadEOF(m) ==
    /\ CommitTail(m)
    /\ eof' = TRUE
    /\ state' = "hashing"
    /\ UNCHANGED err

\* Read fails: what it read is committed, the error kept, and Next returns.
ReadError(m) ==
    /\ CommitTail(m)
    /\ err' = TRUE
    /\ state' = "failed"
    /\ UNCHANGED eof

\* The reader's next answer.
Read ==
    \E m \in 0..(StreamLimit - consumed - filled) :
        \/ m > 0 /\ ReadSome(m)
        \/ m > 0 /\ ReadFull(m)
        \/ ReadEOF(m)
        \/ ReadError(m)

\* Reset(r): another stream; the block being filled is none of Next's.
Reset == Idle /\ CoreReset /\ filled' = 0

Next == CallNext \/ InCore \/ StartFill \/ Read \/ Reset

Spec == Init /\ [][Next]_vars

\* Next runs to its end, the reader keeps answering with bytes, the end or an
\* error, and the caller keeps calling Next ("for c.Next() { ... }").
FairSpec ==
    Spec /\ WF_vars(InCore) /\ WF_vars(StartFill) /\ WF_vars(Read) /\ WF_vars(CallNext)
-----------------------------------------------------------------------------
TypeOK ==
    /\ hits \in HitSets
    /\ chunkStart \in Nat /\ consumed \in 0..StreamLimit /\ cbufBase \in Nat
    /\ hashedTo \in Nat
    /\ spent \in SUBSET Nat /\ bounds \in SUBSET Nat
    /\ eof \in BOOLEAN /\ done \in BOOLEAN /\ err \in BOOLEAN
    /\ cur \in Chunks
    /\ state \in {"ready", "hashing", "emitted", "needMore", "coreDone",
                  "reading", "failed"}
    /\ filled \in 0..(readSize - 1)
    /\ consumed + filled <= StreamLimit

\* Whatever sizes Read returns, with or without an error at the end, the
\* chunker implements content-defined chunking of the bytes read.
CDC == INSTANCE ContentChunking
         WITH written <- consumed, closed <- eof, start <- chunkStart

ImplementsContentChunking == CDC!Spec

\* A caller that keeps calling Next gets the whole stream in chunks and then
\* false, or an error, unless it resets the chunker for ever.
StreamComes ==
    state = "hashing" ~>
        (Idle /\ (err \/ (eof /\ chunkStart = consumed))) \/ state = "ready"

\* The accumulator stays bounded however long the stream: a block, less than a
\* chunk of Max bytes, and a window's lead-in (compact's comment, lines 135-138).
BufferBounded ==
    consumed + filled - cbufBase <= (Max - 1) + (Window - 1) + readSize

\* A read error ends the chunking: the bytes read with it never come out, and
\* no chunk is passed off as the final one.
ErrorIsFinal ==
    [][err /\ err' => cur' \in {cur, NoChunk} /\ chunkStart' = chunkStart]_vars
=============================================================================
