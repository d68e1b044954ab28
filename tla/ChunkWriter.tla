---------------------------- MODULE ChunkWriter ----------------------------
(***************************************************************************)
(* ChunkWriter (chunkwriter.go): chunkerCore fed by Write and Close.  The  *)
(* writer is used by one goroutine at a time: a method starts when the     *)
(* previous one has returned.                                              *)
(***************************************************************************)
EXTENDS ChunkerCore

VARIABLE pending   \* bytes Write holds back, waiting for a full batch

vars == <<coreVars, pending>>

Idle == state \notin {"hashing", "panic"}

Init == CoreInit /\ pending = 0

\* Mutant: a top-up that completes the batch exactly is not fed.
WriteKeepsFullBatch(n) ==
    LET total == pending + n
        rest  == IF pending > 0 /\ total = BatchSize THEN total ELSE total % BatchSize
    IN  /\ Idle
        /\ ~eof
        /\ pending' = rest
        /\ IF total > rest
           THEN Feed(total - rest)
           ELSE UNCHANGED <<hashedTo, cbufBase, spent, bounds, consumed>>
        /\ UNCHANGED <<hits, chunkStart, eof, done, err, cur, state>>

\* Write(p), for p of n bytes: pending is topped up to a batch, full batches
\* go to the core and what is left over waits.  Feeding several batches in a
\* row is one feed of their bytes: a second compact finds nothing to drop.
Write(n) ==
    LET total == pending + n
        rest  == total % BatchSize
    IN  /\ Idle
        /\ ~eof
        /\ pending' = rest
        /\ IF total >= BatchSize
           THEN Feed(total - rest)
           ELSE UNCHANGED <<hashedTo, cbufBase, spent, bounds, consumed>>
        /\ UNCHANGED <<hits, chunkStart, eof, done, err, cur, state>>

\* Write after Close: ErrClosed, and nothing else.
WriteClosed ==
    /\ Idle
    /\ eof
    /\ UNCHANGED vars

\* Mutant: Close finishes the stream without what Write held back.
CloseKeepsPending ==
    /\ Idle
    /\ eof' = TRUE
    /\ UNCHANGED <<hits, chunkStart, hashedTo, cbufBase, spent, bounds, consumed,
                   done, err, cur, state, pending>>

Close ==
    /\ Idle
    /\ IF pending > 0
       THEN Feed(pending)
       ELSE UNCHANGED <<hashedTo, cbufBase, spent, bounds, consumed>>
    /\ pending' = 0
    /\ eof' = TRUE
    /\ UNCHANGED <<hits, chunkStart, done, err, cur, state>>

CallNext == Idle /\ Begin /\ UNCHANGED pending

InNext == CoreStep /\ UNCHANGED pending

\* Mutant: bytes of the old stream are left in pending.
ResetKeepsPending == Idle /\ CoreReset /\ UNCHANGED pending

Reset == Idle /\ CoreReset /\ pending' = 0

Next ==
    \/ \E n \in 0..(StreamLimit - consumed - pending) : Write(n)
    \/ WriteClosed
    \/ Close
    \/ CallNext
    \/ InNext
    \/ Reset

Spec == Init /\ [][Next]_vars

\* A call of Next runs to its end, and the caller keeps calling Next once it
\* has closed the stream ("for cw.Next() { ... }").
FairSpec == Spec /\ WF_vars(InNext) /\ WF_vars(CallNext /\ eof)
-----------------------------------------------------------------------------
TypeOK ==
    /\ hits \in HitSets
    /\ chunkStart \in Nat /\ consumed \in 0..StreamLimit /\ cbufBase \in Nat
    /\ hashedTo \in Nat
    /\ spent \in SUBSET Nat /\ bounds \in SUBSET Nat
    /\ eof \in BOOLEAN /\ done \in BOOLEAN /\ err = FALSE
    /\ cur \in Chunks
    /\ state \in {"ready", "hashing", "emitted", "needMore", "coreDone"}
    /\ pending \in 0..(BatchSize - 1)
    /\ consumed + pending <= StreamLimit

\* Write never loses or reorders what Next relies on, Close flushes it all and
\* Reset forgets everything: the writer implements content-defined chunking.
CDC == INSTANCE ContentChunking
         WITH written <- consumed + pending, closed <- eof, start <- chunkStart

ImplementsContentChunking == CDC!Spec

\* Every stream that is closed and then drained comes to its end: all its bytes
\* are in chunks and Next says so, unless the caller resets the writer.
DrainAfterClose ==
    eof ~> (~eof \/ (state = "coreDone" /\ chunkStart = consumed /\ pending = 0))

\* After Next returns false there is no current chunk (the Bytes and Sum comments,
\* chunkwriter.go lines 95-104): what the comment promises, not what happens.
FalseClearsAccessors == state \in {"needMore", "coreDone"} => cur = NoChunk
=============================================================================
