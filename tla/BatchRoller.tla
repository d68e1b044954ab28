---------------------------- MODULE BatchRoller ----------------------------
(***************************************************************************)
(* BatchRoller (batchroller.go): batchRollerCore fed from an io.Reader.    *)
(* Next loops over core.next() and, when it needs more, fillCore, which    *)
(* calls Read until a block is full, the stream ends or Read fails.  In a  *)
(* call `state' goes "calling" -> "needMore" -> "reading" -> "calling" ..; *)
(* between calls it is "ready", "emitted", "coreDone", or "failed" after a *)
(* fillCore that failed.                                                   *)
(***************************************************************************)
EXTENDS BatchRollerCore

VARIABLE filled   \* fillCore's n: bytes read into the tail so far

vars == <<coreVars, filled>>

readSize == BatchSize

Idle == state \in {"ready", "emitted", "coreDone", "failed"}

Init == CoreInit /\ filled = 0

\* Next, and its loop after a fillCore: the core's next().
CallNext == Idle /\ CoreNext /\ UNCHANGED filled

Loop == state = "calling" /\ CoreNext /\ UNCHANGED filled

\* fillCore: a tail of readSize bytes is handed out.
StartFill ==
    /\ state = "needMore"
    /\ filled' = 0
    /\ state' = "reading"
    /\ UNCHANGED <<bufVars, carry, prevN, dataLen, sums, offset, eof, done, err>>

\* Read returns m > 0 bytes and no error: the block may still be short.
ReadSome(m) ==
    /\ state = "reading"
    /\ filled + m < readSize
    /\ filled' = filled + m
    /\ UNCHANGED coreVars

\* The bytes read become part of the stream.
CommitTail(m) ==
    /\ state = "reading"
    /\ filled + m <= readSize
    /\ Feed(filled + m)
    /\ filled' = 0
    /\ UNCHANGED <<carry, prevN, dataLen, sums, offset, done>>

\* The last Read of the block fills it.
ReadFull(m) ==
    /\ filled + m = readSize
    /\ CommitTail(m)
    /\ state' = "calling"
    /\ UNCHANGED <<eof, err>>

\* Mutant: fillCore stops at the end of the stream but does not finish the core.
ReadEOFUnnoticed(m) ==
    /\ CommitTail(m)
    /\ state' = "calling"
    /\ UNCHANGED <<eof, err>>

\* Read returns its last bytes, if any, together with io.EOF.
ReadEOF(m) ==
    /\ CommitTail(m)
    /\ eof' = TRUE
    /\ state' = "calling"
    /\ UNCHANGED err

\* Read fails: what it read is committed, the error kept, and Next returns.
ReadError(m) ==
    /\ CommitTail(m)
    /\ err' = TRUE
    /\ state' = "failed"
    /\ UNCHANGED eof

\* The reader's next answer.
Read ==
    \E m \in 0..(StreamLimit - fed - filled) :
        \/ m > 0 /\ ReadSome(m)
        \/ m > 0 /\ ReadFull(m)
        \/ ReadEOF(m)
        \/ ReadError(m)

Reset == Idle /\ CoreReset /\ filled' = 0

Next == CallNext \/ Loop \/ StartFill \/ Read \/ Reset

Spec == Init /\ [][Next]_vars

\* Next runs to its end, the reader keeps answering with bytes, the end or an
\* error, and the caller keeps calling Next ("for s.Next() { ... }").
FairSpec ==
    Spec /\ WF_vars(Loop) /\ WF_vars(StartFill) /\ WF_vars(Read) /\ WF_vars(CallNext)
-----------------------------------------------------------------------------
\* Whatever sizes Read returns, with or without an error at the end, the roller
\* implements batched rolling of the bytes read.
Rolling == INSTANCE RollingBatches
             WITH written <- fed, closed <- eof, next <- undelivered, cur <- batch

ImplementsRollingBatches == Rolling!Spec

\* A caller that keeps calling Next gets every window and then false, or an error,
\* unless it resets the roller for ever.
StreamComes ==
    state = "calling" ~>
        (Idle /\ (err \/ (eof /\ undelivered + Window > fed))) \/ state = "ready"

\* The accumulator never holds more than a carry and a block, although a block is
\* read on top of what the last batch left (lines 132-135).
BufferBounded == len + filled <= (Window - 1) + readSize

\* A read error ends the batches: the windows completed by the bytes that came with
\* it are never delivered, and no batch is the final one.
ErrorIsFinal == [][err /\ err' => state' # "emitted"]_vars
=============================================================================
