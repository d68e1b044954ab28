---------------------------- MODULE BatchWriter ----------------------------
(***************************************************************************)
(* BatchWriter (batchwriter.go): batchRollerCore fed by Write and Close,   *)
(* used by one goroutine at a time.                                        *)
(***************************************************************************)
EXTENDS BatchRollerCore

VARIABLE pending   \* bytes Write holds back, waiting for a full batch

writerVars == <<coreVars, pending>>

WriterInit == CoreInit /\ pending = 0

\* Write(p), for p of n bytes: pending is topped up to a batch, full batches go
\* to the core and what is left over waits.
Write(n) ==
    LET total == pending + n
        rest  == total % BatchSize
    IN  /\ ~eof
        /\ IF total >= BatchSize THEN Feed(total - rest) ELSE UNCHANGED bufVars
        /\ pending' = rest
        /\ UNCHANGED <<carry, prevN, dataLen, sums, offset, eof, done, err, state>>

\* Write after Close: ErrClosed, and nothing else.
WriteClosed == eof /\ UNCHANGED writerVars

\* Mutant: Close finishes the stream without what Write held back.
CloseKeepsPending ==
    /\ eof' = TRUE
    /\ UNCHANGED <<bufVars, carry, prevN, dataLen, sums, offset, done, err, state, pending>>

Close ==
    /\ IF pending > 0 THEN Feed(pending) ELSE UNCHANGED bufVars
    /\ pending' = 0
    /\ eof' = TRUE
    /\ UNCHANGED <<carry, prevN, dataLen, sums, offset, done, err, state>>

WriterCallNext == CoreNext /\ UNCHANGED pending

WriterReset == CoreReset /\ pending' = 0

WriterNext ==
    \/ \E n \in 0..(StreamLimit - fed - pending) : Write(n)
    \/ WriteClosed
    \/ Close
    \/ WriterCallNext
    \/ WriterReset

WriterSpec == WriterInit /\ [][WriterNext]_writerVars

\* The caller that has closed the stream keeps calling Next.
FairWriterSpec == WriterSpec /\ WF_writerVars(WriterCallNext /\ eof)
-----------------------------------------------------------------------------
TypeOK ==
    /\ fed \in 0..StreamLimit
    /\ cells \in [1..StreamLimit -> Unset..(StreamLimit - 1)]
    /\ len \in 0..fed
    /\ carry \in {0, Window - 1}
    /\ prevN \in 0..len
    /\ dataLen \in 0..BatchSize
    /\ sums \in Seq(Int)
    /\ offset \in 0..fed
    /\ eof \in BOOLEAN /\ done \in BOOLEAN /\ err = FALSE
    /\ state \in {"ready", "emitted", "needMore", "coreDone"}
    /\ pending \in 0..(BatchSize - 1)
    /\ fed + pending <= StreamLimit

\* However the stream is cut into writes, the writer implements batched rolling.
WriterRolling == INSTANCE RollingBatches
             WITH written <- fed + pending, closed <- eof, next <- undelivered, cur <- batch

WriterImplementsRollingBatches == WriterRolling!Spec

\* Bytes is valid until the next call to Next, whatever is written in between
\* (batchroller.go lines 122-127): only Next and Reset move bytes a batch shows.
BytesValidUntilNext == [][~ WriterCallNext /\ ~ WriterReset => batch' = batch]_writerVars

\* A stream that is closed and then drained comes to its end: every window of it
\* was delivered and Next says so, unless the caller resets the writer.
DrainAfterClose ==
    eof ~> (~eof \/ (state = "coreDone" /\ pending = 0 /\ undelivered + Window > fed))
=============================================================================
