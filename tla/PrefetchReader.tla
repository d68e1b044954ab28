--------------------------- MODULE PrefetchReader ---------------------------
(***************************************************************************)
(* prefetchReader of rollstat/main.go: a goroutine fills the next block    *)
(* from a source while Read hands out the current one.  Two buffers go     *)
(* round: free -> the goroutine -> forward -> Read's cur -> free.          *)
(*                                                                         *)
(* A byte is its position in the source.  The source has `size' bytes and  *)
(* then ends, or fails if `fails'.  Filling a buffer takes time: between   *)
(* TakeFree and ReadFull the goroutine is writing it.  Who calls Read, and *)
(* with what room, is up to the module that extends this one, RollStat.    *)
(***************************************************************************)
EXTENDS Integers, Sequences, FiniteSets

CONSTANTS Buffers,      \* the two buffers
          ChunkSize,    \* their capacity
          MaxSize,      \* bound of the model: no source has more bytes
          Nil

ASSUME PrefetchAssumption ==
    /\ Cardinality(Buffers) = 2
    /\ ChunkSize \in Nat \ {0} /\ MaxSize \in Nat
    /\ Nil \notin Buffers

VARIABLES size, fails,   \* the source, see above
          taken,         \* bytes read from it
          free, forward, \* the channels' queues; forward also has `closed'
          closed,
          held,          \* the goroutine's buf, or Nil
          from, length,  \* what a buffer holds: the bytes from .. from+length-1
          prErr,         \* pr.err: "nil", "EOF", "ErrUnexpectedEOF" or "failed"
          goroutine,     \* "waiting", "filling", "sending", "erring", "exited"
          fillErr,       \* the goroutine's err
          cur, pos,      \* Read's buffer, or Nil, and position in it
          reader,        \* Read: "idle", "checking", "receiving", "copying"
          got,           \* bytes Read has returned
          result         \* the last error Read has returned, or "nil"

sourceVars    == <<size, fails>>
goroutineVars == <<taken, held, from, length, prErr, goroutine, fillErr, closed>>
readVars      == <<cur, pos, reader, got, result>>
prefetchVars  == <<sourceVars, goroutineVars, free, forward, readVars>>

PrefetchInit ==
    /\ size \in 0..MaxSize
    /\ fails \in BOOLEAN
    /\ taken = 0
    /\ free \in {s \in [1..2 -> Buffers] : s[1] # s[2]}
    /\ forward = <<>> /\ closed = FALSE
    /\ held = Nil
    /\ from = [b \in Buffers |-> 0] /\ length = [b \in Buffers |-> 0]
    /\ prErr = "nil" /\ goroutine = "waiting" /\ fillErr = "nil"
    /\ cur = Nil /\ pos = 0 /\ reader = "idle" /\ got = 0 /\ result = "nil"

-----------------------------------------------------------------------------
(* The goroutine *)

\* buf := <-pr.free
TakeFree ==
    /\ goroutine = "waiting"
    /\ free # <<>>
    /\ held' = Head(free)
    /\ free' = Tail(free)
    /\ goroutine' = "filling"
    /\ UNCHANGED <<sourceVars, taken, from, length, prErr, fillErr, closed, forward, readVars>>

\* io.ReadFull(r, buf): a full block; or what is left and ErrUnexpectedEOF, or
\* EOF if nothing is; or what is left and the source's error.
ReadFull ==
    /\ goroutine = "filling"
    /\ LET left == size - taken
           n    == IF left < ChunkSize THEN left ELSE ChunkSize
       IN  /\ from'   = [from EXCEPT ![held] = taken]
           /\ length' = [length EXCEPT ![held] = n]
           /\ taken'  = taken + n
           /\ fillErr' = IF n = ChunkSize THEN "nil"
                         ELSE IF fails THEN "failed"
                         ELSE IF n = 0 THEN "EOF" ELSE "ErrUnexpectedEOF"
           /\ goroutine' = IF n > 0 THEN "sending" ELSE "erring"
    /\ UNCHANGED <<sourceVars, held, prErr, closed, free, forward, readVars>>

\* pr.forward <- buf[:n], which waits while the channel holds a block.
Send ==
    /\ goroutine = "sending"
    /\ Len(forward) < 1
    /\ forward' = Append(forward, held)
    /\ held' = Nil
    /\ goroutine' = IF fillErr = "nil" THEN "waiting" ELSE "erring"
    /\ UNCHANGED <<sourceVars, taken, from, length, prErr, fillErr, closed, free, readVars>>

\* Mutant: the channel is closed before the error is set.
SetErrAfterClose ==
    /\ goroutine = "erring"
    /\ closed' = TRUE
    /\ prErr' = IF closed THEN fillErr ELSE prErr
    /\ goroutine' = IF closed THEN "closing" ELSE "erring"
    /\ UNCHANGED <<sourceVars, taken, held, from, length, fillErr, free, forward, readVars>>

\* pr.err = err
SetErr ==
    /\ goroutine = "erring"
    /\ prErr' = fillErr
    /\ goroutine' = "closing"
    /\ UNCHANGED <<sourceVars, taken, held, from, length, fillErr, closed, free, forward, readVars>>

\* The deferred close(pr.forward).
CloseForward ==
    /\ goroutine = "closing"
    /\ closed' = TRUE
    /\ held' = Nil
    /\ goroutine' = "exited"
    /\ UNCHANGED <<sourceVars, taken, from, length, prErr, fillErr, free, forward, readVars>>

Goroutine == TakeFree \/ ReadFull \/ Send \/ SetErr \/ CloseForward

-----------------------------------------------------------------------------
(* Read(p) *)

\* Read(p) looks at the block it is handing out, if there is one.
CallRead ==
    /\ reader = "idle"
    /\ reader' = IF cur = Nil \/ pos >= length[cur] THEN "checking" ELSE "copying"
    /\ UNCHANGED <<sourceVars, goroutineVars, free, forward, cur, pos, got, result>>

\* The current block is used up: its buffer is given back, if there is one
\* (pr.free <- pr.cur, which waits while the channel is full).
GiveBack ==
    /\ reader = "checking"
    /\ cur # Nil => Len(free) < 2
    /\ free' = IF cur = Nil THEN free ELSE Append(free, cur)
    /\ reader' = "receiving"
    /\ UNCHANGED <<sourceVars, goroutineVars, forward, cur, pos, got, result>>

\* Mutant: a block's buffer is given back when it is received.
ReceiveAndFree ==
    /\ reader = "receiving"
    /\ forward # <<>>
    /\ cur' = Head(forward)
    /\ forward' = Tail(forward)
    /\ free' = Append(free, Head(forward))
    /\ pos' = 0
    /\ reader' = "copying"
    /\ UNCHANGED <<sourceVars, goroutineVars, got, result>>

\* cur, ok := <-pr.forward
Receive ==
    /\ reader = "receiving"
    /\ forward # <<>>
    /\ cur' = Head(forward)
    /\ forward' = Tail(forward)
    /\ pos' = 0
    /\ reader' = "copying"
    /\ UNCHANGED <<sourceVars, goroutineVars, free, got, result>>

\* Mutant: a closed channel is not drained.
ReceiveClosedEarly ==
    /\ reader = "receiving"
    /\ closed
    /\ result' = IF prErr \notin {"nil", "ErrUnexpectedEOF"} THEN prErr ELSE "EOF"
    /\ reader' = "idle"
    /\ UNCHANGED <<sourceVars, goroutineVars, free, forward, cur, pos, got>>

\* !ok: the channel is closed and empty; pr.err is read and returned.
ReceiveClosed ==
    /\ reader = "receiving"
    /\ forward = <<>>
    /\ closed
    /\ result' = IF prErr \notin {"nil", "ErrUnexpectedEOF"} THEN prErr ELSE "EOF"
    /\ reader' = "idle"
    /\ UNCHANGED <<sourceVars, goroutineVars, free, forward, cur, pos, got>>

\* The bytes that a Read with room for p of them returns.
Given(p) ==
    LET left == length[cur] - pos
    IN  IF p < left THEN p ELSE left

\* Mutant: Read may return no byte and no error.
CopyNothing(p) ==
    /\ reader = "copying"
    /\ reader' = "idle"
    /\ UNCHANGED <<sourceVars, goroutineVars, free, forward, cur, pos, got, result>>

\* n := copy(p, pr.cur[pr.pos:])
CopyTo(p) ==
    /\ reader = "copying"
    /\ pos' = pos + Given(p)
    /\ got' = got + Given(p)
    /\ reader' = "idle"
    /\ UNCHANGED <<sourceVars, goroutineVars, free, forward, cur, result>>
-----------------------------------------------------------------------------
InFlight == {forward[i] : i \in DOMAIN forward}
Returned == {free[i] : i \in DOMAIN free}

\* The goroutine never writes a block that is waiting or that Read is handing out
\* (the two buffers of the prefetchReader comment, lines 67-69).
NoSharedBuffer ==
    goroutine = "filling" =>
        /\ held \notin InFlight \union Returned
        /\ held = cur => reader = "receiving"

\* Read returns the bytes of the source in order, none skipped or repeated, though
\* blocks are handed over between two goroutines.
BytesInOrder ==
    (reader \in {"idle", "copying"} /\ cur # Nil /\ pos < length[cur]) => from[cur] + pos = got

\* Read reports an end only when every byte was handed out, and the source's error if
\* it had one: a short last block is not an error, an error is not an end.
StopsAtTheEnd ==
    result # "nil" =>
        /\ got = size
        /\ result = IF fails THEN "failed" ELSE "EOF"

\* pr.err is written by the goroutine and read by Read without a lock: never after
\* Read may have looked at it ("set before close(forward)", line 75).
ErrPublished == [][closed => UNCHANGED prErr]_prefetchVars
=============================================================================
