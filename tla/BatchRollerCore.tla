-------------------------- MODULE BatchRollerCore --------------------------
(***************************************************************************)
(* batchRollerCore of batchroller.go: the byte accumulator that BatchRoller*)
(* (pull) and BatchWriter (push) share.                                    *)
(*                                                                         *)
(* The accumulator's memory is modelled, since batches are slices of it:   *)
(* `cells' is the backing array, buf is cells[1..len], and the batch handed*)
(* out is cells[1..dataLen], whatever is written there later.  The array   *)
(* never has to be reallocated: a reallocation leaves the old one, and the *)
(* slices of it, as they are, so this is the worst case.  A byte is the    *)
(* position it has in the stream, and a checksum the position of the first *)
(* byte of its window.                                                     *)
(***************************************************************************)
EXTENDS Integers, Sequences

CONSTANTS Window, StreamLimit,   \* see RollingBatches
          BatchSize              \* WithBufferSize(n)

ASSUME BatchAssumption ==
    /\ Window \in Nat \ {0}
    /\ StreamLimit \in Nat
    /\ BatchSize \in Nat
    /\ BatchSize >= Window       \* "it must be at least window bytes"

VARIABLES fed,       \* bytes of the stream the core has been given
          cells,     \* the array behind buf
          len,       \* len(buf)
          carry,     \* trailing bytes of the last batch, still in buf
          prevN,     \* length of the last batch, 0 once dropped
          dataLen,   \* len(data), data being buf[:n]; 0 when nil
          sums,      \* the checksums of the current batch, <<>> when nil
          offset,    \* position of the first byte of the current batch
          eof, done, \* finish() was called; the last window was delivered
          err,       \* the reader failed
          state      \* what the last call of next() returned, "ready" before it

bufVars  == <<fed, cells, len>>
coreVars == <<bufVars, carry, prevN, dataLen, sums, offset, eof, done, err, state>>

Unset == -1

CoreInit ==
    /\ fed = 0
    /\ cells = [i \in 1..StreamLimit |-> Unset]
    /\ len = 0 /\ carry = 0 /\ prevN = 0
    /\ dataLen = 0 /\ sums = <<>> /\ offset = 0
    /\ eof = FALSE /\ done = FALSE /\ err = FALSE
    /\ state = "ready"

\* reset(): a new stream in the old array.
CoreReset ==
    /\ fed' = 0
    /\ len' = 0 /\ carry' = 0 /\ prevN' = 0
    /\ dataLen' = 0 /\ sums' = <<>> /\ offset' = 0
    /\ eof' = FALSE /\ done' = FALSE /\ err' = FALSE
    /\ state' = "ready"
    /\ UNCHANGED cells

\* The array with the next n bytes of the stream after its first l cells.
Appended(l, n) ==
    [i \in 1..StreamLimit |-> IF i \in (l + 1)..(l + n) THEN fed + i - (l + 1) ELSE cells[i]]

\* Mutant: the previous batch is dropped before new bytes come in, not by next().
FeedCompacts(n) ==
    /\ cells' = [i \in 1..StreamLimit |->
                   IF i \in (len - prevN + carry + 1)..(len - prevN + carry + n)
                   THEN fed + i - (len - prevN + carry + 1) ELSE cells[i]]
    /\ len' = len - prevN + carry + n
    /\ fed' = fed + n

\* feed(newBytes), and readTail then commitTail, for n new bytes.
Feed(n) ==
    /\ cells' = Appended(len, n)
    /\ len' = len + n
    /\ fed' = fed + n

-----------------------------------------------------------------------------
(* next() *)

\* Mutant: the whole batch is dropped, with its carry.
droppedAll == prevN

\* The prefix that does not carry over into the next batch.
dropped == IF prevN > 0 THEN prevN - carry ELSE 0

\* copy(buf, buf[k:]): the tail moves to the front, what was behind it stays.
Moved(k) == [i \in 1..StreamLimit |-> IF i <= len - k THEN cells[i + k] ELSE cells[i]]

\* next() ended: nothing will follow.
AgainDone ==
    /\ err \/ done
    /\ dataLen' = 0 /\ sums' = <<>> /\ offset' = 0
    /\ state' = "coreDone"
    /\ UNCHANGED <<bufVars, carry, prevN, eof, done, err>>

\* Mutant: a failed reader does not stop next().
DropPreviousUnlessDone ==
    /\ ~ done
    /\ cells' = Moved(dropped)
    /\ len' = len - dropped
    /\ UNCHANGED fed

\* The previous batch is given up, only now that the caller is back for more.
DropPrevious ==
    /\ ~ (err \/ done)
    /\ cells' = Moved(dropped)
    /\ len' = len - dropped
    /\ UNCHANGED fed

\* Mutant: a short batch waits for more bytes.
NeedMoreForBatch ==
    /\ DropPrevious
    /\ len' < BatchSize
    /\ ~ eof
    /\ prevN' = 0
    /\ offset' = offset + dropped
    /\ state' = "needMore"
    /\ UNCHANGED <<carry, dataLen, sums, eof, done, err>>

\* Fewer bytes than a window are left.
NeedMore ==
    /\ DropPrevious
    /\ len' < Window
    /\ ~ eof
    /\ prevN' = 0
    /\ offset' = offset + dropped
    /\ state' = "needMore"
    /\ UNCHANGED <<carry, dataLen, sums, eof, done, err>>

CoreDone ==
    /\ DropPrevious
    /\ len' < Window
    /\ eof
    /\ prevN' = 0
    /\ dataLen' = 0 /\ sums' = <<>> /\ offset' = 0
    /\ done' = TRUE
    /\ state' = "coreDone"
    /\ UNCHANGED <<carry, eof, err>>

\* min(len(buf), batchSize) bytes are handed out with the checksum of every
\* window in them; the last Window - 1 of them carry over, unless no byte follows.
Emit ==
    /\ DropPrevious
    /\ len' >= Window
    /\ LET n == IF len' <= BatchSize THEN len' ELSE BatchSize
       IN  /\ dataLen' = n
           /\ sums' = [i \in 1..(n - Window + 1) |-> cells'[i]]
           /\ done' = (eof /\ n = len')
           /\ carry' = IF eof /\ n = len' THEN 0 ELSE Window - 1
           /\ prevN' = n
    /\ offset' = offset + dropped
    /\ state' = "emitted"
    /\ UNCHANGED <<eof, err>>

CoreNext == AgainDone \/ NeedMore \/ CoreDone \/ Emit
-----------------------------------------------------------------------------
(* The batch a caller sees, and its abstraction *)

\* The accessors, as long as the last Next returned true.
batch ==
    IF state = "emitted"
    THEN [offset |-> offset, bytes |-> SubSeq(cells, 1, dataLen), sums |-> sums]
    ELSE [offset |-> 0, bytes |-> <<>>, sums |-> <<>>]

\* The first window not delivered starts after those of the last batch.
undelivered == fed - len + (IF prevN > 0 THEN prevN - (Window - 1) ELSE 0)
=============================================================================
