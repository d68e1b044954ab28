---------------------------- MODULE ChunkerCore ----------------------------
(***************************************************************************)
(* chunkerCore of chunker.go: the boundary queue, the lazy hashing and the *)
(* min/max selection that Chunker (pull) and ChunkWriter (push) share.     *)
(* This module holds the state and the steps; Chunker and ChunkWriter say  *)
(* when the steps are taken.                                               *)
(*                                                                         *)
(* cbuf is the interval of global offsets cbufBase .. consumed-1 of the    *)
(* stream.  The slice `bounds' is kept as two sets, since it is ascending: *)
(* `spent' is bounds[:bcur], which stays until compact drops it, and       *)
(* `bounds' is bounds[bcur:].  One call of next() takes several steps here *)
(* (Begin, an iteration of its hashing loop each, then one selection);     *)
(* `state' is "hashing" within a call and otherwise what the last call     *)
(* returned, "ready" before the first.                                     *)
(***************************************************************************)
EXTENDS ChunkPolicy

CONSTANTS BatchSize,   \* WithBatchSize(n)
          MaxInt       \* math.MaxInt, the largest Go int

ASSUME CoreAssumption ==
    /\ BatchSize \in Nat
    /\ BatchSize >= Window     \* WithBatchSize(window), the technical minimum
    /\ MaxInt \in Nat
    /\ Max <= MaxInt
    /\ StreamLimit < MaxInt

VARIABLES hits,        \* the stream: see ChunkPolicy
          cbufBase,    \* global offset of cbuf[0]
          chunkStart,  \* global offset of the first byte not in a chunk
          consumed,    \* global offset of the next byte to be buffered
          spent,       \* bounds[:bcur]
          bounds,      \* bounds[bcur:]
          hashedTo,    \* every window ending before it is dealt with
          eof, done,   \* finish() was called; the final chunk was emitted
          err,         \* the reader failed
          cur,         \* chunk, offset, sumv and contentDefined
          state        \* control: see above

streamVars == <<hits, cbufBase, consumed, eof, err>>
coreVars   == <<streamVars, chunkStart, spent, bounds, hashedTo, done, cur, state>>

Larger(a, b)  == IF a >= b THEN a ELSE b
Smaller(a, b) == IF a <= b THEN a ELSE b

\* A sum of two Go ints wraps around.
Wrap(x) == IF x > MaxInt THEN x - 2 * (MaxInt + 1) ELSE x

CoreInit ==
    /\ hits \in HitSets
    /\ cbufBase = 0 /\ chunkStart = 0 /\ consumed = 0
    /\ spent = {} /\ bounds = {} /\ hashedTo = 0
    /\ eof = FALSE /\ done = FALSE /\ err = FALSE
    /\ cur = NoChunk
    /\ state = "ready"

\* reset(): a new stream.
CoreReset ==
    /\ hits' \in HitSets
    /\ cbufBase' = 0 /\ chunkStart' = 0 /\ consumed' = 0
    /\ spent' = {} /\ bounds' = {} /\ hashedTo' = 0
    /\ eof' = FALSE /\ done' = FALSE /\ err' = FALSE
    /\ cur' = NoChunk
    /\ state' = "ready"

-----------------------------------------------------------------------------
(* Buffering *)

\* Mutant: the window ending at the first acceptable byte is skipped too.
SkipPastMin == Larger(hashedTo, Wrap(chunkStart + Min))

\* skipPreMin: where hashing resumes, past the windows too early for the chunk.
SkipPreMin == Larger(hashedTo, Wrap(chunkStart + Min - 1))

\* Mutant: only the queue is compacted.
CompactQueueOnly ==
    /\ hashedTo' = SkipPreMin
    /\ spent' = {}
    /\ UNCHANGED <<cbufBase, bounds>>

\* compact: drop what neither the chunk nor the next window needs, and the
\* boundaries already looked at.
Compact ==
    /\ hashedTo' = SkipPreMin
    /\ cbufBase' = Larger(cbufBase,
                          Larger(Smaller(chunkStart, SkipPreMin) - (Window - 1), 0))
    /\ spent' = {}
    /\ UNCHANGED bounds

\* feed(newBytes), for n new bytes.
Feed(n) == Compact /\ consumed' = consumed + n

-----------------------------------------------------------------------------
(* next(): the hashing loop *)

\* Mutants: the shortest chunk, and the longest, are one byte longer.
minByteLate == Wrap(chunkStart + Min)
maxByteLate == Wrap(chunkStart + Max)

minByte == Wrap(chunkStart + Min - 1)
maxByte == IF Max = MaxInt THEN MaxInt ELSE Wrap(chunkStart + Max - 1)

hashLimit == IF maxByte = MaxInt THEN MaxInt ELSE maxByte + 1

\* Mutant: a failed reader does not stop Next.
BeginUnlessDone ==
    /\ state' = IF done THEN "coreDone" ELSE "hashing"
    /\ cur' = IF done THEN NoChunk ELSE cur
    /\ UNCHANGED <<streamVars, chunkStart, spent, bounds, hashedTo, done>>

Begin ==
    /\ state' = IF err \/ done THEN "coreDone" ELSE "hashing"
    /\ cur' = IF err \/ done THEN NoChunk ELSE cur
    /\ UNCHANGED <<streamVars, chunkStart, spent, bounds, hashedTo, done>>

\* The loop goes on while the last element of the slice, looked at or not, is
\* too early for the chunk.
MoreToHash ==
    /\ hashedTo < hashLimit
    /\ ~ \E b \in spent \union bounds : b >= minByte

\* Mutant: the lead-in is a whole window.
BatchStartEarly(from) == from - Smaller(Window, from - cbufBase)

\* hashForward's batch: a lead-in of up to Window-1 bytes before `from', then
\* up to BatchSize bytes.
BatchStart(from) == from - Smaller(Window - 1, from - cbufBase)
BatchEnd(from)   == Smaller(Wrap(from + BatchSize), consumed)

\* Mutant: a batch of exactly one window is not hashed.
HashableStrict(from) == from < consumed /\ BatchEnd(from) - BatchStart(from) > Window

Hashable(from)   == from < consumed /\ BatchEnd(from) - BatchStart(from) >= Window

\* BatchBoundaries reports the hits among the windows inside buf.
BatchHits(from) ==
    {e \in hits : e >= BatchStart(from) + Window - 1 /\ e < BatchEnd(from)}

\* Mutant: a batch leaves its last window to the next one.
HashForwardRepeats ==
    /\ state = "hashing"
    /\ MoreToHash
    /\ Hashable(SkipPreMin)
    /\ bounds' = bounds \union BatchHits(SkipPreMin)
    /\ hashedTo' = BatchEnd(SkipPreMin) - 1
    /\ UNCHANGED <<streamVars, chunkStart, spent, done, cur, state>>

HashForward ==
    /\ state = "hashing"
    /\ MoreToHash
    /\ Hashable(SkipPreMin)
    /\ bounds' = bounds \union BatchHits(SkipPreMin)
    /\ hashedTo' = BatchEnd(SkipPreMin)
    /\ UNCHANGED <<streamVars, chunkStart, spent, done, cur, state>>

-----------------------------------------------------------------------------
(* next(): the selection, once the loop is left *)

\* The loop is left, by its condition or by a hashForward that returns false
\* after skipPreMin.
LoopExit ==
    /\ state = "hashing"
    /\ MoreToHash => ~ Hashable(SkipPreMin)
    /\ hashedTo' = IF MoreToHash THEN SkipPreMin ELSE hashedTo

tooShort == {b \in bounds : b < minByte}

InRange(b) == minByte <= b /\ b <= maxByte

\* The checksum of the window ending at e, 0 if its bytes are not all in cbuf.
windowSum(e) == IF e - Window + 1 < cbufBase THEN NoSum ELSE e

\* emit(e, cd): the slice cbuf[lo : lo+len] panics when it is out of range.
sliceEnd(e) == chunkStart - cbufBase + Wrap(e - chunkStart + 1)

Emit(e, cd) ==
    IF sliceEnd(e) \in (chunkStart - cbufBase)..(consumed - cbufBase)
    THEN /\ cur' = [offset |-> chunkStart, end |-> e + 1,
                    sum |-> windowSum(e), contentDefined |-> cd]
         /\ chunkStart' = e + 1
         /\ state' = "emitted"
    ELSE /\ state' = "panic"
         /\ UNCHANGED <<cur, chunkStart>>

\* The first boundary in range ends the chunk.
EmitBoundary ==
    /\ LoopExit
    /\ \E e \in bounds :
        /\ InRange(e)
        /\ \A b \in bounds : b < e => b < minByte
        /\ Emit(e, TRUE)
        /\ spent' = spent \union tooShort \union {e}
        /\ bounds' = bounds \ (tooShort \union {e})
    /\ UNCHANGED <<streamVars, done>>

\* What follows when no boundary is in range: those too short are passed over.
NoBoundary ==
    /\ LoopExit
    /\ ~ \E b \in bounds : InRange(b)
    /\ spent' = spent \union tooShort
    /\ bounds' = bounds \ tooShort

EmitForced ==
    /\ NoBoundary
    /\ consumed - 1 >= maxByte
    /\ Emit(maxByte, FALSE)
    /\ UNCHANGED <<streamVars, done>>

EmitFinal ==
    /\ NoBoundary
    /\ consumed - 1 < maxByte
    /\ eof
    /\ chunkStart < consumed
    /\ done' = TRUE
    /\ Emit(consumed - 1, FALSE)
    /\ UNCHANGED streamVars

CoreDone ==
    /\ NoBoundary
    /\ consumed - 1 < maxByte
    /\ eof
    /\ chunkStart >= consumed
    /\ done' = TRUE
    /\ cur' = NoChunk
    /\ state' = "coreDone"
    /\ UNCHANGED <<streamVars, chunkStart>>

NeedMore ==
    /\ NoBoundary
    /\ consumed - 1 < maxByte
    /\ ~eof
    /\ state' = "needMore"
    /\ UNCHANGED <<streamVars, chunkStart, done, cur>>

CoreStep ==
    \/ HashForward
    \/ EmitBoundary
    \/ EmitForced
    \/ EmitFinal
    \/ CoreDone
    \/ NeedMore
-----------------------------------------------------------------------------
(* Properties of the core, whoever drives it *)

\* Every chunk is cut by the policy: it ends at the first admissible boundary
\* of the whole stream after its start, whatever batches the stream was hashed
\* in, says rightly whether the mask chose the cut, and carries the checksum
\* of the window ending there; only the last chunk of a finished stream may
\* end without a cut (the rule of chunker.go's type comment, lines 381-385).
CutsFollowPolicy ==
    cur # NoChunk =>
        LET s == cur.offset
            e == cur.end - 1
        IN  /\ cur = Chunk(s, e, Accepts(hits, s, e))
            /\ \/ CutAt(hits, s, e)
               \/ done /\ cur.end = consumed /\ e >= s /\ NoCut(hits, s, cur.end)

\* The bytes that the next window and the checksum of the next cut reach back
\* to have not been dropped (the cbufBase comment, lines 47-51).
LeadInKept ==
    \/ cbufBase = 0
    \/ cbufBase + Window - 1 <= Smaller(chunkStart, hashedTo)

\* Nothing the chunk could end at is missing from the queue (the hashedTo
\* comment, lines 60-65), although windows are skipped before it.
QueueComplete ==
    \A e \in hits :
        (chunkStart <= e /\ chunkStart + Min - 1 <= e /\ e < hashedTo) => e \in bounds

\* Batches overlap by a lead-in, yet every boundary is appended once and in
\* ascending order: the scan of next() stops at the first one past max.
QueueAscends ==
    [][HashForward =>
          \A e \in BatchHits(SkipPreMin), b \in spent \union bounds : b < e]_coreVars

\* Next says "nothing yet" only if the buffered bytes fix no cut (the ChunkWriter
\* comment of rollinghash.go, lines 207-210).
NeedMoreMeansNoCut ==
    [][(state = "hashing" /\ state' = "needMore") =>
          NoCut(hits, chunkStart, consumed)]_coreVars

\* A cut computed from chunkStart and Max never leaves the buffer ("no forced
\* cut; avoid overflow", chunker.go line 266).
NeverPanics == state # "panic"

\* A call of next() returns.
NextReturns == state = "hashing" ~> state # "hashing"
=============================================================================
