--------------------------- MODULE ChunkerProofs ---------------------------
(***************************************************************************)
(* Chunker implements content-defined chunking whatever its options, the   *)
(* default Min = 0 included: a fill is hashed in one batch, so the loop of *)
(* next() never stops at a boundary it has used up while bytes are left.   *)
(***************************************************************************)
EXTENDS ChunkerBytes, ChunkerCoreProofs

\* How the reader fills the accumulator.
Filling ==
    /\ filled \in 0..(readSize - 1)
    /\ consumed + filled <= StreamLimit
    /\ state # "reading" => filled = 0
    /\ ~eof /\ ~err => consumed = 0 \/ consumed >= BatchSize
    /\ err => ~eof /\ state \in {"failed", "coreDone"}
    /\ state \in {"ready", "hashing", "emitted", "needMore", "coreDone", "reading", "failed"}

\* Between two fills everything is hashed and the queue is empty, ...
Drained ==
    state \in {"needMore", "reading"} =>
        /\ bounds = {}
        /\ hashedTo >= consumed
        /\ ~eof /\ ~err /\ ~done
        /\ consumed - chunkStart <= Max - 1

\* ... and then a single batch is left to hash.
OneBatch == spent \union bounds = {} => consumed - hashedTo <= BatchSize

Compacted ==
    state = "reading" => spent = {} /\ consumed - cbufBase <= (Max - 1) + (Window - 1)

IInv ==
    /\ CoreInv
    /\ HashedAhead
    /\ Filling
    /\ Drained
    /\ OneBatch
    /\ Compacted
    /\ BufferBounded

LEMMA ReadSize == readSize = BatchSize /\ BatchSize \in Nat \ {0} /\ Window \in Nat \ {0}
                  /\ BatchSize >= Window
  BY PolicyAssumption, CoreAssumption DEF readSize, Larger

-----------------------------------------------------------------------------
\* One batch takes hashing to the end of the buffer.
LEMMA HashForwardStep ==
    ASSUME IInv, HashForward, filled' = filled
    PROVE  IInv'
<1>1. CoreType /\ LeadInKept /\ Hashable(SkipPreMin)
  BY DEF IInv, CoreInv, HashForward
<1>2. /\ SkipPreMin \in Nat /\ SkipPreMin >= hashedTo /\ SkipPreMin < consumed
      /\ hashedTo \in Nat /\ consumed \in Nat
  BY <1>1, Numbers DEF Hashable, CoreType
<1>3. spent \union bounds = {}
  BY <1>2 DEF IInv, HashedAhead
<1>4. consumed - hashedTo <= BatchSize
  BY <1>3 DEF IInv, OneBatch
<1>5. /\ BatchEnd(SkipPreMin) \in Nat
      /\ BatchEnd(SkipPreMin) <= consumed
      /\ BatchEnd(SkipPreMin) = consumed \/ BatchEnd(SkipPreMin) = SkipPreMin + BatchSize
  BY <1>1, Batch
<1>6. hashedTo' = consumed
  <2>1. hashedTo' = BatchEnd(SkipPreMin)
    BY DEF HashForward
  <2> HIDE DEF SkipPreMin, BatchEnd
  <2> QED
    BY <2>1, <1>2, <1>4, <1>5, ReadSize
<1>7. UNCHANGED <<filled, cbufBase, consumed, eof, err, chunkStart, state>> /\ state = "hashing"
  BY <1>1 DEF HashForward, streamVars
<1>8. CoreInv'
  BY HashForwardCore DEF IInv
<1>9. HashedAhead' /\ OneBatch'
  BY <1>2, <1>6, <1>7, ReadSize DEF HashedAhead, OneBatch
<1>10. Filling' /\ Drained' /\ Compacted' /\ BufferBounded'
  BY <1>7 DEF IInv, Filling, Drained, Compacted, BufferBounded, readSize
<1> QED
  BY <1>8, <1>9, <1>10 DEF IInv
\* A selection changes neither the buffer nor what is hashed, apart from skipping.
LEMMA SelectStep ==
    ASSUME IInv, EmitBoundary \/ EmitForced \/ EmitFinal \/ CoreDone \/ NeedMore,
           filled' = filled
    PROVE  IInv'
<1>1. CoreType /\ HashedAhead /\ CoreInv
  BY DEF IInv, CoreInv
<1>2. /\ UNCHANGED <<hits, cbufBase, consumed, eof, err, filled>> /\ state = "hashing"
      /\ filled = 0
  BY DEF EmitBoundary, EmitForced, EmitFinal, CoreDone, NeedMore, NoBoundary, LoopExit,
         streamVars, IInv, Filling
<1>3. /\ CoreInv' /\ hashedTo' >= hashedTo
      /\ spent' \union bounds' = spent \union bounds
  BY <1>1, EmitBoundaryCore, EmitForcedCore, EmitFinalCore, CoreDoneCore, NeedMoreCore
<1>4. hashedTo' \in Nat /\ hashedTo \in Nat /\ consumed \in Nat
  BY <1>1, <1>3 DEF CoreInv, CoreType
<1>5. HashedAhead'
  BY <1>1, <1>2, <1>3, <1>4 DEF HashedAhead
<1>6. OneBatch'
  <2>1. spent' \union bounds' = {} => consumed - hashedTo <= BatchSize
    BY <1>3 DEF IInv, OneBatch
  <2>2. consumed' = consumed /\ hashedTo' >= hashedTo
    BY <1>2, <1>3
  <2> DEFINE h == hashedTo'
  <2>3. h \in Nat /\ h >= hashedTo
    BY <2>2, <1>4
  <2> HIDE DEF h
  <2>4. consumed - hashedTo <= BatchSize => consumed - h <= BatchSize
    BY <2>3, <1>4, ReadSize
  <2> QED
    BY <2>1, <2>2, <2>4 DEF OneBatch, h
<1>7. state' \in {"emitted", "coreDone", "needMore"}
  <2>1. state' \in {"emitted", "coreDone", "needMore", "panic"}
    BY DEF EmitBoundary, EmitForced, EmitFinal, CoreDone, NeedMore, Emit
  <2> QED
    BY <2>1, <1>3 DEF CoreInv, Control
<1>8. Filling' /\ Compacted' /\ BufferBounded'
  BY <1>2, <1>7 DEF IInv, Filling, Compacted, BufferBounded, readSize, CoreInv, Control
<1>9. Drained'
  <2>1. CASE NeedMore
    <3>1. /\ hashedTo' >= consumed \/ consumed < Window
          /\ consumed <= maxByte /\ NoBoundary
          /\ ~eof /\ ~err /\ ~done /\ UNCHANGED <<chunkStart, done>>
      BY <2>1, <1>1, NeedMoreCore
         DEF NeedMore, CoreInv, Control, NoBoundary, LoopExit
    <3>2. hashedTo' >= consumed
      <4>1. CASE consumed < Window
        <5>1. consumed = 0
          BY <4>1, <3>1, <1>4, ReadSize DEF IInv, Filling
        <5> QED
          BY <5>1, <1>4
      <4> QED
        BY <4>1, <3>1
    <3>3. /\ minByte \in Int /\ maxByte \in Nat
          /\ maxByte = IF Max = MaxInt THEN MaxInt ELSE chunkStart + Max - 1
      BY <1>1, Numbers
    <3>4. bounds' = {}
      <4>1. \A b \in bounds : b \in Nat /\ b < consumed
        BY <1>1 DEF CoreInv, CoreType, QueueSound
      <4>2. \A b \in bounds : b < minByte
        BY <4>1, <3>1, <3>3, <1>4 DEF NoBoundary, InRange
      <4> QED
        BY <4>2, <3>1 DEF NoBoundary, tooShort
    <3>5. consumed - chunkStart <= Max - 1
      BY <1>1, <3>1, <3>3, PolicyAssumption, CoreAssumption DEF CoreType
    <3> QED
      BY <3>1, <3>2, <3>4, <3>5, <1>2 DEF Drained
  <2>2. CASE ~ NeedMore
    <3>1. state' \in {"emitted", "coreDone", "panic"}
      BY <2>2 DEF EmitBoundary, EmitForced, EmitFinal, CoreDone, Emit
    <3> QED
      BY <3>1 DEF Drained
  <2> QED
    BY <2>1, <2>2
<1> QED
  BY <1>3, <1>5, <1>6, <1>8, <1>9 DEF IInv

LEMMA StartFillStep ==
    ASSUME IInv, StartFill
    PROVE  IInv'
<1>1. /\ CoreInv /\ CoreType /\ state = "needMore" /\ Compact /\ filled' = 0
      /\ state' = "reading"
      /\ UNCHANGED <<hits, chunkStart, consumed, eof, done, err, cur>>
  BY DEF IInv, CoreInv, StartFill
<1>2. /\ bounds = {} /\ hashedTo >= consumed /\ ~eof /\ ~err /\ ~done
      /\ consumed - chunkStart <= Max - 1
  BY <1>1 DEF IInv, Drained
<1>3. CoreInv' /\ spent' = {} /\ bounds' = bounds /\ hashedTo' = SkipPreMin
  <2>1. 0 \in Nat /\ consumed + 0 <= StreamLimit /\ consumed' = consumed + 0 /\ eof' \in BOOLEAN
    BY <1>1 DEF CoreType
  <2> QED
    BY <2>1, <1>1, <1>2, CompactCore
<1>4. SkipPreMin \in Nat /\ SkipPreMin >= hashedTo
  BY <1>1, Numbers
<1>5. hashedTo' >= consumed /\ hashedTo' \in Nat
  BY <1>1, <1>2, <1>3, <1>4 DEF CoreType
<1>6. cbufBase' \in Nat /\ cbufBase' >= chunkStart - (Window - 1)
  <2>1. Smaller(chunkStart, SkipPreMin) = chunkStart
    BY <1>1, <1>2, <1>4 DEF CoreType, Smaller
  <2>2. cbufBase' = Larger(cbufBase, Larger(chunkStart - (Window - 1), 0))
    BY <1>1, <2>1 DEF Compact
  <2> QED
    BY <2>2, <1>1, PolicyAssumption DEF CoreType, Larger
<1>7. /\ consumed' = consumed /\ consumed \in Nat
      /\ consumed - cbufBase' <= (Max - 1) + (Window - 1)
  <2>1. consumed \in Nat /\ chunkStart \in Nat /\ Max \in Nat /\ Window \in Nat
    BY <1>1, PolicyAssumption DEF CoreType
  <2>2. consumed' = consumed /\ consumed - chunkStart <= Max - 1
    BY <1>1, <1>2
  <2> DEFINE b == cbufBase'
  <2>3. b \in Nat /\ b >= chunkStart - (Window - 1)
    BY <1>6
  <2> HIDE DEF b
  <2>4. consumed - b <= (Max - 1) + (Window - 1)
    BY <2>1, <2>2, <2>3
  <2> QED
    BY <2>1, <2>2, <2>4 DEF b
<1>8. HashedAhead' /\ OneBatch'
  BY <1>1, <1>2, <1>3, <1>5, ReadSize DEF HashedAhead, OneBatch, CoreType
<1>9. Filling'
  BY <1>1, <1>2, ReadSize DEF IInv, Filling, CoreType, readSize
<1>10. Drained' /\ Compacted'
  BY <1>1, <1>2, <1>3, <1>5, <1>7 DEF Drained, Compacted
<1>11. BufferBounded'
  <2>1. readSize' = readSize
    BY DEF readSize
  <2> DEFINE b == cbufBase'
  <2>2. b \in Nat /\ consumed - b <= (Max - 1) + (Window - 1) /\ consumed \in Nat
    BY <1>6, <1>7
  <2> HIDE DEF b
  <2>3. consumed + 0 - b <= (Max - 1) + (Window - 1) + readSize
    BY <2>2, ReadSize, PolicyAssumption
  <2>4. filled' = 0 /\ consumed' = consumed
    BY <1>1
  <2> QED
    BY <2>1, <2>3, <2>4 DEF BufferBounded, b
<1> QED
  BY <1>3, <1>8, <1>9, <1>10, <1>11 DEF IInv

\* Fresh bytes after a compact leave the core's invariant as it is.
LEMMA CommitStep ==
    ASSUME IInv, NEW m \in Nat, CommitTail(m), consumed + filled + m <= StreamLimit,
           eof' \in BOOLEAN, err' \in BOOLEAN, ~ (eof' /\ err'),
           ~eof' /\ ~err' => filled + m = readSize,
           state' = IF err' THEN "failed" ELSE "hashing"
    PROVE  IInv' /\ consumed' = consumed + filled + m
<1>1. /\ CoreInv /\ CoreType /\ state = "reading" /\ filled' = 0
      /\ consumed' = consumed + filled + m
      /\ UNCHANGED <<hits, cbufBase, chunkStart, spent, bounds, hashedTo, done, cur>>
      /\ filled + m <= readSize /\ filled \in Nat
  BY ReadSize DEF IInv, CoreInv, CommitTail, Filling
<1>2. /\ bounds = {} /\ spent = {} /\ hashedTo >= consumed /\ ~done
      /\ consumed - cbufBase <= (Max - 1) + (Window - 1)
  BY <1>1 DEF IInv, Drained, Compacted
<1>3. consumed' \in Nat /\ consumed' >= consumed /\ consumed' <= StreamLimit
      /\ consumed' - consumed <= BatchSize
  BY <1>1, ReadSize DEF CoreType
<1>4. CoreType'
  BY <1>1, <1>3, PolicyAssumption DEF CoreType
<1>5. LeadInKept' /\ NotLeftBehind' /\ QueueComplete'
  BY <1>1 DEF CoreInv, LeadInKept, NotLeftBehind, QueueComplete
<1>6. QueueSound'
  BY <1>1, <1>2 DEF QueueSound
<1>7. CutsFollowPolicy' /\ Control'
  BY <1>1, <1>2 DEF CoreInv, CutsFollowPolicy, Control
<1>8. HashedAhead' /\ OneBatch'
  BY <1>1, <1>2, <1>3, ReadSize DEF HashedAhead, OneBatch, CoreType
<1>9. Filling'
  <2>1. ~eof' /\ ~err' => consumed' >= BatchSize
    BY <1>1, ReadSize DEF CoreType
  <2> QED
    BY <2>1, <1>1, <1>3, ReadSize DEF Filling, readSize
<1>10. Drained' /\ Compacted'
  BY DEF Drained, Compacted
<1>11. BufferBounded'
  <2>1. readSize' = readSize
    BY DEF readSize
  <2> QED
    BY <2>1, <1>1, <1>2, <1>3, ReadSize, PolicyAssumption DEF BufferBounded, CoreType
<1>12. CoreInv'
  BY <1>4, <1>5, <1>6, <1>7 DEF CoreInv
<1> QED
  BY <1>1, <1>8, <1>9, <1>10, <1>11, <1>12 DEF IInv

\* Read keeps the invariant and only adds bytes or ends the stream.
LEMMA ReadStep ==
    ASSUME IInv, Read
    PROVE  /\ IInv'
           /\ consumed' \in consumed..StreamLimit /\ eof' \in BOOLEAN
           /\ ~eof /\ UNCHANGED <<hits, chunkStart, cur>>
<1>1. PICK m \in 0..((StreamLimit - consumed) - filled) :
        \/ m > 0 /\ ReadSome(m)
        \/ m > 0 /\ ReadFull(m)
        \/ ReadEOF(m)
        \/ ReadError(m)
  BY DEF Read
<1>2. /\ CoreInv /\ CoreType /\ state = "reading" /\ consumed \in Nat /\ filled \in Nat
      /\ ~eof /\ ~err /\ StreamLimit \in Nat /\ eof \in BOOLEAN /\ err \in BOOLEAN
  BY <1>1, ReadSize, PolicyAssumption
     DEF IInv, CoreInv, CoreType, Filling, Drained, ReadSome, ReadFull, ReadEOF, ReadError, CommitTail
<1>3. m \in Nat /\ consumed + filled + m <= StreamLimit
  BY <1>2
<1>4. CASE ReadSome(m)
  <2>1. /\ filled' = filled + m /\ filled + m < readSize
        /\ UNCHANGED <<hits, cbufBase, chunkStart, consumed, spent, bounds, hashedTo, eof, done,
                       err, cur, state>>
    BY <1>4 DEF ReadSome, coreVars, streamVars
  <2>2. CoreInv' /\ HashedAhead' /\ OneBatch' /\ Drained' /\ Compacted'
    BY <2>1 DEF IInv, CoreInv, CoreType, LeadInKept, NotLeftBehind, QueueSound, QueueComplete,
                CutsFollowPolicy, Control, HashedAhead, OneBatch, Drained, Compacted
  <2>3. Filling'
    BY <2>1, <1>2, <1>3, ReadSize DEF IInv, Filling, readSize
  <2>4. BufferBounded'
    <3>1. readSize' = readSize
      BY DEF readSize
    <3>2. consumed - cbufBase <= (Max - 1) + (Window - 1)
      BY <1>2 DEF IInv, Compacted
    <3> QED
      BY <3>1, <3>2, <2>1, <1>2, <1>3, ReadSize, PolicyAssumption DEF BufferBounded, CoreType
  <2> QED
    BY <2>1, <2>2, <2>3, <2>4, <1>2 DEF IInv, CoreType
<1>5. CASE ReadFull(m) \/ ReadEOF(m) \/ ReadError(m)
  <2>1. /\ CommitTail(m)
        /\ eof' \in BOOLEAN /\ err' \in BOOLEAN /\ ~ (eof' /\ err')
        /\ ~eof' /\ ~err' => filled + m = readSize
        /\ state' = IF err' THEN "failed" ELSE "hashing"
    <3>1. CASE ReadFull(m)
      BY <3>1, <1>2, Zenon DEF ReadFull
    <3>2. CASE ReadEOF(m)
      BY <3>2, <1>2, Zenon DEF ReadEOF
    <3>3. CASE ReadError(m)
      BY <3>3, <1>2, Zenon DEF ReadError
    <3> QED
      BY <1>5, <3>1, <3>2, <3>3
  <2>2. IInv' /\ consumed' = consumed + filled + m
    BY <2>1, <1>3, CommitStep
  <2>3. consumed' \in consumed..StreamLimit
    BY <2>2, <1>2, <1>3
  <2> QED
    BY <2>1, <2>2, <2>3, <1>2 DEF CommitTail
<1> QED
  BY <1>1, <1>4, <1>5
-----------------------------------------------------------------------------
LEMMA InitIInv == ASSUME Init PROVE IInv
<1>1. CoreInv /\ HashedAhead
  BY InitCore DEF Init
<1>2. Filling
  BY ReadSize, PolicyAssumption DEF Init, CoreInit, Filling
<1>3. Drained /\ OneBatch /\ Compacted
  BY ReadSize DEF Init, CoreInit, Drained, OneBatch, Compacted
<1>4. BufferBounded
  BY ReadSize, PolicyAssumption DEF Init, CoreInit, BufferBounded
<1> QED
  BY <1>1, <1>2, <1>3, <1>4 DEF IInv

LEMMA ResetStep == ASSUME Reset PROVE IInv'
<1>1. CoreInv' /\ HashedAhead'
  BY ResetCore DEF Reset
<1>2. Filling'
  BY ReadSize, PolicyAssumption DEF Reset, CoreReset, Filling, readSize
<1>3. Drained' /\ OneBatch' /\ Compacted'
  BY ReadSize DEF Reset, CoreReset, Drained, OneBatch, Compacted
<1>4. BufferBounded'
  <2>1. consumed' = 0 /\ filled' = 0 /\ cbufBase' = 0 /\ readSize' = readSize
    BY DEF Reset, CoreReset, readSize
  <2>2. 0 + 0 - 0 <= (Max - 1) + (Window - 1) + readSize
    BY ReadSize, PolicyAssumption
  <2> QED
    BY <2>1, <2>2 DEF BufferBounded
<1> QED
  BY <1>1, <1>2, <1>3, <1>4 DEF IInv

LEMMA CallNextStep == ASSUME IInv, CallNext PROVE IInv'
<1>1. CoreInv' /\ HashedAhead'
  BY BeginCore DEF CallNext, IInv
<1>2. /\ UNCHANGED <<cbufBase, consumed, eof, err, filled, spent, bounds, hashedTo>>
      /\ state' = IF err \/ done THEN "coreDone" ELSE "hashing"
      /\ state # "reading"
  BY DEF CallNext, Begin, streamVars, Idle
<1>3. Filling'
  BY <1>2 DEF IInv, Filling, readSize
<1>4. Drained' /\ OneBatch' /\ Compacted' /\ BufferBounded'
  BY <1>2 DEF IInv, Drained, OneBatch, Compacted, BufferBounded, readSize
<1> QED
  BY <1>1, <1>3, <1>4 DEF IInv

LEMMA InCoreStep == ASSUME IInv, InCore PROVE IInv'
  BY HashForwardStep, SelectStep DEF InCore, CoreStep

LEMMA InductiveStep == ASSUME IInv, [Next]_vars PROVE IInv'
<1>1. CASE UNCHANGED vars
  BY <1>1 DEF vars, coreVars, streamVars, IInv, CoreInv, CoreType, LeadInKept, NotLeftBehind,
              QueueSound, QueueComplete, CutsFollowPolicy, Control, HashedAhead, Filling,
              Drained, OneBatch, Compacted, BufferBounded, readSize
<1> QED
  BY <1>1, CallNextStep, InCoreStep, StartFillStep, ReadStep, ResetStep DEF Next

\* IInv holds in every reachable state.
THEOREM Invariance == Spec => []IInv
<1>1. Init => IInv
  BY InitIInv
<1>2. IInv /\ [Next]_vars => IInv'
  BY InductiveStep
<1> QED
  BY <1>1, <1>2, PTL DEF Spec

\* Next never panics, and a fill never asks Read for more than a block.
THEOREM TypeCorrect == Spec => []TypeOK
<1>1. IInv => TypeOK
  BY PolicyAssumption DEF IInv, CoreInv, CoreType, Filling, TypeOK
<1> QED
  BY <1>1, Invariance, PTL

\* Every chunk emitted is the one the policy gives, with Min = 0 too.
THEOREM ChunksFollowPolicy == Spec => []CutsFollowPolicy
<1>1. IInv => CutsFollowPolicy
  BY DEF IInv, CoreInv
<1> QED
  BY <1>1, Invariance, PTL

\* However long the stream, the accumulator never outgrows a chunk, a window
\* and a block.
THEOREM Bounded == Spec => []BufferBounded
<1>1. IInv => BufferBounded
  BY DEF IInv
<1> QED
  BY <1>1, Invariance, PTL

\* The lead-in of the next window, and every boundary that may still matter,
\* are always in the buffers.
THEOREM NothingLost == Spec => [](LeadInKept /\ QueueComplete)
<1>1. IInv => LeadInKept /\ QueueComplete
  BY DEF IInv, CoreInv
<1> QED
  BY <1>1, Invariance, PTL

\* fillCore is called only when the bytes buffered fix no cut.
THEOREM NothingYet == Spec => NeedMoreMeansNoCut
<1>1. IInv /\ [Next]_vars =>
        [(state = "hashing" /\ state' = "needMore") => NoCut(hits, chunkStart, consumed)]_coreVars
  <2> SUFFICES ASSUME IInv, [Next]_vars, state = "hashing", state' = "needMore"
               PROVE  NoCut(hits, chunkStart, consumed)
    OBVIOUS
  <2>1. NeedMore
    BY DEF Next, vars, coreVars, CallNext, InCore, StartFill, Read, ReadSome, ReadFull, ReadEOF,
           ReadError, CommitTail, Reset, Idle, CoreStep, HashForward, EmitBoundary, EmitForced,
           EmitFinal, CoreDone, Emit
  <2> QED
    BY <2>1, NeedMoreCore DEF IInv
<1> QED
  BY <1>1, Invariance, PTL DEF Spec, NeedMoreMeansNoCut

\* Batches overlap, but their boundaries are appended once and in order.
THEOREM BoundariesAscend == Spec => QueueAscends
<1>1. IInv /\ [Next]_vars =>
        [HashForward => \A e \in BatchHits(SkipPreMin), b \in spent \union bounds : b < e]_coreVars
  <2> SUFFICES ASSUME IInv, HashForward,
                      NEW e \in BatchHits(SkipPreMin), NEW b \in spent \union bounds
               PROVE  b < e
    OBVIOUS
  <2>1. CoreType /\ LeadInKept /\ QueueSound
    BY DEF IInv, CoreInv
  <2>2. e \in hits /\ Hashable(SkipPreMin)
    BY DEF BatchHits, HashForward
  <2>3. SkipPreMin <= e
    BY <2>1, <2>2, Batch
  <2>4. hashedTo <= SkipPreMin /\ SkipPreMin \in Nat
    BY <2>1, Numbers
  <2>5. b < hashedTo /\ b \in Nat /\ e \in Nat /\ hashedTo \in Nat
    BY <2>1, <2>2, HitOffsets DEF QueueSound, CoreType
  <2> QED
    BY <2>3, <2>4, <2>5
<1> QED
  BY <1>1, Invariance, PTL DEF Spec, QueueAscends

-----------------------------------------------------------------------------
\* The policy means the same in the abstract specification.
LEMMA SameNames ==
    /\ CDC!HitSets = HitSets /\ CDC!NoChunk = NoChunk
    /\ \A s, e, cd : CDC!Chunk(s, e, cd) = Chunk(s, e, cd)
    /\ \A S, s, e : CDC!Accepts(S, s, e) = Accepts(S, s, e)
    /\ \A S, s, n : CDC!NoCut(S, s, n) = NoCut(S, s, n)
    /\ \A S, s, e : CDC!CutAt(S, s, e) = CutAt(S, s, e)
  BY DEF CDC!HitSets, CDC!NoChunk, CDC!NoSum, CDC!SumAt, CDC!Chunk, CDC!Accepts, CDC!ForcedAt,
         CDC!NoCut, CDC!CutAt, HitSets, NoChunk, NoSum, SumAt, Chunk, Accepts, ForcedAt,
         NoCut, CutAt

\* Chunker implements content-defined chunking: Read supplies bytes and the end
\* of the stream, a selection is a cut, the final chunk or the end, and after a
\* read error nothing more comes.
THEOREM Refinement == Spec => ImplementsContentChunking
<1>1. Init => CDC!Init
  BY SameNames DEF Init, CoreInit, CDC!Init
<1>2. IInv /\ [Next]_vars => [CDC!Next]_(CDC!vars)
  <2> SUFFICES ASSUME IInv, [Next]_vars PROVE CDC!Next \/ UNCHANGED CDC!vars
    OBVIOUS
  <2> USE DEF CDC!vars
  <2>0. CoreInv /\ HashedAhead /\ CoreType
    BY DEF IInv, CoreInv
  <2>1. CASE CallNext
    <3>1. UNCHANGED <<hits, consumed, eof, chunkStart>>
      BY <2>1 DEF CallNext, Begin, streamVars
    <3>2. CASE done
      <4>1. eof /\ chunkStart = consumed /\ cur' = NoChunk
        BY <2>1, <3>2, <2>0 DEF CoreInv, Control, CallNext, Begin
      <4>2. CDC!Exhausted
        BY <3>1, <4>1, SameNames DEF CDC!Exhausted
      <4> QED
        BY <4>2 DEF CDC!Next
    <3>3. CASE err
      <4>1. ~eof /\ cur' = NoChunk
        BY <2>1, <3>3 DEF IInv, Filling, CallNext, Begin
      <4>2. CDC!Abandon
        BY <3>1, <4>1, SameNames DEF CDC!Abandon
      <4> QED
        BY <4>2 DEF CDC!Next
    <3>4. CASE ~done /\ ~err
      BY <2>1, <3>1, <3>4 DEF CallNext, Begin
    <3> QED
      BY <3>2, <3>3, <3>4
  <2>2. CASE InCore
    <3>1. UNCHANGED <<hits, consumed, eof>>
      BY <2>2 DEF InCore, CoreStep, HashForward, EmitBoundary, EmitForced, EmitFinal,
                  CoreDone, NeedMore, streamVars
    <3>2. ASSUME NEW e \in chunkStart..(consumed - 1),
                 CutAt(hits, chunkStart, e),
                 cur' = Chunk(chunkStart, e, Accepts(hits, chunkStart, e)),
                 chunkStart' = e + 1
          PROVE  CDC!Next
      <4>1. /\ CDC!CutAt(hits, chunkStart, e)
            /\ cur' = CDC!Chunk(chunkStart, e, CDC!Accepts(hits, chunkStart, e))
        BY <3>2, SameNames
      <4>2. CDC!Cut
        BY <3>1, <3>2, <4>1 DEF CDC!Cut
      <4> QED
        BY <4>2 DEF CDC!Next
    <3>3. CASE HashForward
      BY <3>1, <3>3 DEF HashForward
    <3>4. CASE EmitBoundary
      BY <3>2, <3>4, <2>0, EmitBoundaryCore
    <3>5. CASE EmitForced
      BY <3>2, <3>5, <2>0, EmitForcedCore
    <3>6. CASE EmitFinal
      <4>1. /\ NoCut(hits, chunkStart, consumed)
            /\ cur' = Chunk(chunkStart, consumed - 1, FALSE)
            /\ chunkStart' = consumed /\ eof /\ chunkStart < consumed
        BY <3>6, <2>0, EmitFinalCore DEF EmitFinal
      <4>2. CDC!Final
        BY <3>1, <4>1, SameNames DEF CDC!Final
      <4> QED
        BY <4>2 DEF CDC!Next
    <3>7. CASE CoreDone
      <4>1. chunkStart = consumed /\ eof /\ cur' = NoChunk /\ chunkStart' = chunkStart
        BY <3>7, <2>0, CoreDoneCore DEF CoreDone
      <4>2. CDC!Exhausted
        BY <3>1, <4>1, SameNames DEF CDC!Exhausted
      <4> QED
        BY <4>2 DEF CDC!Next
    <3>8. CASE NeedMore
      BY <3>1, <3>8 DEF NeedMore
    <3> QED
      BY <2>2, <3>3, <3>4, <3>5, <3>6, <3>7, <3>8 DEF InCore, CoreStep
  <2>3. CASE StartFill
    BY <2>3 DEF StartFill
  <2>4. CASE Read
    <3>1. CDC!Supply
      BY <2>4, ReadStep DEF CDC!Supply
    <3> QED
      BY <3>1 DEF CDC!Next
  <2>5. CASE Reset
    <3>1. CDC!Reset
      BY <2>5, SameNames DEF Reset, CoreReset, CDC!Reset
    <3> QED
      BY <3>1 DEF CDC!Next
  <2>6. CASE UNCHANGED vars
    BY <2>6 DEF vars, coreVars, streamVars
  <2> QED
    BY <2>1, <2>2, <2>3, <2>4, <2>5, <2>6 DEF Next
<1> QED
  BY <1>1, <1>2, Invariance, PTL DEF Spec, CDC!Spec, ImplementsContentChunking
-----------------------------------------------------------------------------
(* The memory behind the accumulator. *)

\* The first cells hold the buffered interval of the stream, ...
CellsHold == \A i \in 1..(consumed - cbufBase) : cells[i] = cbufBase + i - 1

\* ... and the chunk that Next returned is where the slice starts.
Shown ==
    state = "emitted" =>
        /\ low \in Nat
        /\ cur.offset = cbufBase + low
        /\ cur.end = chunkStart

MemInv ==
    /\ cells \in [1..StreamLimit -> Int]
    /\ CellsHold
    /\ Shown

\* What copy(cbuf, cbuf[drop:]) and the bytes read behind it leave in the cells.
LEMMA CellsStep ==
    ASSUME cbufBase \in Nat, consumed \in Nat, cbufBase' \in Nat, consumed' \in Nat,
           cbufBase <= cbufBase', cbufBase' <= consumed, consumed <= consumed',
           consumed' <= StreamLimit,
           cells \in [1..StreamLimit -> Int], CellsHold, cells' = Cells
    PROVE  cells' \in [1..StreamLimit -> Int] /\ CellsHold'
<1> DEFINE base2 == cbufBase'
           end2  == consumed'
           after == cells'
<1>1. after = [i \in 1..StreamLimit |->
                 CASE base2 - cbufBase >= 0 /\ i <= consumed - base2 ->
                        cells[i + (base2 - cbufBase)]
                   [] i \in ((consumed - base2) + 1)..((consumed - base2) + (end2 - consumed)) ->
                        consumed + i - (consumed - base2) - 1
                   [] OTHER -> cells[i]]
  BY DEF Cells
<1>2. /\ base2 \in Nat /\ end2 \in Nat /\ cbufBase <= base2 /\ base2 <= consumed
      /\ consumed <= end2 /\ end2 <= StreamLimit
  OBVIOUS
<1>3. \A i \in 1..(consumed - cbufBase) : cells[i] = cbufBase + i - 1
  BY DEF CellsHold
<1> HIDE DEF base2, end2, after
<1>4. StreamLimit \in Nat
  BY PolicyAssumption
<1>5. ASSUME NEW i \in 1..StreamLimit, i <= consumed - base2
      PROVE  after[i] \in Int /\ after[i] = base2 + i - 1
  <2>1. after[i] = cells[i + (base2 - cbufBase)]
    BY <1>1, <1>2, <1>5
  <2>2. i + (base2 - cbufBase) \in 1..(consumed - cbufBase)
    BY <1>2, <1>5
  <2>3. cells[i + (base2 - cbufBase)] = cbufBase + (i + (base2 - cbufBase)) - 1
    BY <2>2, <1>3
  <2> QED
    BY <2>1, <2>3, <1>2
<1>6. ASSUME NEW i \in 1..StreamLimit, ~ (i <= consumed - base2), i <= end2 - base2
      PROVE  after[i] \in Int /\ after[i] = base2 + i - 1
  <2>1. i \in ((consumed - base2) + 1)..((consumed - base2) + (end2 - consumed))
    BY <1>2, <1>6
  <2>2. after[i] = consumed + i - (consumed - base2) - 1
    BY <1>1, <2>1, <1>6
  <2> QED
    BY <2>2, <1>2
<1>7. ASSUME NEW i \in 1..StreamLimit, ~ (i <= end2 - base2)
      PROVE  after[i] \in Int
  <2>1. /\ ~ (i <= consumed - base2)
        /\ ~ (i \in ((consumed - base2) + 1)..((consumed - base2) + (end2 - consumed)))
    BY <1>2, <1>7
  <2>2. after[i] = cells[i]
    BY <1>1, <2>1
  <2> QED
    BY <2>2
<1>8. \A i \in 1..StreamLimit : after[i] \in Int
  BY <1>4, <1>5, <1>6, <1>7
<1>9. DOMAIN after = 1..StreamLimit /\ after = [i \in DOMAIN after |-> after[i]]
  BY <1>1
<1>10. after \in [1..StreamLimit -> Int]
  BY <1>8, <1>9, Zenon
<1>11. \A i \in 1..(end2 - base2) : i \in 1..StreamLimit
  BY <1>2, <1>4
<1>12. \A i \in 1..(end2 - base2) : after[i] = base2 + i - 1
  BY <1>2, <1>4, <1>5, <1>6, <1>11
<1> QED
  BY <1>10, <1>12 DEF CellsHold, base2, end2, after

\* A step of Chunker moves the buffered interval forward, or starts a new stream.
LEMMA BufferMoves ==
    ASSUME IInv, [Next]_vars
    PROVE  \/ /\ cbufBase <= cbufBase' /\ cbufBase' <= consumed
              /\ consumed <= consumed'
           \/ cbufBase' = 0 /\ consumed' = 0 /\ state' = "ready"
<1>1. /\ CoreType /\ cbufBase \in Nat /\ consumed \in Nat /\ chunkStart \in Nat
      /\ cbufBase <= chunkStart /\ chunkStart <= consumed
  BY DEF IInv, CoreInv, CoreType
<1>2. CASE UNCHANGED <<cbufBase, consumed>>
  BY <1>1, <1>2
<1>3. CASE StartFill
  <2>1. cbufBase' \in Nat /\ cbufBase <= cbufBase' /\ cbufBase' <= chunkStart
    <3>1. cbufBase' = Larger(cbufBase, Larger(Smaller(chunkStart, SkipPreMin) - (Window - 1), 0))
      BY <1>3 DEF StartFill, Compact
    <3>2. SkipPreMin \in Nat
      BY <1>1, Numbers
    <3> QED
      BY <1>1, <3>1, <3>2, PolicyAssumption DEF Larger, Smaller
  <2>2. consumed' = consumed
    BY <1>3 DEF StartFill
  <2> QED
    BY <1>1, <2>1, <2>2
<1>4. CASE Read
  <2>1. consumed' \in consumed..StreamLimit
    BY <1>4, ReadStep
  <2>2. cbufBase' = cbufBase
    BY <1>4 DEF Read, ReadSome, ReadFull, ReadEOF, ReadError, CommitTail, coreVars, streamVars
  <2> QED
    BY <1>1, <2>1, <2>2, PolicyAssumption
<1>5. CASE Reset
  BY <1>5 DEF Reset, CoreReset
<1>6. CASE CallNext \/ InCore \/ UNCHANGED vars
  <2>1. UNCHANGED <<cbufBase, consumed>>
    BY <1>6 DEF CallNext, Begin, InCore, CoreStep, HashForward, EmitBoundary, EmitForced,
                EmitFinal, CoreDone, NeedMore, streamVars, vars, coreVars
  <2> QED
    BY <2>1, <1>2
<1> QED
  BY <1>3, <1>4, <1>5, <1>6 DEF Next

\* Emitting a chunk fixes the slice; a step that leaves it emitted is no step.
LEMMA ShownStep ==
    ASSUME IInv, IInv', [Next]_vars, MemStep, Shown
    PROVE  Shown'
<1> SUFFICES ASSUME state' = "emitted" PROVE Shown'
  BY DEF Shown
<1>1. /\ CoreType /\ cbufBase \in Nat /\ chunkStart \in Nat /\ cbufBase <= chunkStart
  BY DEF IInv, CoreInv, CoreType
<1>2. CASE UNCHANGED vars
  <2>1. UNCHANGED <<cbufBase, chunkStart, cur, state>>
    BY <1>2 DEF vars, coreVars, streamVars
  <2>2. low' = low
    BY <2>1 DEF MemStep
  <2> QED
    BY <2>1, <2>2 DEF Shown
<1>3. CASE EmitBoundary \/ EmitForced \/ EmitFinal
  <2>1. PICK e, cd : Emit(e, cd) /\ UNCHANGED streamVars /\ state = "hashing"
    BY <1>3 DEF EmitBoundary, EmitForced, EmitFinal, NoBoundary, LoopExit
  <2>2. /\ cur' = [offset |-> chunkStart, end |-> e + 1, sum |-> windowSum(e),
                   contentDefined |-> cd]
        /\ chunkStart' = e + 1 /\ cbufBase' = cbufBase
    BY <2>1 DEF Emit, streamVars
  <2>3. low' = chunkStart - cbufBase
    BY <2>1 DEF MemStep
  <2>4. low' \in Nat /\ chunkStart = cbufBase + low'
    BY <2>3, <1>1
  <2> QED
    BY <2>2, <2>4 DEF Shown
<1>4. CASE ~ UNCHANGED vars /\ ~ (EmitBoundary \/ EmitForced \/ EmitFinal)
  <2>1. state' # "emitted"
    BY <1>4 DEF Next, CallNext, Begin, InCore, CoreStep, HashForward, CoreDone, NeedMore,
                StartFill, Read, ReadSome, ReadFull, ReadEOF, ReadError, CommitTail, Reset,
                CoreReset, coreVars
  <2> QED
    BY <2>1
<1> QED
  BY <1>2, <1>3, <1>4

\* The cells hold the buffer in every reachable state of Chunker with its memory.
THEOREM MemoryInvariance == BytesSpec => [](IInv /\ MemInv)
<1>1. BytesInit => IInv /\ MemInv
  <2> SUFFICES ASSUME BytesInit PROVE IInv /\ MemInv
    OBVIOUS
  <2>1. IInv
    BY InitIInv DEF BytesInit
  <2>2. MemInv
    BY DEF BytesInit, MemInit, Init, CoreInit, MemInv, CellsHold, Shown, Unset
  <2> QED
    BY <2>1, <2>2
<1>2. IInv /\ MemInv /\ [BytesNext]_<<vars, memVars>> => (IInv /\ MemInv)'
  <2> SUFFICES ASSUME IInv, MemInv, [BytesNext]_<<vars, memVars>> PROVE IInv' /\ MemInv'
    OBVIOUS
  <2>1. IInv'
    BY InductiveStep DEF BytesNext
  <2>2. CASE UNCHANGED <<vars, memVars>>
    <3>1. UNCHANGED <<cbufBase, consumed, chunkStart, cur, state, cells, low>>
      BY <2>2 DEF vars, coreVars, streamVars, memVars
    <3>2. MemInv'
      BY <3>1 DEF MemInv, CellsHold, Shown
    <3> QED
      BY <2>1, <3>2
  <2>3. CASE BytesNext
    <3>1. /\ [Next]_vars /\ MemStep
          /\ cells \in [1..StreamLimit -> Int] /\ CellsHold /\ Shown
      BY <2>3 DEF BytesNext, MemInv
    <3>2. /\ cbufBase \in Nat /\ consumed \in Nat /\ cbufBase <= consumed
          /\ consumed <= StreamLimit
          /\ cbufBase' \in Nat /\ consumed' \in Nat /\ consumed' <= StreamLimit
      BY <2>1, PolicyAssumption DEF IInv, CoreInv, CoreType
    <3>3. cells' \in [1..StreamLimit -> Int] /\ CellsHold'
      <4>1. CASE cbufBase <= cbufBase' /\ cbufBase' <= consumed /\ consumed <= consumed'
        <5>1. cells' = Cells
          BY <4>1, <3>1, <3>2 DEF MemStep
        <5> QED
          BY <5>1, <4>1, <3>1, <3>2, CellsStep
      <4>2. CASE cbufBase' = 0 /\ consumed' = 0
        <5>1. CASE consumed > 0
          <6>1. cells' = cells
            BY <5>1, <4>2, <3>1, <3>2 DEF MemStep
          <6> QED
            BY <6>1, <4>2, <3>1 DEF CellsHold
        <5>2. CASE consumed = 0
          <6>1. cells' = Cells /\ cbufBase = 0
            BY <5>2, <4>2, <3>1, <3>2 DEF MemStep
          <6> QED
            BY <6>1, <5>2, <4>2, <3>1, <3>2, CellsStep
        <5> QED
          BY <5>1, <5>2, <3>2
      <4> QED
        BY <4>1, <4>2, <3>1, BufferMoves
    <3>4. Shown'
      BY <2>1, <3>1, ShownStep
    <3> QED
      BY <2>1, <3>3, <3>4 DEF MemInv
  <2> QED
    BY <2>2, <2>3
<1> QED
  BY <1>1, <1>2, PTL DEF BytesSpec

\* Bytes stays the chunk until the next call of Next, wherever compact has moved it.
THEOREM BytesStable == BytesSpec => []BytesValidUntilNext
<1>1. IInv /\ MemInv => BytesValidUntilNext
  <2> SUFFICES ASSUME IInv, MemInv, state = "emitted", NEW i \in 1..(cur.end - cur.offset)
               PROVE  cells[low + i] = cur.offset + i - 1
    BY DEF BytesValidUntilNext
  <2>1. /\ cbufBase \in Nat /\ chunkStart \in Nat /\ consumed \in Nat
        /\ chunkStart <= consumed
    BY DEF IInv, CoreInv, CoreType
  <2>2. low \in Nat /\ cur.offset = cbufBase + low /\ cur.end = chunkStart
    BY DEF MemInv, Shown
  <2>3. i \in Nat /\ i >= 1 /\ i <= chunkStart - (cbufBase + low)
    BY <2>1, <2>2
  <2>4. low + i \in 1..(consumed - cbufBase)
    BY <2>1, <2>2, <2>3
  <2>5. cells[low + i] = cbufBase + (low + i) - 1
    BY <2>4 DEF MemInv, CellsHold
  <2> QED
    BY <2>1, <2>2, <2>3, <2>5
<1> QED
  BY <1>1, MemoryInvariance, PTL

\* No chunk follows a read error, and none is passed off as the final one.
THEOREM ErrorsFinal == Spec => ErrorIsFinal
<1>1. IInv /\ [Next]_vars =>
        [err /\ err' => cur' \in {cur, NoChunk} /\ chunkStart' = chunkStart]_vars
  <2> SUFFICES ASSUME IInv, Next, err, err'
               PROVE  cur' \in {cur, NoChunk} /\ chunkStart' = chunkStart
    OBVIOUS
  <2>1. state \in {"failed", "coreDone"}
    BY DEF IInv, Filling
  <2>2. CallNext
    BY <2>1 DEF Next, InCore, CoreStep, HashForward, EmitBoundary, EmitForced, EmitFinal,
                CoreDone, NeedMore, NoBoundary, LoopExit, StartFill, Read, ReadSome, ReadFull,
                ReadEOF, ReadError, CommitTail, Reset, CoreReset
  <2> QED
    BY <2>2 DEF CallNext, Begin
<1> QED
  BY <1>1, Invariance, PTL DEF Spec, ErrorIsFinal
=============================================================================
