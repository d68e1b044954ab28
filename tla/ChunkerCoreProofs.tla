------------------------- MODULE ChunkerCoreProofs -------------------------
(***************************************************************************)
(* The inductive invariant of chunkerCore and the lemmas about its steps   *)
(* that the proofs of ChunkWriter and Chunker share; and two facts about   *)
(* the policy itself, which say what content-defined cuts are for.         *)
(***************************************************************************)
EXTENDS ChunkerCore, WindowLemmas, TLAPS

\* Offsets plus the sizes the caller chose stay below math.MaxInt.
ASSUME NoOverflow ==
    /\ StreamLimit + Min <= MaxInt
    /\ StreamLimit + BatchSize <= MaxInt
    /\ Max = MaxInt \/ StreamLimit + Max <= MaxInt

CoreType ==
    /\ hits \in HitSets
    /\ cbufBase \in Nat /\ chunkStart \in Nat /\ consumed \in Nat /\ hashedTo \in Nat
    /\ cbufBase <= chunkStart /\ chunkStart <= consumed /\ consumed <= StreamLimit
    /\ spent \in SUBSET Nat /\ bounds \in SUBSET Nat
    /\ eof \in BOOLEAN /\ done \in BOOLEAN /\ err \in BOOLEAN
    /\ cur \in Chunks

\* The queue holds buffered, hashed boundaries of the chunk to come; those
\* already looked at are before it.
QueueSound ==
    /\ \A b \in bounds : b \in hits /\ b < hashedTo /\ b < consumed /\ chunkStart <= b
    /\ \A b \in spent : b < hashedTo /\ (b < chunkStart \/ b < chunkStart + Min - 1)

Control ==
    /\ done => eof /\ chunkStart = consumed
    /\ state = "hashing" => ~done /\ ~err
    /\ state # "panic"

\* Hashing falls behind the chunk only within the first window of the stream.
NotLeftBehind == hashedTo >= chunkStart \/ chunkStart < Window

CoreInv ==
    /\ CoreType
    /\ LeadInKept
    /\ NotLeftBehind
    /\ QueueSound
    /\ QueueComplete
    /\ CutsFollowPolicy
    /\ Control

\* What keeps the loop of next() from stopping at a boundary it has used up:
\* either such a boundary is too early for the chunk (Min >= 1), or ...
SpentBehind == \A b \in spent : b < chunkStart + Min - 1

\* ... nothing is left to hash once any boundary has been found.
HashedAhead == spent \union bounds # {} => hashedTo >= consumed
-----------------------------------------------------------------------------
(* No sum of offsets overflows, so the code's ints are the numbers meant. *)

LEMMA NoChunkType == NoChunk \in Chunks
  BY DEF NoChunk, Chunks, NoSum

LEMMA HitOffsets ==
    ASSUME CoreType, NEW e \in hits
    PROVE  e \in Nat /\ e >= Window - 1 /\ e < StreamLimit
<1>1. hits \subseteq (Window - 1)..(StreamLimit - 1)
  BY DEF CoreType, HitSets
<1> QED
  BY <1>1, PolicyAssumption

LEMMA Numbers ==
    ASSUME CoreType
    PROVE  /\ minByte = chunkStart + Min - 1
           /\ maxByte = IF Max = MaxInt THEN MaxInt ELSE chunkStart + Max - 1
           /\ minByte \in Int /\ maxByte \in Nat
           /\ maxByte >= chunkStart /\ maxByte <= MaxInt
           /\ hashLimit \in Nat /\ hashLimit <= maxByte + 1
           /\ hashLimit = maxByte + 1 \/ hashLimit = MaxInt
           /\ SkipPreMin = IF hashedTo >= minByte THEN hashedTo ELSE minByte
           /\ SkipPreMin \in Nat /\ SkipPreMin >= hashedTo
  BY PolicyAssumption, CoreAssumption, NoOverflow
     DEF CoreType, minByte, maxByte, hashLimit, SkipPreMin, Larger, Wrap

LEMMA Batch ==
    ASSUME CoreType, LeadInKept, Hashable(SkipPreMin)
    PROVE  /\ BatchEnd(SkipPreMin) \in Nat
           /\ SkipPreMin < BatchEnd(SkipPreMin)
           /\ BatchEnd(SkipPreMin) <= consumed
           /\ BatchEnd(SkipPreMin) = consumed \/ BatchEnd(SkipPreMin) = SkipPreMin + BatchSize
           /\ \A e \in hits : e \in BatchHits(SkipPreMin) <=>
                               SkipPreMin <= e /\ e < BatchEnd(SkipPreMin)
<1>1. SkipPreMin \in Nat /\ SkipPreMin >= hashedTo
  BY Numbers
<1> DEFINE from == SkipPreMin
<1> HIDE DEF from
<1>2. from \in Nat /\ from >= hashedTo /\ Hashable(from)
  BY <1>1 DEF from
<1>3. /\ BatchEnd(from) \in Nat
      /\ from < BatchEnd(from)
      /\ BatchEnd(from) <= consumed
      /\ BatchEnd(from) = consumed \/ BatchEnd(from) = from + BatchSize
  BY <1>2, PolicyAssumption, CoreAssumption, NoOverflow
     DEF CoreType, Hashable, BatchEnd, Smaller, Wrap
<1>4. \A e \in hits : e >= BatchStart(from) + Window - 1 <=> from <= e
  <2>1. hits \subseteq (Window - 1)..(StreamLimit - 1)
    BY DEF CoreType, HitSets
  <2>2. CASE from - cbufBase >= Window - 1
    BY <1>2, <2>1, <2>2, PolicyAssumption DEF CoreType, BatchStart, Smaller
  <2>3. CASE from - cbufBase < Window - 1
    <3>1. cbufBase = 0
      BY <1>2, <2>3, PolicyAssumption DEF CoreType, LeadInKept, Smaller
    <3> QED
      BY <1>2, <2>1, <2>3, <3>1, PolicyAssumption DEF CoreType, BatchStart, Smaller
  <2> QED
    BY <1>2, <2>2, <2>3, PolicyAssumption DEF CoreType
<1> QED
  BY <1>3, <1>4 DEF from, BatchHits

LEMMA ShortBuffer ==
    ASSUME CoreType, LeadInKept, SkipPreMin < consumed, ~ Hashable(SkipPreMin)
    PROVE  consumed < Window
<1>1. SkipPreMin \in Nat /\ SkipPreMin >= hashedTo
  BY Numbers
<1> DEFINE from == SkipPreMin
<1> HIDE DEF from
<1>2. from \in Nat /\ from >= hashedTo /\ ~ Hashable(from) /\ from < consumed
  BY <1>1 DEF from
<1>3. BatchEnd(from) - BatchStart(from) < Window
  BY <1>2, PolicyAssumption, CoreAssumption, NoOverflow
     DEF CoreType, Hashable, BatchEnd, BatchStart, Smaller, Wrap
<1>4. BatchEnd(from) > from /\ BatchEnd(from) \in Nat
  BY <1>2, PolicyAssumption, CoreAssumption, NoOverflow
     DEF CoreType, BatchEnd, Smaller, Wrap
<1>5. from - cbufBase < Window - 1
  BY <1>2, <1>3, <1>4, PolicyAssumption DEF CoreType, BatchStart, Smaller
<1>6. cbufBase = 0
  BY <1>2, <1>5, PolicyAssumption DEF CoreType, LeadInKept, Smaller
<1>7. BatchEnd(from) < Window
  BY <1>2, <1>3, <1>4, <1>5, <1>6, PolicyAssumption DEF CoreType, BatchStart, Smaller
<1> QED
  BY <1>2, <1>7, PolicyAssumption, CoreAssumption, NoOverflow
     DEF CoreType, BatchEnd, Smaller, Wrap
-----------------------------------------------------------------------------
(* When next() finds no boundary in range, the stream has none there. *)

\* Leaving the loop, every window that matters to the choice is dealt with.
LEMMA ExitProgress ==
    ASSUME CoreInv, SpentBehind \/ HashedAhead, NoBoundary,
           NEW n \in Nat, n <= consumed, n <= maxByte + 1
    PROVE  /\ hashedTo' >= n \/ n < Window
           /\ hashedTo' = hashedTo \/ hashedTo' = SkipPreMin
<1> USE DEF CoreInv
<1>1. CoreType
  OBVIOUS
<1>2. /\ minByte = chunkStart + Min - 1 /\ minByte \in Int
      /\ maxByte \in Nat /\ hashLimit \in Nat
      /\ hashLimit = maxByte + 1 \/ hashLimit = MaxInt
      /\ SkipPreMin \in Nat
  BY <1>1, Numbers
<1>3. hashedTo \in Nat /\ consumed \in Nat /\ chunkStart \in Nat /\ Min \in Nat
      /\ consumed < MaxInt /\ MaxInt \in Nat /\ Window \in Nat
  BY PolicyAssumption, CoreAssumption DEF CoreType
<1>4. hashedTo' = IF MoreToHash THEN SkipPreMin ELSE hashedTo
  BY DEF NoBoundary, LoopExit
<1>5. CASE ~ (hashedTo < hashLimit)
  BY <1>2, <1>3, <1>4, <1>5 DEF MoreToHash
<1>6. CASE \E b \in spent \union bounds : b >= minByte
  <2> PICK b \in spent \union bounds : b >= minByte
    BY <1>6
  <2>1. b \in Nat
    BY DEF CoreType
  <2>2. hashedTo' = hashedTo
    BY <1>4 DEF MoreToHash
  <2>3. CASE b \in bounds
    <3>1. b < hashedTo
      BY <2>3 DEF QueueSound
    <3>2. b > maxByte
      BY <2>1, <2>3, <1>2 DEF NoBoundary, InRange
    <3> QED
      BY <3>1, <3>2, <2>1, <2>2, <1>2, <1>3
  <2>4. CASE b \in spent
    <3>1. hashedTo >= consumed
      BY <2>1, <2>4, <1>2, <1>3 DEF SpentBehind, HashedAhead
    <3> QED
      BY <3>1, <2>2, <1>3
  <2> QED
    BY <2>3, <2>4
<1>7. CASE MoreToHash /\ ~ Hashable(SkipPreMin)
  <2>1. CASE SkipPreMin >= consumed
    BY <2>1, <1>2, <1>3, <1>4, <1>7
  <2>2. CASE SkipPreMin < consumed
    <3>1. consumed < Window
      BY <2>2, <1>1, <1>7, ShortBuffer
    <3> QED
      BY <3>1, <1>3, <1>4
  <2> QED
    BY <2>1, <2>2, <1>2, <1>3
<1> QED
  BY <1>5, <1>6, <1>7 DEF NoBoundary, LoopExit, MoreToHash

LEMMA NothingMissed ==
    ASSUME CoreInv, SpentBehind \/ HashedAhead, NoBoundary,
           NEW d \in hits, chunkStart <= d, d < consumed, InRange(d)
    PROVE  FALSE
<1> USE DEF CoreInv
<1>1. CoreType
  OBVIOUS
<1>2. /\ minByte = chunkStart + Min - 1 /\ minByte \in Int /\ maxByte \in Nat
      /\ SkipPreMin = IF hashedTo >= minByte THEN hashedTo ELSE minByte
  BY <1>1, Numbers
<1>3. d \in Nat /\ minByte <= d /\ d <= maxByte /\ d >= Window - 1
  BY <1>1, PolicyAssumption, CoreAssumption DEF CoreType, HitSets, InRange
<1>4. hashedTo \in Nat /\ consumed \in Nat /\ chunkStart \in Nat /\ Min \in Nat
      /\ Window \in Nat
  BY PolicyAssumption DEF CoreType
<1>5. /\ hashedTo' >= d + 1 \/ d + 1 < Window
      /\ hashedTo' = hashedTo \/ hashedTo' = SkipPreMin
  BY <1>2, <1>3, <1>4, ExitProgress, d + 1 \in Nat, d + 1 <= consumed, d + 1 <= maxByte + 1
<1>6. d < hashedTo
  BY <1>2, <1>3, <1>4, <1>5
<1> QED
  BY <1>2, <1>3, <1>4, <1>6 DEF QueueComplete, NoBoundary

\* Hence no cut falls in the bytes buffered, or before a forced one.
LEMMA NoCutBefore ==
    ASSUME CoreInv, SpentBehind \/ HashedAhead, NoBoundary,
           NEW n \in Nat, n <= consumed, n <= maxByte
    PROVE  NoCut(hits, chunkStart, n)
<1>1. CoreType
  BY DEF CoreInv
<1>2. /\ minByte = chunkStart + Min - 1 /\ maxByte \in Nat
      /\ maxByte = IF Max = MaxInt THEN MaxInt ELSE chunkStart + Max - 1
  BY <1>1, Numbers
<1>3. SUFFICES ASSUME NEW d \in chunkStart..(n - 1)
               PROVE  ~ Accepts(hits, chunkStart, d) /\ ~ ForcedAt(chunkStart, d)
  BY DEF NoCut
<1>4. d \in Nat /\ chunkStart <= d /\ d < consumed /\ d < maxByte
  BY <1>1, <1>2 DEF CoreType
<1>5. ~ ForcedAt(chunkStart, d)
  BY <1>1, <1>2, <1>4, PolicyAssumption, CoreAssumption DEF CoreType, ForcedAt
<1>6. ASSUME Accepts(hits, chunkStart, d) PROVE FALSE
  <2>1. d \in hits /\ InRange(d)
    BY <1>1, <1>2, <1>4, <1>6, PolicyAssumption DEF CoreType, Accepts, InRange
  <2> QED
    BY <2>1, <1>4, NothingMissed
<1> QED
  BY <1>5, <1>6

-----------------------------------------------------------------------------
(* Each step of the core keeps the invariant. *)

LEMMA InitCore == ASSUME CoreInit PROVE CoreInv /\ SpentBehind /\ HashedAhead
<1>1. CoreType
  <2>1. (cbufBase <= chunkStart /\ chunkStart <= consumed /\ consumed <= StreamLimit)
    BY PolicyAssumption DEF CoreInit
  <2>2. (eof \in BOOLEAN /\ done \in BOOLEAN /\ err \in BOOLEAN /\ cur \in Chunks)
    BY NoChunkType DEF CoreInit
  <2> QED
    BY <2>1, <2>2 DEF CoreInit, CoreType
<1>2. LeadInKept /\ NotLeftBehind /\ QueueSound /\ QueueComplete
  BY PolicyAssumption DEF CoreInit, LeadInKept, NotLeftBehind, QueueSound, QueueComplete, HitSets
<1>3. CutsFollowPolicy /\ Control /\ SpentBehind /\ HashedAhead
  BY DEF CoreInit, CutsFollowPolicy, Control, SpentBehind, HashedAhead
<1> QED
  BY <1>1, <1>2, <1>3 DEF CoreInv

LEMMA ResetCore == ASSUME CoreReset PROVE CoreInv' /\ SpentBehind' /\ HashedAhead'
<1>1. CoreType'
  <2>1. (cbufBase <= chunkStart /\ chunkStart <= consumed /\ consumed <= StreamLimit)'
    BY PolicyAssumption DEF CoreReset
  <2>2. (eof \in BOOLEAN /\ done \in BOOLEAN /\ err \in BOOLEAN /\ cur \in Chunks)'
    BY NoChunkType DEF CoreReset
  <2> QED
    BY <2>1, <2>2 DEF CoreReset, CoreType
<1>2. LeadInKept' /\ NotLeftBehind' /\ QueueSound' /\ QueueComplete'
  BY PolicyAssumption DEF CoreReset, LeadInKept, NotLeftBehind, QueueSound, QueueComplete, HitSets
<1>3. CutsFollowPolicy' /\ Control' /\ SpentBehind' /\ HashedAhead'
  BY DEF CoreReset, CutsFollowPolicy, Control, SpentBehind, HashedAhead
<1> QED
  BY <1>1, <1>2, <1>3 DEF CoreInv

LEMMA BeginCore ==
    ASSUME CoreInv, Begin
    PROVE  CoreInv' /\ (SpentBehind => SpentBehind') /\ (HashedAhead => HashedAhead')
<1> USE DEF CoreInv
<1>1. UNCHANGED <<hits, cbufBase, consumed, eof, err, chunkStart, spent, bounds, hashedTo, done>>
  BY DEF Begin, streamVars
<1>2. cur' \in {cur, NoChunk} /\ state' = IF err \/ done THEN "coreDone" ELSE "hashing"
  BY DEF Begin
<1>3. CoreType'
  BY <1>1, <1>2, NoChunkType DEF CoreType
<1>4. LeadInKept' /\ NotLeftBehind' /\ QueueSound' /\ QueueComplete'
  BY <1>1 DEF LeadInKept, NotLeftBehind, QueueSound, QueueComplete
<1>5. CutsFollowPolicy' /\ Control'
  BY <1>1, <1>2 DEF CutsFollowPolicy, Control
<1>6. (SpentBehind => SpentBehind') /\ (HashedAhead => HashedAhead')
  BY <1>1 DEF SpentBehind, HashedAhead
<1> QED
  BY <1>3, <1>4, <1>5, <1>6

LEMMA HashForwardCore ==
    ASSUME CoreInv, HashForward
    PROVE  CoreInv' /\ (SpentBehind => SpentBehind')
<1> USE DEF CoreInv
<1>1. CoreType /\ LeadInKept /\ Hashable(SkipPreMin)
  BY DEF HashForward
<1> DEFINE from == SkipPreMin
           to == BatchEnd(SkipPreMin)
<1>2. /\ from \in Nat /\ hashedTo <= from
      /\ from = IF hashedTo >= minByte THEN hashedTo ELSE minByte
      /\ minByte = chunkStart + Min - 1
  BY <1>1, Numbers
<1>3. /\ to \in Nat /\ from < to /\ to <= consumed
      /\ \A e \in hits : e \in BatchHits(from) <=> from <= e /\ e < to
  BY <1>1, Batch
<1>4. BatchHits(from) \subseteq hits /\ hits \subseteq Nat
  BY <1>1, PolicyAssumption DEF BatchHits, CoreType, HitSets
<1>5. /\ bounds' = bounds \union BatchHits(from) /\ hashedTo' = to
      /\ UNCHANGED <<hits, cbufBase, consumed, eof, err, chunkStart, spent, done, cur, state>>
  BY DEF HashForward, streamVars
<1> HIDE DEF from, to
<1>6. CoreType'
  BY <1>1, <1>3, <1>4, <1>5 DEF CoreType
<1>7. LeadInKept'
  BY <1>1, <1>2, <1>3, <1>5, PolicyAssumption DEF LeadInKept, CoreType, Smaller
<1>8. QueueSound' /\ NotLeftBehind'
  <2>1. \A b \in BatchHits(from) : b \in hits /\ b < to /\ b < consumed /\ chunkStart <= b
    <3> SUFFICES ASSUME NEW b \in BatchHits(from)
                 PROVE  b \in hits /\ b < to /\ b < consumed /\ chunkStart <= b
      OBVIOUS
    <3>1. b \in hits /\ b \in Nat /\ b >= Window - 1
      BY <1>1, <1>4, HitOffsets
    <3>2. from <= b /\ b < to
      BY <3>1, <1>3
    <3>3. chunkStart <= b
      BY <3>1, <3>2, <1>1, <1>2, PolicyAssumption DEF NotLeftBehind, CoreType
    <3> QED
      BY <3>1, <3>2, <3>3, <1>1, <1>3 DEF CoreType
  <2> QED
    BY <2>1, <1>1, <1>2, <1>3, <1>5, PolicyAssumption
       DEF QueueSound, NotLeftBehind, CoreType
<1>9. QueueComplete'
  BY <1>1, <1>2, <1>3, <1>5, PolicyAssumption DEF QueueComplete, CoreType, HitSets
<1>10. CutsFollowPolicy' /\ Control' /\ (SpentBehind => SpentBehind')
  BY <1>5 DEF CutsFollowPolicy, Control, SpentBehind
<1> QED
  BY <1>6, <1>7, <1>8, <1>9, <1>10
\* compact, then n fresh bytes or none: a Write, a Close or the start of a fill.
LEMMA CompactCore ==
    ASSUME CoreInv, Compact, NEW n \in Nat, consumed + n <= StreamLimit,
           consumed' = consumed + n, eof' \in BOOLEAN, ~done,
           UNCHANGED <<hits, chunkStart, done, err, cur>>,
           state' \notin {"hashing", "panic"}
    PROVE  CoreInv' /\ spent' = {} /\ bounds' = bounds /\ hashedTo' = SkipPreMin
<1> USE DEF CoreInv
<1>1. CoreType
  OBVIOUS
<1>2. /\ minByte = chunkStart + Min - 1
      /\ SkipPreMin \in Nat /\ SkipPreMin >= hashedTo
      /\ SkipPreMin = IF hashedTo >= minByte THEN hashedTo ELSE minByte
  BY <1>1, Numbers
<1>3. hashedTo' = SkipPreMin /\ spent' = {} /\ bounds' = bounds
  BY DEF Compact
<1>4. /\ cbufBase' \in Nat /\ cbufBase' <= chunkStart
      /\ cbufBase' = 0 \/ cbufBase' + Window - 1 <= Smaller(chunkStart, SkipPreMin)
  BY <1>1, <1>2, PolicyAssumption
     DEF Compact, CoreType, LeadInKept, Larger, Smaller
<1>5. CoreType'
  BY <1>1, <1>2, <1>3, <1>4 DEF CoreType
<1>6. LeadInKept' /\ NotLeftBehind'
  <2>1. LeadInKept'
    BY <1>3, <1>4 DEF LeadInKept
  <2>2. NotLeftBehind'
    BY <1>1, <1>2, <1>3, PolicyAssumption DEF NotLeftBehind, CoreType
  <2> QED
    BY <2>1, <2>2
<1>7. QueueSound' /\ QueueComplete'
  <2>1. \A e \in hits : e \in Nat
    BY <1>1, HitOffsets
  <2> QED
    BY <1>1, <1>2, <1>3, <2>1, PolicyAssumption DEF QueueSound, QueueComplete, CoreType
<1>8. CutsFollowPolicy' /\ Control'
  BY DEF CutsFollowPolicy, Control
<1> QED
  BY <1>3, <1>5, <1>6, <1>7, <1>8

-----------------------------------------------------------------------------
(* The emitting steps. *)

\* The checksum of a cut is that of the window before it, which is buffered.
LEMMA RightSum ==
    ASSUME CoreType, LeadInKept, NEW e \in Nat, chunkStart <= e
    PROVE  windowSum(e) = SumAt(e)
  BY PolicyAssumption DEF CoreType, LeadInKept, Smaller, windowSum, SumAt

\* emit within the buffered bytes records the chunk and moves past it.
LEMMA EmitOk ==
    ASSUME CoreType, LeadInKept, NEW e \in Nat, chunkStart <= e, e < consumed,
           NEW cd \in BOOLEAN, Emit(e, cd)
    PROVE  /\ cur' = Chunk(chunkStart, e, cd)
           /\ cur' \in Chunks /\ cur' # NoChunk
           /\ chunkStart' = e + 1 /\ state' = "emitted"
<1>1. e - chunkStart + 1 <= MaxInt
  BY CoreAssumption, PolicyAssumption DEF CoreType
<1>2. sliceEnd(e) \in (chunkStart - cbufBase)..(consumed - cbufBase)
  <2>1. Wrap(e - chunkStart + 1) = e - chunkStart + 1
    <3> e \in Nat /\ chunkStart \in Nat /\ MaxInt \in Nat
      BY CoreAssumption DEF CoreType
    <3> QED
      BY <1>1 DEF Wrap
  <2>2. sliceEnd(e) = chunkStart - cbufBase + (e - chunkStart + 1)
    BY <2>1 DEF sliceEnd
  <2>3. e \in Nat /\ chunkStart \in Nat /\ cbufBase \in Nat /\ consumed \in Nat
        /\ chunkStart <= e /\ e < consumed
    BY DEF CoreType
  <2> QED
    BY <2>2, <2>3
<1>3. /\ cur' = [offset |-> chunkStart, end |-> e + 1,
                 sum |-> windowSum(e), contentDefined |-> cd]
      /\ chunkStart' = e + 1 /\ state' = "emitted"
  BY <1>2 DEF Emit
<1>4. cur' = Chunk(chunkStart, e, cd)
  BY <1>3, RightSum DEF Chunk
<1>5. SumAt(e) \in Nat \union {NoSum}
  BY DEF SumAt
<1>6. cur' \in Chunks
  BY <1>4, <1>5 DEF Chunk, Chunks, CoreType
<1>7. cur'.end = e + 1 /\ NoChunk.end = 0
  BY <1>3 DEF NoChunk
<1> QED
  BY <1>3, <1>4, <1>6, <1>7

\* What the selection leaves of the invariant to its driver and the emission:
\* the chunk now starts at `next' and hashing has come at least that far.
LEMMA AdvanceCore ==
    ASSUME CoreType, LeadInKept, QueueSound, QueueComplete,
           NEW next \in Nat, chunkStart <= next, next <= consumed,
           chunkStart' = next, hashedTo' \in Nat, hashedTo' >= hashedTo,
           hashedTo' = hashedTo \/ hashedTo' <= chunkStart + Min - 1,
           hashedTo' >= next \/ next < Window,
           bounds' = {b \in bounds : b >= next /\ b >= chunkStart + Min - 1},
           spent' = spent \union (bounds \ bounds'),
           \A b \in bounds \ bounds' : b < next \/ b < chunkStart + Min - 1,
           UNCHANGED streamVars
    PROVE  LeadInKept' /\ NotLeftBehind' /\ QueueSound' /\ QueueComplete'
<1>1. UNCHANGED <<hits, cbufBase, consumed>>
  BY DEF streamVars
<1>2. /\ chunkStart \in Nat /\ hashedTo \in Nat /\ cbufBase \in Nat /\ consumed \in Nat
      /\ Min \in Nat /\ Window \in Nat \ {0}
      /\ bounds \subseteq Nat /\ spent \subseteq Nat
  BY PolicyAssumption DEF CoreType
<1>3. LeadInKept' /\ NotLeftBehind'
  BY <1>1, <1>2 DEF LeadInKept, NotLeftBehind, Smaller
<1>4. QueueSound'
  BY <1>1, <1>2 DEF QueueSound
<1>5. QueueComplete'
  <2>1. \A e \in hits : e \in Nat
    BY HitOffsets
  <2> QED
    BY <1>1, <1>2, <2>1 DEF QueueComplete
<1> QED
  BY <1>3, <1>4, <1>5
LEMMA EmitBoundaryCore ==
    ASSUME CoreInv, EmitBoundary
    PROVE  /\ CoreInv' /\ spent' \union bounds' = spent \union bounds
           /\ SpentBehind /\ Min >= 1 => SpentBehind'
           /\ hashedTo' >= hashedTo
           /\ \E e \in chunkStart..(consumed - 1) :
                 /\ CutAt(hits, chunkStart, e)
                 /\ cur' = Chunk(chunkStart, e, Accepts(hits, chunkStart, e))
                 /\ chunkStart' = e + 1
<1> USE DEF CoreInv
<1>1. CoreType
  OBVIOUS
<1>2. /\ minByte = chunkStart + Min - 1 /\ minByte \in Int /\ maxByte \in Nat
      /\ maxByte = IF Max = MaxInt THEN MaxInt ELSE chunkStart + Max - 1
      /\ SkipPreMin \in Nat /\ SkipPreMin >= hashedTo
      /\ SkipPreMin = IF hashedTo >= minByte THEN hashedTo ELSE minByte
  BY <1>1, Numbers
<1>3. PICK e \in bounds :
        /\ InRange(e)
        /\ \A b \in bounds : b < e => b < minByte
        /\ Emit(e, TRUE)
        /\ spent' = spent \union tooShort \union {e}
        /\ bounds' = bounds \ (tooShort \union {e})
  BY DEF EmitBoundary
<1>4. /\ e \in Nat /\ e \in hits /\ e < hashedTo /\ e < consumed /\ chunkStart <= e
      /\ minByte <= e /\ e <= maxByte
  BY <1>1, <1>3 DEF QueueSound, CoreType, InRange
<1>5. /\ cur' = Chunk(chunkStart, e, TRUE) /\ cur' \in Chunks /\ cur' # NoChunk
      /\ chunkStart' = e + 1 /\ state' = "emitted"
  BY <1>3, <1>4, EmitOk
<1>6. UNCHANGED <<hits, cbufBase, consumed, eof, err, done>>
  BY DEF EmitBoundary, streamVars
<1>7. hashedTo' = hashedTo \/ hashedTo' = SkipPreMin
  BY DEF EmitBoundary, LoopExit
<1>8. /\ hashedTo' \in Nat /\ hashedTo' >= hashedTo
      /\ hashedTo' = hashedTo \/ hashedTo' <= chunkStart + Min - 1
  BY <1>1, <1>2, <1>7 DEF CoreType
<1>9. /\ bounds' = {b \in bounds : b >= e + 1 /\ b >= chunkStart + Min - 1}
      /\ spent' = spent \union (bounds \ bounds')
  <2>1. \A b \in bounds : b \in Nat
    BY <1>1 DEF CoreType
  <2>2. \A b \in bounds : b \notin tooShort \union {e} <=> b >= e + 1 /\ b >= chunkStart + Min - 1
    BY <2>1, <1>2, <1>3, <1>4 DEF tooShort
  <2>3. tooShort \union {e} \subseteq bounds
    BY DEF tooShort
  <2> QED
    BY <2>2, <2>3, <1>3
<1>10. \A b \in bounds \ bounds' : b < e + 1 \/ b < chunkStart + Min - 1
  BY <1>1, <1>2, <1>9, PolicyAssumption DEF CoreType
<1>11. LeadInKept' /\ NotLeftBehind' /\ QueueSound' /\ QueueComplete'
  <2>1. e + 1 \in Nat /\ chunkStart <= e + 1 /\ e + 1 <= consumed /\ hashedTo' >= e + 1
    BY <1>1, <1>4, <1>8 DEF CoreType
  <2>2. UNCHANGED streamVars
    BY <1>6 DEF streamVars
  <2> QED
    BY <2>1, <2>2, <1>1, <1>5, <1>8, <1>9, <1>10, AdvanceCore
<1>12. CoreType'
  <2>1. chunkStart' \in Nat /\ cbufBase' <= chunkStart' /\ chunkStart' <= consumed'
    BY <1>1, <1>4, <1>5, <1>6 DEF CoreType
  <2>2. spent' \in SUBSET Nat /\ bounds' \in SUBSET Nat
    BY <1>1, <1>9 DEF CoreType
  <2> QED
    BY <2>1, <2>2, <1>1, <1>5, <1>6, <1>8 DEF CoreType
<1>13. CutAt(hits, chunkStart, e) /\ Accepts(hits, chunkStart, e)
  <2>1. Accepts(hits, chunkStart, e)
    BY <1>1, <1>2, <1>4, PolicyAssumption DEF Accepts, CoreType
  <2>2. ASSUME NEW d \in chunkStart..(e - 1)
        PROVE  ~ Accepts(hits, chunkStart, d) /\ ~ ForcedAt(chunkStart, d)
    <3>1. d \in Nat /\ chunkStart <= d /\ d < e /\ d < hashedTo /\ d < maxByte
      BY <1>1, <1>2, <1>4 DEF CoreType
    <3>2. ~ ForcedAt(chunkStart, d)
      BY <1>1, <1>2, <1>4, <3>1, PolicyAssumption, CoreAssumption DEF CoreType, ForcedAt
    <3>3. ASSUME Accepts(hits, chunkStart, d) PROVE FALSE
      <4>1. d \in hits /\ minByte <= d
        BY <1>1, <1>2, <3>1, <3>3, PolicyAssumption DEF CoreType, Accepts
      <4>2. d \in bounds
        BY <4>1, <3>1, <1>2 DEF QueueComplete
      <4> QED
        BY <4>1, <4>2, <3>1, <1>2, <1>3
    <3> QED
      BY <3>2, <3>3
  <2> QED
    BY <2>1, <2>2, <1>1, <1>4 DEF CutAt, NoCut, CoreType
<1>14. CutsFollowPolicy'
  <2>1. cur'.offset = chunkStart /\ cur'.end = e + 1 /\ cur'.end - 1 = e
    BY <1>4, <1>5 DEF Chunk
  <2> QED
    BY <2>1, <1>5, <1>6, <1>13 DEF CutsFollowPolicy
<1>15. Control'
  <2>1. ~done
    BY DEF Control, EmitBoundary, LoopExit
  <2> QED
    BY <2>1, <1>5, <1>6 DEF Control
<1>16. SpentBehind /\ Min >= 1 => SpentBehind'
  BY <1>1, <1>4, <1>5, <1>9, PolicyAssumption DEF SpentBehind, CoreType
<1>17. spent' \union bounds' = spent \union bounds
  BY <1>9
<1>18. e \in chunkStart..(consumed - 1)
  BY <1>1, <1>4 DEF CoreType
<1>19. cur' = Chunk(chunkStart, e, Accepts(hits, chunkStart, e))
  <2>1. Accepts(hits, chunkStart, e) = TRUE
    BY <1>13 DEF Accepts
  <2> QED
    BY <2>1, <1>5
<1> QED
  BY <1>5, <1>8, <1>11, <1>12, <1>13, <1>14, <1>15, <1>16, <1>17, <1>18, <1>19
\* What EmitForced, EmitFinal, CoreDone and NeedMore have in common: no boundary
\* is in range, and the chunk that follows starts at `next'.
LEMMA NoBoundaryCore ==
    ASSUME CoreInv, SpentBehind \/ HashedAhead, NoBoundary, UNCHANGED streamVars,
           NEW next \in Nat, chunkStart <= next, next <= consumed, next <= maxByte + 1,
           chunkStart' = next, done' \in BOOLEAN, cur' \in Chunks
    PROVE  /\ CoreType' /\ LeadInKept' /\ NotLeftBehind' /\ QueueSound' /\ QueueComplete'
           /\ spent' \union bounds' = spent \union bounds
           /\ hashedTo' >= hashedTo
           /\ SpentBehind => SpentBehind'
<1> USE DEF CoreInv
<1>1. CoreType
  OBVIOUS
<1>2. /\ minByte = chunkStart + Min - 1 /\ minByte \in Int /\ maxByte \in Nat
      /\ SkipPreMin \in Nat /\ SkipPreMin >= hashedTo
      /\ SkipPreMin = IF hashedTo >= minByte THEN hashedTo ELSE minByte
  BY <1>1, Numbers
<1>3. UNCHANGED <<hits, cbufBase, consumed, eof, err>>
  BY DEF streamVars
<1>4. /\ hashedTo' >= next \/ next < Window
      /\ hashedTo' = hashedTo \/ hashedTo' = SkipPreMin
  BY ExitProgress
<1>5. /\ hashedTo' \in Nat /\ hashedTo' >= hashedTo
      /\ hashedTo' = hashedTo \/ hashedTo' <= chunkStart + Min - 1
  BY <1>1, <1>2, <1>4 DEF CoreType
<1>6. spent' = spent \union tooShort /\ bounds' = bounds \ tooShort
  BY DEF NoBoundary
<1>7. \A b \in bounds : b \in Nat /\ b < consumed /\ chunkStart <= b
                       /\ (b < minByte \/ b > maxByte)
  BY <1>1, <1>2 DEF QueueSound, CoreType, NoBoundary, InRange
<1>8. /\ bounds' = {b \in bounds : b >= next /\ b >= chunkStart + Min - 1}
      /\ spent' = spent \union (bounds \ bounds')
  <2>1. \A b \in bounds : b \notin tooShort <=> b >= next /\ b >= chunkStart + Min - 1
    BY <1>1, <1>2, <1>7 DEF tooShort, CoreType
  <2>2. tooShort \subseteq bounds
    BY DEF tooShort
  <2> QED
    BY <2>1, <2>2, <1>6
<1>9. \A b \in bounds \ bounds' : b < next \/ b < chunkStart + Min - 1
  BY <1>1, <1>2, <1>7, <1>8, PolicyAssumption DEF CoreType
<1>10. LeadInKept' /\ NotLeftBehind' /\ QueueSound' /\ QueueComplete'
  BY <1>1, <1>4, <1>5, <1>8, <1>9, AdvanceCore
<1>11. CoreType'
  <2>1. chunkStart' \in Nat /\ cbufBase' <= chunkStart' /\ chunkStart' <= consumed'
    BY <1>1, <1>3 DEF CoreType
  <2>2. spent' \in SUBSET Nat /\ bounds' \in SUBSET Nat
    BY <1>1, <1>8 DEF CoreType
  <2> QED
    BY <2>1, <2>2, <1>1, <1>3, <1>5 DEF CoreType
<1>12. SpentBehind => SpentBehind'
  <2>1. \A b \in tooShort : b \in Nat /\ b < minByte
    BY <1>7 DEF tooShort
  <2> QED
    BY <2>1, <1>1, <1>2, <1>6, PolicyAssumption DEF SpentBehind, CoreType
<1> QED
  BY <1>5, <1>8, <1>10, <1>11, <1>12

LEMMA EmitForcedCore ==
    ASSUME CoreInv, SpentBehind \/ HashedAhead, EmitForced
    PROVE  /\ CoreInv' /\ spent' \union bounds' = spent \union bounds
           /\ SpentBehind => SpentBehind'
           /\ hashedTo' >= hashedTo
           /\ CutAt(hits, chunkStart, maxByte) /\ maxByte \in chunkStart..(consumed - 1)
           /\ cur' = Chunk(chunkStart, maxByte, Accepts(hits, chunkStart, maxByte))
           /\ chunkStart' = maxByte + 1
<1>1. CoreType /\ LeadInKept
  BY DEF CoreInv
<1>2. /\ minByte = chunkStart + Min - 1 /\ maxByte \in Nat /\ maxByte >= chunkStart
      /\ maxByte = IF Max = MaxInt THEN MaxInt ELSE chunkStart + Max - 1
  BY <1>1, Numbers
<1>3. NoBoundary /\ maxByte < consumed /\ UNCHANGED <<streamVars, done>>
  BY <1>1, <1>2 DEF EmitForced, CoreType
<1>4. /\ cur' = Chunk(chunkStart, maxByte, FALSE) /\ cur' \in Chunks /\ cur' # NoChunk
      /\ chunkStart' = maxByte + 1 /\ state' = "emitted"
  BY <1>1, <1>2, <1>3, EmitOk DEF EmitForced
<1>5. done \in BOOLEAN /\ ~done
  BY <1>1 DEF CoreInv, CoreType, Control, EmitForced, NoBoundary, LoopExit
<1>6. /\ CoreType' /\ LeadInKept' /\ NotLeftBehind' /\ QueueSound' /\ QueueComplete'
      /\ spent' \union bounds' = spent \union bounds
      /\ SpentBehind => SpentBehind'
      /\ hashedTo' >= hashedTo
  <2>1. maxByte + 1 \in Nat /\ chunkStart <= maxByte + 1 /\ maxByte + 1 <= consumed
        /\ maxByte + 1 <= maxByte + 1
    BY <1>1, <1>2, <1>3 DEF CoreType
  <2>2. UNCHANGED streamVars /\ done' \in BOOLEAN
    BY <1>3, <1>5
  <2> QED
    BY <2>1, <2>2, <1>3, <1>4, <1>5, NoBoundaryCore
<1>7. NoCut(hits, chunkStart, maxByte)
  BY <1>1, <1>2, <1>3, NoCutBefore DEF CoreType
<1>8. ~ Accepts(hits, chunkStart, maxByte)
  <2>1. SUFFICES ASSUME Accepts(hits, chunkStart, maxByte) PROVE FALSE
    OBVIOUS
  <2>2. maxByte \in hits /\ InRange(maxByte)
    BY <2>1, <1>1, <1>2, PolicyAssumption DEF CoreType, Accepts, InRange
  <2> QED
    BY <2>2, <1>2, <1>3, NothingMissed
<1>9. CutAt(hits, chunkStart, maxByte)
  <2>1. ForcedAt(chunkStart, maxByte)
    BY <1>1, <1>2, <1>3, PolicyAssumption, CoreAssumption DEF CoreType, ForcedAt
  <2> QED
    BY <2>1, <1>2, <1>7 DEF CutAt
<1>10. cur' = Chunk(chunkStart, maxByte, Accepts(hits, chunkStart, maxByte))
  BY <1>4, <1>8 DEF Accepts
<1>11. CutsFollowPolicy'
  <2>1. cur'.offset = chunkStart /\ cur'.end = maxByte + 1 /\ cur'.end - 1 = maxByte
    BY <1>2, <1>4 DEF Chunk
  <2> QED
    BY <2>1, <1>3, <1>9, <1>10 DEF CutsFollowPolicy, streamVars
<1>12. Control'
  BY <1>3, <1>4, <1>5 DEF Control
<1>13. maxByte \in chunkStart..(consumed - 1)
  BY <1>1, <1>2, <1>3 DEF CoreType
<1> QED
  BY <1>4, <1>6, <1>9, <1>10, <1>11, <1>12, <1>13 DEF CoreInv

LEMMA EmitFinalCore ==
    ASSUME CoreInv, SpentBehind \/ HashedAhead, EmitFinal
    PROVE  /\ CoreInv' /\ spent' \union bounds' = spent \union bounds
           /\ SpentBehind => SpentBehind'
           /\ hashedTo' >= hashedTo
           /\ NoCut(hits, chunkStart, consumed)
           /\ cur' = Chunk(chunkStart, consumed - 1, FALSE)
           /\ chunkStart' = consumed
<1>1. CoreType /\ LeadInKept
  BY DEF CoreInv
<1>2. maxByte \in Nat /\ maxByte >= chunkStart
  BY <1>1, Numbers
<1>3. /\ NoBoundary /\ consumed <= maxByte /\ UNCHANGED streamVars /\ eof /\ done'
      /\ chunkStart < consumed /\ consumed - 1 \in Nat /\ consumed - 1 + 1 = consumed
  BY <1>1, <1>2 DEF EmitFinal, CoreType
<1>4. /\ cur' = Chunk(chunkStart, consumed - 1, FALSE) /\ cur' \in Chunks /\ cur' # NoChunk
      /\ chunkStart' = consumed /\ state' = "emitted"
  <2>1. chunkStart <= consumed - 1 /\ consumed - 1 < consumed
    BY <1>1, <1>3 DEF CoreType
  <2> QED
    BY <2>1, <1>1, <1>3, EmitOk DEF EmitFinal
<1>5. done' \in BOOLEAN
  BY DEF EmitFinal
<1>6. /\ CoreType' /\ LeadInKept' /\ NotLeftBehind' /\ QueueSound' /\ QueueComplete'
      /\ spent' \union bounds' = spent \union bounds
      /\ SpentBehind => SpentBehind'
      /\ hashedTo' >= hashedTo
  <2>1. consumed \in Nat /\ chunkStart <= consumed /\ consumed <= consumed
        /\ consumed <= maxByte + 1
    BY <1>1, <1>2, <1>3 DEF CoreType
  <2> QED
    BY <2>1, <1>3, <1>4, <1>5, NoBoundaryCore
<1>7. NoCut(hits, chunkStart, consumed)
  BY <1>1, <1>3, NoCutBefore DEF CoreType
<1>8. ~ Accepts(hits, chunkStart, consumed - 1)
  BY <1>1, <1>3, <1>7 DEF NoCut, CoreType
<1>9. CutsFollowPolicy'
  <2>1. cur'.offset = chunkStart /\ cur'.end = consumed /\ cur'.end - 1 = consumed - 1
    BY <1>3, <1>4 DEF Chunk
  <2>2. cur' = Chunk(chunkStart, consumed - 1, Accepts(hits, chunkStart, consumed - 1))
    BY <1>4, <1>8 DEF Accepts
  <2>3. consumed - 1 >= chunkStart
    BY <1>1, <1>3 DEF CoreType
  <2> QED
    BY <2>1, <2>2, <2>3, <1>3, <1>7 DEF CutsFollowPolicy, streamVars
<1>10. Control'
  BY <1>3, <1>4 DEF Control, streamVars
<1> QED
  BY <1>4, <1>6, <1>7, <1>9, <1>10 DEF CoreInv

LEMMA CoreDoneCore ==
    ASSUME CoreInv, SpentBehind \/ HashedAhead, CoreDone
    PROVE  /\ CoreInv' /\ spent' \union bounds' = spent \union bounds
           /\ SpentBehind => SpentBehind'
           /\ hashedTo' >= hashedTo
           /\ chunkStart = consumed
<1>1. CoreType
  BY DEF CoreInv
<1>2. maxByte \in Nat /\ maxByte >= chunkStart
  BY <1>1, Numbers
<1>3. /\ NoBoundary /\ UNCHANGED <<streamVars, chunkStart>> /\ eof /\ done'
      /\ chunkStart = consumed /\ cur' = NoChunk /\ state' = "coreDone"
  BY <1>1 DEF CoreDone, CoreType
<1>4. done' \in BOOLEAN /\ cur' \in Chunks
  BY NoChunkType DEF CoreDone
<1>5. /\ CoreType' /\ LeadInKept' /\ NotLeftBehind' /\ QueueSound' /\ QueueComplete'
      /\ spent' \union bounds' = spent \union bounds
      /\ SpentBehind => SpentBehind'
      /\ hashedTo' >= hashedTo
  <2>1. chunkStart \in Nat /\ chunkStart <= consumed /\ chunkStart <= maxByte + 1
        /\ chunkStart <= chunkStart
    BY <1>1, <1>2 DEF CoreType
  <2>2. UNCHANGED streamVars /\ chunkStart' = chunkStart
    BY <1>3
  <2> QED
    BY <2>1, <2>2, <1>3, <1>4, NoBoundaryCore
<1>6. CutsFollowPolicy' /\ Control'
  BY <1>3 DEF CutsFollowPolicy, Control, streamVars
<1> QED
  BY <1>3, <1>5, <1>6 DEF CoreInv

LEMMA NeedMoreCore ==
    ASSUME CoreInv, SpentBehind \/ HashedAhead, NeedMore
    PROVE  /\ CoreInv' /\ spent' \union bounds' = spent \union bounds
           /\ SpentBehind => SpentBehind'
           /\ hashedTo' >= hashedTo
           /\ NoCut(hits, chunkStart, consumed) /\ consumed <= maxByte
           /\ hashedTo' >= consumed \/ consumed < Window
<1>1. CoreType
  BY DEF CoreInv
<1>2. maxByte \in Nat /\ maxByte >= chunkStart
  BY <1>1, Numbers
<1>3. /\ NoBoundary /\ UNCHANGED <<streamVars, chunkStart, done, cur>>
      /\ consumed <= maxByte /\ state' = "needMore"
  BY <1>1, <1>2 DEF NeedMore, CoreType
<1>4. done' \in BOOLEAN /\ cur' \in Chunks
  BY <1>1, <1>3 DEF CoreType
<1>5. /\ CoreType' /\ LeadInKept' /\ NotLeftBehind' /\ QueueSound' /\ QueueComplete'
      /\ spent' \union bounds' = spent \union bounds
      /\ SpentBehind => SpentBehind'
      /\ hashedTo' >= hashedTo
  <2>1. chunkStart \in Nat /\ chunkStart <= consumed /\ chunkStart <= maxByte + 1
        /\ chunkStart <= chunkStart
    BY <1>1, <1>2 DEF CoreType
  <2> QED
    BY <2>1, <1>3, <1>4, NoBoundaryCore
<1>6. NoCut(hits, chunkStart, consumed)
  BY <1>1, <1>3, NoCutBefore DEF CoreType
<1>7. hashedTo' >= consumed \/ consumed < Window
  <2>1. consumed \in Nat /\ consumed <= consumed /\ consumed <= maxByte + 1
    BY <1>1, <1>2, <1>3 DEF CoreType
  <2> QED
    BY <2>1, <1>3, ExitProgress
<1>8. CutsFollowPolicy'
  BY <1>3 DEF CutsFollowPolicy, streamVars, CoreInv
<1>9. Control'
  BY <1>3 DEF Control, streamVars, CoreInv
<1> QED
  BY <1>3, <1>5, <1>6, <1>7, <1>8, <1>9 DEF CoreInv
-----------------------------------------------------------------------------
(* The policy.  A stream is here its set of hits (marks), of any length.   *)

\* Chunk i is the bytes c[i] .. c[i + 1] - 1.
Chunking(marks, c) == \A i \in 1..(Len(c) - 1) : CutAt(marks, c[i], c[i + 1] - 1)

\* A chunk has one end, so that two readings of a stream agree.
LEMMA OneCut ==
    ASSUME NEW marks, NEW s \in Int, NEW d \in Int, NEW e \in Int,
           CutAt(marks, s, d), CutAt(marks, s, e)
    PROVE  d = e
<1>1. d >= s /\ e >= s
  BY DEF CutAt
<1>2. ASSUME d < e PROVE FALSE
  BY <1>1, <1>2 DEF CutAt, NoCut
<1>3. ASSUME e < d PROVE FALSE
  BY <1>1, <1>3 DEF CutAt, NoCut
<1> QED
  BY <1>2, <1>3

\* A cut depends on the hits from the chunk's start on, and not on where the start is.
LEMMA CutMoves ==
    ASSUME NEW old, NEW new, NEW k \in Int, NEW s \in Int, NEW e \in Int,
           \A d \in Int : d >= s => (d \in old <=> d + k \in new),
           CutAt(old, s, e)
    PROVE  CutAt(new, s + k, e + k)
<1>1. e >= s /\ (Accepts(old, s, e) \/ ForcedAt(s, e)) /\ NoCut(old, s, e)
  BY DEF CutAt
<1>2. Accepts(new, s + k, e + k) \/ ForcedAt(s + k, e + k)
  <2>1. (e + k) - (s + k) + 1 = e - s + 1
    OBVIOUS
  <2> QED
    BY <1>1, <2>1 DEF Accepts, ForcedAt
<1>3. ASSUME NEW d \in (s + k)..((e + k) - 1)
      PROVE  ~ Accepts(new, s + k, d) /\ ~ ForcedAt(s + k, d)
  <2>1. d - k \in s..(e - 1) /\ (d - k) + k = d /\ d - (s + k) + 1 = (d - k) - s + 1
    OBVIOUS
  <2>2. ~ Accepts(old, s, d - k) /\ ~ ForcedAt(s, d - k)
    BY <1>1, <2>1 DEF NoCut
  <2>3. d \in new => d - k \in old
    BY <2>1
  <2> QED
    BY <2>1, <2>2, <2>3 DEF Accepts, ForcedAt
<1> QED
  BY <1>1, <1>2, <1>3 DEF CutAt, NoCut

\* Two streams that agree from a byte on (the second has it k bytes later, as after an
\* edit before it) and share a cut there have the same cuts from there on: the policy of
\* next() looks at nothing before the chunk.
THEOREM Resynchronised ==
    ASSUME NEW old, NEW new, NEW k \in Int, NEW c \in Seq(Int), NEW d \in Seq(Int),
           Chunking(old, c), Chunking(new, d), Len(d) >= Len(c), Len(c) > 0,
           d[1] = c[1] + k,
           \A b \in Int : b >= c[1] => (b \in old <=> b + k \in new)
    PROVE  \A i \in 1..Len(c) : d[i] = c[i] + k
<1>0. Len(c) \in Nat /\ Len(d) \in Nat
  OBVIOUS
<1> DEFINE S == {m \in Nat : m + 1 <= Len(c) => c[m + 1] >= c[1] /\ d[m + 1] = c[m + 1] + k}
<1>1. \A i \in 1..Len(c) : c[i] \in Int /\ d[i] \in Int
  OBVIOUS
<1>2. 0 \in S
  BY <1>1
<1>3. ASSUME NEW m \in S PROVE m + 1 \in S
  <2> SUFFICES ASSUME m + 2 <= Len(c)
               PROVE  c[m + 2] >= c[1] /\ d[m + 2] = c[m + 2] + k
    OBVIOUS
  <2>1. m \in Nat /\ (m + 1 <= Len(c) => c[m + 1] >= c[1] /\ d[m + 1] = c[m + 1] + k)
    OBVIOUS
  <2> HIDE DEF S
  <2>2. m + 1 \in 1..(Len(c) - 1) /\ m + 1 \in 1..(Len(d) - 1) /\ (m + 1) + 1 = m + 2
        /\ m + 1 \in 1..Len(c) /\ m + 2 \in 1..Len(c) /\ 1 \in 1..Len(c)
    <3> DEFINE lc == Len(c)
               ld == Len(d)
    <3>1. lc \in Nat /\ ld \in Nat /\ ld >= lc /\ m + 2 <= lc /\ m \in Nat
      BY <1>0, <2>1, Zenon
    <3> HIDE DEF lc, ld
    <3>2. m + 1 \in 1..(lc - 1) /\ m + 1 \in 1..(ld - 1) /\ (m + 1) + 1 = m + 2
      BY <3>1
    <3>3. m + 1 \in 1..lc /\ m + 2 \in 1..lc /\ 1 \in 1..lc
      BY <3>1
    <3> QED
      BY <3>2, <3>3 DEF lc, ld
  <2> DEFINE first == c[1]
             s == c[m + 1]
             e == c[m + 2]
             f == d[m + 2]
  <2>3. first \in Int /\ s \in Int /\ e \in Int /\ f \in Int
    BY <1>1, <2>2
  <2>4. s >= first /\ d[m + 1] = s + k
    BY <2>1, <2>2
  <2>5. CutAt(old, s, e - 1) /\ CutAt(new, d[m + 1], f - 1)
    BY <2>2 DEF Chunking
  <2>6. \A b \in Int : b >= first => (b \in old <=> b + k \in new)
    OBVIOUS
  <2> HIDE DEF first, s, e, f
  <2>7. e - 1 \in Int /\ f - 1 \in Int /\ s + k \in Int /\ (e - 1) + k \in Int
    BY <2>3
  <2>8. \A b \in Int : b >= s => (b \in old <=> b + k \in new)
    <3> SUFFICES ASSUME NEW b \in Int, b >= s PROVE b \in old <=> b + k \in new
      OBVIOUS
    <3>1. b >= first
      BY <2>3, <2>4
    <3> QED
      BY <2>6, <3>1
  <2>9. CutAt(new, s + k, (e - 1) + k)
    BY <2>3, <2>5, <2>7, <2>8, CutMoves
  <2>10. CutAt(new, s + k, f - 1)
    BY <2>4, <2>5
  <2>11. f - 1 = (e - 1) + k
    BY <2>7, <2>9, <2>10, OneCut
  <2>12. e - 1 >= s
    BY <2>5 DEF CutAt
  <2>13. e >= first /\ f = e + k
    BY <2>3, <2>4, <2>11, <2>12
  <2> QED
    BY <2>13 DEF first, e, f
<1>4. \A m \in Nat : m \in S
  <2>1. S \in SUBSET Nat
    OBVIOUS
  <2> HIDE DEF S
  <2> QED
    BY <1>2, <1>3, <2>1, Induction
<1>5. ASSUME NEW i \in 1..Len(c) PROVE d[i] = c[i] + k
  <2>1. i - 1 \in Nat /\ (i - 1) + 1 = i /\ i <= Len(c)
    OBVIOUS
  <2>2. i - 1 \in S
    BY <1>4, <2>1
  <2> QED
    BY <2>1, <2>2
<1> QED
  BY <1>5

\* Without a lower bound on chunks every hit ends one, so that two such streams share the
\* cut at the first hit after the edit, whatever the cuts before it (Min = 0 is the default,
\* WithBoundaries, chunker.go).
THEOREM EveryHitCuts ==
    ASSUME NEW marks, NEW c \in Seq(Int), NEW e \in Int, Chunking(marks, c), Len(c) > 0,
           Min <= 1, e \in marks, c[1] <= e, e < c[Len(c)]
    PROVE  \E i \in 1..Len(c) : c[i] = e + 1
<1> SUFFICES ASSUME \A i \in 1..Len(c) : c[i] # e + 1 PROVE FALSE
  OBVIOUS
<1> DEFINE S == {m \in Nat : m + 1 <= Len(c) => c[m + 1] <= e}
<1>1. \A i \in 1..Len(c) : c[i] \in Int
  OBVIOUS
<1>2. 0 \in S
  OBVIOUS
<1>3. ASSUME NEW m \in S PROVE m + 1 \in S
  <2> SUFFICES ASSUME m + 2 <= Len(c) PROVE c[m + 2] <= e
    OBVIOUS
  <2> DEFINE s == c[m + 1]
             t == c[m + 2]
  <2>1. m + 1 \in 1..(Len(c) - 1) /\ (m + 1) + 1 = m + 2 /\ m + 1 \in 1..Len(c)
        /\ m + 2 \in 1..Len(c)
    OBVIOUS
  <2>2. s \in Int /\ t \in Int /\ s <= e /\ t # e + 1
    BY <1>1, <2>1
  <2>3. CutAt(marks, s, t - 1)
    BY <2>1 DEF Chunking
  <2> HIDE DEF s, t
  <2>4. \A d \in s..((t - 1) - 1) : ~ Accepts(marks, s, d)
    BY <2>3 DEF CutAt, NoCut
  <2>5. Accepts(marks, s, e)
    BY <2>2, PolicyAssumption DEF Accepts
  <2>6. t <= e
    BY <2>2, <2>4, <2>5
  <2> QED
    BY <2>6 DEF t
<1>4. \A m \in Nat : m \in S
  <2>1. S \in SUBSET Nat
    OBVIOUS
  <2> HIDE DEF S
  <2> QED
    BY <1>2, <1>3, <2>1, Induction
<1>5. Len(c) - 1 \in Nat /\ (Len(c) - 1) + 1 = Len(c)
  OBVIOUS
<1>6. Len(c) - 1 \in S
  BY <1>4, <1>5
<1>7. c[Len(c)] <= e
  BY <1>5, <1>6
<1> QED
  BY <1>1, <1>7

=============================================================================
