------------------------- MODULE ChunkWriterProofs -------------------------
(***************************************************************************)
(* ChunkWriter with Min >= 1 implements content-defined chunking, for      *)
(* every window, mask, bounds, batch size and pattern of Writes.           *)
(***************************************************************************)
EXTENDS ChunkWriter, ChunkerCoreProofs

\* Not the default: with Min = 0 the writer does not follow the policy.
ASSUME MinPositive == Min >= 1

IInv ==
    /\ CoreInv
    /\ SpentBehind
    /\ pending \in 0..(BatchSize - 1)
    /\ consumed + pending <= StreamLimit
    /\ eof => pending = 0
    /\ err = FALSE
    /\ state \in {"ready", "hashing", "emitted", "needMore", "coreDone"}

LEMMA Remainder ==
    ASSUME NEW a \in Nat, NEW b \in Nat \ {0}
    PROVE  a % b \in 0..(b - 1) /\ a % b <= a
<1>1. a % b \in 0..(b - 1)
  OBVIOUS
<1>2. a % b <= a
  <2>1. CASE a < b
    BY <2>1
  <2>2. CASE a >= b
    BY <2>2, <1>1
  <2> QED
    BY <2>1, <2>2
<1> QED
  BY <1>1, <1>2

LEMMA BatchPositive == BatchSize \in Nat \ {0}
  BY PolicyAssumption, CoreAssumption

-----------------------------------------------------------------------------
LEMMA WriteStep ==
    ASSUME IInv, NEW n \in 0..(StreamLimit - consumed - pending), Write(n)
    PROVE  IInv' /\ consumed' + pending' = consumed + pending + n
<1> USE DEF IInv
<1> DEFINE total == pending + n
           rest  == total % BatchSize
<1>1. /\ total \in Nat /\ rest \in 0..(BatchSize - 1) /\ rest <= total
      /\ consumed + total <= StreamLimit
  <2>1. pending \in Nat /\ n \in Nat /\ consumed + pending + n <= StreamLimit
    BY BatchPositive, PolicyAssumption DEF CoreInv, CoreType
  <2>2. total \in Nat /\ consumed + total <= StreamLimit
    BY <2>1 DEF CoreInv, CoreType
  <2> QED
    BY <2>2, BatchPositive, Remainder
<1>2. /\ pending' = rest /\ ~eof
      /\ UNCHANGED <<hits, chunkStart, eof, done, err, cur, state>>
      /\ state \notin {"hashing", "panic"}
  BY DEF Write, Idle
<1>3. CASE total >= BatchSize
  <2>1. Compact /\ consumed' = consumed + (total - rest)
    BY <1>3 DEF Write, Feed
  <2>2. total - rest \in Nat /\ consumed + (total - rest) <= StreamLimit
    <3> HIDE DEF total, rest
    <3> consumed \in Nat /\ rest \in Nat /\ StreamLimit \in Nat
      BY <1>1, BatchPositive, PolicyAssumption DEF CoreInv, CoreType
    <3> QED
      BY <1>1
  <2>3. ~done /\ eof' \in BOOLEAN
    BY <1>2 DEF CoreInv, CoreType, Control
  <2>4. CoreInv' /\ spent' = {}
    BY <2>1, <2>2, <2>3, <1>2, CompactCore
  <2>5. consumed' + pending' = consumed + pending + n /\ consumed' + pending' <= StreamLimit
    BY <2>1, <1>1, <1>2, BatchPositive, PolicyAssumption DEF CoreInv, CoreType
  <2> QED
    BY <2>4, <2>5, <1>1, <1>2 DEF SpentBehind
<1>4. CASE ~ (total >= BatchSize)
  <2>1. /\ UNCHANGED <<hashedTo, cbufBase, spent, bounds, consumed>>
    BY <1>4 DEF Write
  <2>2. rest = total
    BY <1>1, <1>4, BatchPositive
  <2>3. CoreInv' /\ SpentBehind'
    BY <2>1, <1>2 DEF CoreInv, CoreType, LeadInKept, NotLeftBehind, QueueSound,
                      QueueComplete, CutsFollowPolicy, Control, SpentBehind
  <2> QED
    BY <2>1, <2>2, <2>3, <1>1, <1>2, BatchPositive DEF CoreInv, CoreType
<1> QED
  BY <1>3, <1>4

LEMMA CloseStep ==
    ASSUME IInv, Close
    PROVE  IInv' /\ consumed' + pending' = consumed + pending
<1> USE DEF IInv
<1>1. /\ pending' = 0 /\ eof' = TRUE
      /\ UNCHANGED <<hits, chunkStart, done, err, cur, state>>
      /\ state \notin {"hashing", "panic"} /\ pending \in Nat /\ consumed \in Nat
  BY BatchPositive DEF Close, Idle, CoreInv, CoreType
<1>2. CASE pending > 0
  <2>1. Compact /\ consumed' = consumed + pending
    BY <1>2 DEF Close, Feed
  <2>2. ~done /\ eof' \in BOOLEAN
    BY <1>1, <1>2 DEF CoreInv, Control
  <2>3. CoreInv' /\ spent' = {}
    BY <2>1, <2>2, <1>1, CompactCore
  <2> QED
    BY <2>1, <2>3, <1>1, BatchPositive DEF SpentBehind
<1>3. CASE ~ (pending > 0)
  <2>1. UNCHANGED <<hashedTo, cbufBase, spent, bounds, consumed>> /\ pending = 0
    BY <1>1, <1>3 DEF Close
  <2>2. CoreInv' /\ SpentBehind'
    BY <2>1, <1>1 DEF CoreInv, CoreType, LeadInKept, NotLeftBehind, QueueSound,
                      QueueComplete, CutsFollowPolicy, Control, SpentBehind
  <2> QED
    BY <2>1, <2>2, <1>1, BatchPositive
<1> QED
  BY <1>2, <1>3
LEMMA InNextStep ==
    ASSUME IInv, InNext
    PROVE  IInv'
<1>1. CoreInv /\ SpentBehind /\ UNCHANGED <<consumed, pending, eof, err>>
  BY DEF IInv, InNext, CoreStep, HashForward, EmitBoundary, EmitForced, EmitFinal, CoreDone,
         NeedMore, streamVars
<1>2. SUFFICES /\ CoreInv' /\ SpentBehind'
               /\ state' \in {"hashing", "emitted", "needMore", "coreDone"}
  BY <1>1 DEF IInv
<1>3. CASE HashForward
  BY <1>1, <1>3, HashForwardCore DEF HashForward
<1>4. CASE EmitBoundary
  <2>1. state' \in {"emitted", "panic"}
    BY <1>4 DEF EmitBoundary, Emit
  <2> QED
    BY <2>1, <1>1, <1>4, EmitBoundaryCore, MinPositive DEF CoreInv, Control
<1>5. CASE EmitForced
  <2>1. state' \in {"emitted", "panic"}
    BY <1>5 DEF EmitForced, Emit
  <2> QED
    BY <2>1, <1>1, <1>5, EmitForcedCore DEF CoreInv, Control
<1>6. CASE EmitFinal
  <2>1. state' \in {"emitted", "panic"}
    BY <1>6 DEF EmitFinal, Emit
  <2> QED
    BY <2>1, <1>1, <1>6, EmitFinalCore DEF CoreInv, Control
<1>7. CASE CoreDone
  BY <1>1, <1>7, CoreDoneCore DEF CoreDone
<1>8. CASE NeedMore
  BY <1>1, <1>8, NeedMoreCore DEF NeedMore
<1> QED
  BY <1>3, <1>4, <1>5, <1>6, <1>7, <1>8 DEF InNext, CoreStep

\* IInv holds in every reachable state.
THEOREM Invariance == Spec => []IInv
<1>1. Init => IInv
  <2> SUFFICES ASSUME Init PROVE IInv
    OBVIOUS
  <2>1. CoreInv /\ SpentBehind
    BY InitCore DEF Init
  <2> QED
    BY <2>1, BatchPositive, PolicyAssumption DEF Init, CoreInit, IInv
<1>2. IInv /\ [Next]_vars => IInv'
  <2> SUFFICES ASSUME IInv, [Next]_vars PROVE IInv'
    OBVIOUS
  <2>1. ASSUME NEW n \in 0..(StreamLimit - consumed - pending), Write(n) PROVE IInv'
    BY <2>1, WriteStep
  <2>2. CASE Close
    BY <2>2, CloseStep
  <2>3. CASE CallNext
    <3>1. CoreInv' /\ SpentBehind'
      BY <2>3, BeginCore DEF CallNext, IInv
    <3>2. UNCHANGED <<consumed, pending, eof, err>> /\ state' \in {"coreDone", "hashing"}
      BY <2>3 DEF CallNext, Begin, streamVars
    <3> QED
      BY <3>1, <3>2 DEF IInv
  <2>4. CASE InNext
    BY <2>4, InNextStep
  <2>5. CASE Reset
    <3>1. CoreInv' /\ SpentBehind'
      BY <2>5, ResetCore DEF Reset
    <3> QED
      BY <3>1, <2>5, BatchPositive, PolicyAssumption DEF Reset, CoreReset, IInv
  <2>6. CASE UNCHANGED vars
    BY <2>6 DEF vars, coreVars, streamVars, IInv, CoreInv, CoreType, LeadInKept, NotLeftBehind,
                QueueSound, QueueComplete, CutsFollowPolicy, Control, SpentBehind
  <2>7. CASE WriteClosed
    BY <2>7, <2>6 DEF WriteClosed
  <2> QED
    BY <2>1, <2>2, <2>3, <2>4, <2>5, <2>6, <2>7 DEF Next
<1> QED
  BY <1>1, <1>2, PTL DEF Spec

\* Write holds back less than a batch, and Next never panics.
THEOREM TypeCorrect == Spec => []TypeOK
<1>1. IInv => TypeOK
  BY PolicyAssumption DEF IInv, CoreInv, CoreType, TypeOK
<1> QED
  BY <1>1, Invariance, PTL

\* Every chunk the writer emits is the one the policy gives.
THEOREM ChunksFollowPolicy == Spec => []CutsFollowPolicy
<1>1. IInv => CutsFollowPolicy
  BY DEF IInv, CoreInv
<1> QED
  BY <1>1, Invariance, PTL

\* The lead-in of the next window, and every boundary that may still matter,
\* are always in the buffers.
THEOREM NothingLost == Spec => [](LeadInKept /\ QueueComplete)
<1>1. IInv => LeadInKept /\ QueueComplete
  BY DEF IInv, CoreInv
<1> QED
  BY <1>1, Invariance, PTL

\* Next answers "nothing yet" only when the bytes fed fix no cut.
THEOREM NothingYet == Spec => NeedMoreMeansNoCut
<1>1. IInv /\ [Next]_vars =>
        [(state = "hashing" /\ state' = "needMore") => NoCut(hits, chunkStart, consumed)]_coreVars
  <2> SUFFICES ASSUME IInv, [Next]_vars, state = "hashing", state' = "needMore"
               PROVE  NoCut(hits, chunkStart, consumed)
    OBVIOUS
  <2>1. NeedMore
    BY DEF Next, vars, coreVars, Write, WriteClosed, Close, CallNext, InNext, Reset, CoreReset,
           Idle, CoreStep, HashForward, EmitBoundary, EmitForced, EmitFinal, CoreDone, Emit
  <2> QED
    BY <2>1, NeedMoreCore DEF IInv
<1> QED
  BY <1>1, Invariance, PTL DEF Spec, NeedMoreMeansNoCut
\* Batches overlap, but their boundaries are appended once and in order.
THEOREM BoundariesAscend == Spec => QueueAscends
<1>1. IInv /\ [Next]_vars =>
        [HashForward => \A e \in BatchHits(SkipPreMin), b \in spent \union bounds : b < e]_coreVars
  <2> SUFFICES ASSUME IInv, HashForward,
                      NEW e \in BatchHits(SkipPreMin), NEW b \in spent \union bounds
               PROVE  b < e
    OBVIOUS
  <2>1. CoreType /\ LeadInKept /\ QueueSound
    BY DEF IInv, CoreInv
  <2>2. e \in hits /\ Hashable(SkipPreMin)
    BY DEF BatchHits, HashForward
  <2>3. SkipPreMin <= e
    BY <2>1, <2>2, Batch
  <2>4. hashedTo <= SkipPreMin /\ SkipPreMin \in Nat
    BY <2>1, Numbers
  <2>5. b < hashedTo /\ b \in Nat /\ e \in Nat /\ hashedTo \in Nat
    BY <2>1, <2>2, HitOffsets DEF QueueSound, CoreType
  <2> QED
    BY <2>3, <2>4, <2>5
<1> QED
  BY <1>1, Invariance, PTL DEF Spec, QueueAscends

-----------------------------------------------------------------------------
\* The policy means the same in the abstract specification.
LEMMA SameNames ==
    /\ CDC!HitSets = HitSets /\ CDC!NoChunk = NoChunk
    /\ \A s, e, cd : CDC!Chunk(s, e, cd) = Chunk(s, e, cd)
    /\ \A S, s, e : CDC!Accepts(S, s, e) = Accepts(S, s, e)
    /\ \A S, s, n : CDC!NoCut(S, s, n) = NoCut(S, s, n)
    /\ \A S, s, e : CDC!CutAt(S, s, e) = CutAt(S, s, e)
  BY DEF CDC!HitSets, CDC!NoChunk, CDC!NoSum, CDC!SumAt, CDC!Chunk, CDC!Accepts, CDC!ForcedAt,
         CDC!NoCut, CDC!CutAt, HitSets, NoChunk, NoSum, SumAt, Chunk, Accepts, ForcedAt,
         NoCut, CutAt

\* ChunkWriter implements content-defined chunking: a Write or a Close supplies
\* bytes, a selection of Next is a cut, the final chunk or the end, and hashing
\* is invisible.
THEOREM Refinement == Spec => ImplementsContentChunking
<1>1. Init => CDC!Init
  <2> SUFFICES ASSUME Init PROVE CDC!Init
    OBVIOUS
  <2>1. consumed + pending = 0
    BY DEF Init, CoreInit
  <2>2. CDC!HitSets = HitSets /\ CDC!NoChunk = NoChunk
    BY SameNames
  <2> QED
    BY <2>1, <2>2 DEF Init, CoreInit, CDC!Init
<1>2. IInv /\ [Next]_vars => [CDC!Next]_(CDC!vars)
  <2> SUFFICES ASSUME IInv, [Next]_vars PROVE CDC!Next \/ UNCHANGED CDC!vars
    OBVIOUS
  <2> USE DEF CDC!vars
  <2>0. /\ CoreInv /\ SpentBehind /\ CoreType
        /\ consumed \in Nat /\ pending \in Nat /\ consumed + pending <= StreamLimit
        /\ StreamLimit \in Nat /\ (eof => pending = 0)
    BY BatchPositive, PolicyAssumption DEF IInv, CoreInv, CoreType
  <2>1. ASSUME NEW n \in 0..(StreamLimit - consumed - pending), Write(n) PROVE CDC!Next
    <3>1. IInv' /\ consumed' + pending' = consumed + pending + n
      BY <2>1, WriteStep
    <3>2. ~eof /\ UNCHANGED <<hits, eof, chunkStart, cur>>
      BY <2>1 DEF Write
    <3>3. consumed' + pending' \in (consumed + pending)..StreamLimit
      <4>1. n \in Nat /\ consumed + pending + n <= StreamLimit
        BY <2>0
      <4>2. consumed + pending + n \in (consumed + pending)..StreamLimit
        BY <4>1, <2>0
      <4> QED
        BY <4>2, <3>1
    <3>4. eof' \in BOOLEAN
      BY <3>2, <2>0 DEF CoreType
    <3>5. CDC!Supply
      BY <3>2, <3>3, <3>4 DEF CDC!Supply
    <3> QED
      BY <3>5 DEF CDC!Next
  <2>2. CASE Close
    <3>1. consumed' + pending' = consumed + pending
      BY <2>2, CloseStep
    <3>2. eof' = TRUE /\ UNCHANGED <<hits, chunkStart, cur>>
      BY <2>2 DEF Close
    <3>3. CASE eof
      BY <3>1, <3>2, <3>3
    <3>4. CASE ~eof
      <4>1. consumed' + pending' \in (consumed + pending)..StreamLimit
        BY <3>1, <2>0
      <4>2. CDC!Supply
        BY <3>2, <3>4, <4>1 DEF CDC!Supply
      <4> QED
        BY <4>2 DEF CDC!Next
    <3> QED
      BY <3>3, <3>4
  <2>3. CASE CallNext
    <3>1. UNCHANGED <<hits, consumed, pending, eof, chunkStart>> /\ consumed + pending = consumed' + pending'
      BY <2>3 DEF CallNext, Begin, streamVars
    <3>2. CASE done
      <4>1. eof /\ chunkStart = consumed + pending
        BY <3>2, <2>0 DEF CoreInv, Control
      <4>2. cur' = NoChunk
        BY <2>3, <3>2 DEF CallNext, Begin
      <4>3. CDC!Exhausted
        BY <3>1, <4>1, <4>2, SameNames DEF CDC!Exhausted
      <4> QED
        BY <4>3 DEF CDC!Next
    <3>3. CASE ~done
      BY <2>3, <3>1, <3>3 DEF CallNext, Begin, IInv
    <3> QED
      BY <3>2, <3>3
  <2>4. CASE InNext
    <3>1. UNCHANGED <<hits, consumed, pending, eof>> /\ consumed + pending = consumed' + pending'
      BY <2>4 DEF InNext, CoreStep, HashForward, EmitBoundary, EmitForced, EmitFinal,
                  CoreDone, NeedMore, streamVars
    <3>2. ASSUME NEW e \in chunkStart..(consumed - 1),
                 CutAt(hits, chunkStart, e),
                 cur' = Chunk(chunkStart, e, Accepts(hits, chunkStart, e)),
                 chunkStart' = e + 1
          PROVE  CDC!Next
      <4>1. e \in chunkStart..((consumed + pending) - 1)
        BY <2>0 DEF CoreType
      <4>2. /\ CDC!CutAt(hits, chunkStart, e)
            /\ cur' = CDC!Chunk(chunkStart, e, CDC!Accepts(hits, chunkStart, e))
        BY <3>2, SameNames
      <4>3. CDC!Cut
        BY <3>1, <3>2, <4>1, <4>2 DEF CDC!Cut
      <4> QED
        BY <4>3 DEF CDC!Next
    <3>3. CASE HashForward
      BY <3>1, <3>3 DEF HashForward
    <3>4. CASE EmitBoundary
      BY <3>2, <3>4, <2>0, EmitBoundaryCore
    <3>5. CASE EmitForced
      BY <3>2, <3>5, <2>0, EmitForcedCore
    <3>6. CASE EmitFinal
      <4>1. /\ NoCut(hits, chunkStart, consumed)
            /\ cur' = Chunk(chunkStart, consumed - 1, FALSE)
            /\ chunkStart' = consumed /\ eof /\ chunkStart < consumed /\ pending = 0
        BY <3>6, <2>0, EmitFinalCore DEF EmitFinal
      <4>2. consumed + pending = consumed
        BY <4>1, <2>0
      <4>3. CDC!Final
        BY <3>1, <4>1, <4>2, SameNames DEF CDC!Final
      <4> QED
        BY <4>3 DEF CDC!Next
    <3>7. CASE CoreDone
      <4>1. /\ chunkStart = consumed /\ eof /\ cur' = NoChunk /\ chunkStart' = chunkStart
            /\ pending = 0
        BY <3>7, <2>0, CoreDoneCore DEF CoreDone
      <4>2. consumed + pending = consumed
        BY <4>1, <2>0
      <4>3. CDC!Exhausted
        BY <3>1, <4>1, <4>2, SameNames DEF CDC!Exhausted
      <4> QED
        BY <4>3 DEF CDC!Next
    <3>8. CASE NeedMore
      BY <3>1, <3>8 DEF NeedMore
    <3> QED
      BY <2>4, <3>3, <3>4, <3>5, <3>6, <3>7, <3>8 DEF InNext, CoreStep
  <2>5. CASE Reset
    <3>1. consumed' + pending' = 0
      BY <2>5 DEF Reset, CoreReset
    <3>2. CDC!Reset
      BY <2>5, <3>1, SameNames DEF Reset, CoreReset, CDC!Reset
    <3> QED
      BY <3>2 DEF CDC!Next
  <2>6. CASE UNCHANGED vars \/ WriteClosed
    BY <2>6 DEF WriteClosed, vars, coreVars, streamVars
  <2> QED
    BY <2>1, <2>2, <2>3, <2>4, <2>5, <2>6 DEF Next
<1> QED
  BY <1>1, <1>2, Invariance, PTL DEF Spec, CDC!Spec, ImplementsContentChunking
=============================================================================
