---------------------------- MODULE BatchProofs ----------------------------
(***************************************************************************)
(* BatchRoller and BatchWriter implement batched rolling, for every window,*)
(* batch size and stream, however a reader answers and however the stream  *)
(* is cut into writes.  Both proofs rest on the inductive invariant of     *)
(* their common core, batchRollerCore, and on the lemmas about its steps.  *)
(***************************************************************************)
EXTENDS BatchRoller, BatchWriter, TLAPS

-----------------------------------------------------------------------------
(* batchRollerCore *)

\* What a cell can hold: nothing yet, or a byte of the stream.
Content == Unset..(StreamLimit - 1)

CoreType ==
    /\ fed \in 0..StreamLimit
    /\ cells \in [1..StreamLimit -> Content]
    /\ len \in 0..fed
    /\ carry \in {0, Window - 1}
    /\ prevN \in 0..len
    /\ dataLen \in 0..BatchSize
    /\ sums \in Seq(Int)
    /\ offset \in 0..fed
    /\ eof \in BOOLEAN /\ done \in BOOLEAN /\ err \in BOOLEAN

\* The accumulator holds the last len bytes of the stream, in order.
BufferHolds == \A i \in 1..len : cells[i] = (fed - len) + (i - 1)

\* What next() will drop of the previous batch leaves a carry, unless it will drop nothing.
PreviousKept == prevN > 0 => prevN >= Window /\ (done \/ carry = Window - 1)

\* offset is that of the first byte of the accumulator, unless a call has cleared it.
OffsetTrue == done \/ err \/ offset = fed - len

\* The batch handed out is still at the front of the accumulator.
BatchShown ==
    state = "emitted" =>
        /\ dataLen = prevN /\ prevN > 0
        /\ offset = fed - len
        /\ sums = [i \in 1..(dataLen - (Window - 1)) |-> offset + (i - 1)]

\* The last window was delivered when the code says so.
AllDelivered == done => eof /\ undelivered + Window > fed

CoreInv ==
    /\ CoreType
    /\ BufferHolds
    /\ PreviousKept
    /\ OffsetTrue
    /\ BatchShown
    /\ AllDelivered

LEMMA Sizes ==
    /\ Window \in Nat /\ Window >= 1
    /\ StreamLimit \in Nat
    /\ BatchSize \in Nat /\ BatchSize >= Window
  BY BatchAssumption

-----------------------------------------------------------------------------
LEMMA InitCore ==
    ASSUME CoreInit
    PROVE  CoreInv
<1>1. cells \in [1..StreamLimit -> Content] /\ sums \in Seq(Int)
  <2>1. Unset \in Content
    BY Sizes DEF Content, Unset
  <2> QED
    BY <2>1 DEF CoreInit
<1>2. /\ fed = 0 /\ len = 0 /\ carry = 0 /\ prevN = 0 /\ dataLen = 0 /\ offset = 0
  BY DEF CoreInit
<1>3. eof \in BOOLEAN /\ done \in BOOLEAN /\ err \in BOOLEAN
  BY DEF CoreInit
<1>4. CoreType
  BY <1>1, <1>2, <1>3, Sizes DEF CoreType
<1> QED
  BY <1>4, Sizes DEF CoreInit, CoreInv, BufferHolds, PreviousKept, OffsetTrue, BatchShown,
                     AllDelivered

LEMMA ResetCore ==
    ASSUME CoreInv, CoreReset
    PROVE  CoreInv' /\ undelivered' = 0
<1>1. cells' \in [1..StreamLimit -> Content] /\ sums' \in Seq(Int)
  BY DEF CoreReset, CoreInv, CoreType
<1>2. /\ fed' = 0 /\ len' = 0 /\ carry' = 0 /\ prevN' = 0 /\ dataLen' = 0 /\ offset' = 0
  BY DEF CoreReset
<1>3. eof' \in BOOLEAN /\ done' \in BOOLEAN /\ err' \in BOOLEAN
  BY DEF CoreReset
<1>4. CoreType'
  BY <1>1, <1>2, <1>3, Sizes DEF CoreType
<1> QED
  BY <1>4, Sizes DEF CoreReset, CoreInv, BufferHolds, PreviousKept, OffsetTrue, BatchShown,
                     AllDelivered, undelivered

\* New bytes join the accumulator behind the ones it has, whatever is handed out.
LEMMA FeedCore ==
    ASSUME CoreInv, NEW n \in Nat, fed + n <= StreamLimit, Feed(n),
           ~done, ~err, eof' \in BOOLEAN, err' \in BOOLEAN,
           state' = state \/ state' # "emitted",
           UNCHANGED <<carry, prevN, dataLen, sums, offset, done>>
    PROVE  /\ CoreInv'
           /\ undelivered' = undelivered
           /\ fed' = fed + n /\ len' = len + n
           /\ state' = state => batch' = batch
<1> USE DEF CoreInv
<1>1. /\ fed \in Nat /\ len \in Nat /\ prevN \in Nat /\ len <= fed
      /\ cells \in [1..StreamLimit -> Content]
      /\ fed' = fed + n /\ len' = len + n
      /\ fed' - len' = fed - len
      /\ cells' = [i \in 1..StreamLimit |->
                     IF i \in (len + 1)..(len + n) THEN fed + i - (len + 1) ELSE cells[i]]
  BY Sizes DEF CoreType, Feed, Appended
<1>2. CoreType'
  <2>1. cells' \in [1..StreamLimit -> Content]
    <3> SUFFICES ASSUME NEW i \in 1..StreamLimit, i \in (len + 1)..(len + n)
                 PROVE  fed + i - (len + 1) \in Content
      BY <1>1
    <3> QED
      BY <1>1, Sizes DEF Content, Unset
  <2> QED
    BY <1>1, <2>1, Sizes DEF CoreType
<1>3. \A i \in 1..len : cells'[i] = cells[i]
  BY <1>1, Sizes
<1>4. BufferHolds'
  <2> SUFFICES ASSUME NEW i \in 1..len' PROVE cells'[i] = (fed' - len') + (i - 1)
    BY DEF BufferHolds
  <2>1. CASE i <= len
    BY <1>1, <1>3, <2>1 DEF BufferHolds
  <2>2. CASE i > len
    BY <1>1, <2>2, Sizes
  <2> QED
    BY <2>1, <2>2, <1>1
<1>5. undelivered' = undelivered
  BY <1>1 DEF undelivered
<1>6. PreviousKept' /\ OffsetTrue' /\ BatchShown' /\ AllDelivered'
  BY <1>1 DEF PreviousKept, OffsetTrue, BatchShown, AllDelivered
<1>7. ASSUME state' = state PROVE batch' = batch
  <2>1. CASE state = "emitted"
    <3>1. dataLen \in Nat /\ dataLen <= len
      BY <1>1, <2>1 DEF CoreType, BatchShown
    <3>2. \A i \in 1..dataLen : cells'[i] = cells[i]
      BY <1>1, <1>3, <3>1
    <3>3. SubSeq(cells', 1, dataLen) = SubSeq(cells, 1, dataLen)
      BY <3>1, <3>2
    <3> QED
      BY <1>7, <3>3 DEF batch
  <2>2. CASE state # "emitted"
    BY <1>7, <2>2 DEF batch
  <2> QED
    BY <2>1, <2>2
<1> QED
  BY <1>1, <1>2, <1>4, <1>5, <1>6, <1>7

-----------------------------------------------------------------------------
(* next() *)

\* Dropping the previous batch brings the first window not delivered to the front.
LEMMA DropCore ==
    ASSUME CoreInv, DropPrevious
    PROVE  /\ ~done /\ ~err
           /\ fed' = fed
           /\ len' \in 0..len
           /\ dropped \in Nat /\ dropped = len - len'
           /\ undelivered = fed - len'
           /\ cells' \in [1..StreamLimit -> Content]
           /\ \A i \in 1..len' : cells'[i] = (fed - len') + (i - 1)
<1> USE DEF CoreInv
<1>1. ~done /\ ~err /\ fed' = fed /\ len' = len - dropped /\ cells' = Moved(dropped)
  BY DEF DropPrevious
<1>2. /\ fed \in Nat /\ len \in Nat /\ prevN \in Nat /\ fed <= StreamLimit
      /\ len <= fed /\ prevN <= len
      /\ cells \in [1..StreamLimit -> Content]
  BY Sizes DEF CoreType
<1>3. /\ dropped \in Nat /\ dropped <= len
      /\ undelivered = fed - (len - dropped)
  BY <1>1, <1>2, Sizes DEF PreviousKept, dropped, undelivered
<1> HIDE DEF CoreInv
<1>4. len' \in 0..len /\ dropped = len - len' /\ undelivered = fed - len'
  BY <1>1, <1>2, <1>3
<1> DEFINE k == dropped
           m == len'
<1>5. /\ k \in Nat /\ m \in Nat /\ m + k = len
      /\ cells' = [i \in 1..StreamLimit |-> IF i <= m THEN cells[i + k] ELSE cells[i]]
  BY <1>1, <1>2, <1>3, <1>4 DEF Moved
<1> HIDE DEF k, m
<1>6. \A i \in 1..m : i + k \in 1..len /\ i + k \in 1..StreamLimit /\ i \in 1..StreamLimit
  BY <1>2, <1>5, Sizes
<1>7. cells' \in [1..StreamLimit -> Content]
  <2> SUFFICES ASSUME NEW i \in 1..StreamLimit
               PROVE  (IF i <= m THEN cells[i + k] ELSE cells[i]) \in Content
    BY <1>5
  <2>1. CASE i <= m
    <3>1. i + k \in 1..StreamLimit
      BY <1>5, <1>6, <2>1, Sizes
    <3> QED
      BY <1>2, <2>1, <3>1
  <2>2. CASE ~ (i <= m)
    BY <1>2, <2>2
  <2> QED
    BY <2>1, <2>2
<1>8. ASSUME NEW i \in 1..m PROVE cells'[i] = (fed - m) + (i - 1)
  <2>1. i \in 1..StreamLimit /\ i <= m /\ i \in Int /\ i + k \in 1..len
    BY <1>2, <1>5, <1>6
  <2>2. cells'[i] = cells[i + k]
    BY <1>5, <2>1
  <2>3. cells[i + k] = (fed - len) + ((i + k) - 1)
    BY <2>1 DEF CoreInv, BufferHolds
  <2> QED
    BY <2>1, <2>2, <2>3, <1>2, <1>5
<1> QED
  BY <1>1, <1>3, <1>4, <1>7, <1>8 DEF m

LEMMA NeedMoreCore ==
    ASSUME CoreInv, NeedMore
    PROVE  /\ CoreInv'
           /\ ~eof /\ ~done /\ ~err
           /\ fed' = fed /\ len' \in 0..len /\ len' < Window
           /\ undelivered' = undelivered
           /\ state' = "needMore"
<1>1. /\ DropPrevious
      /\ len' < Window /\ ~eof /\ prevN' = 0
      /\ offset' = offset + dropped
      /\ state' = "needMore"
      /\ UNCHANGED <<carry, dataLen, sums, eof, done, err>>
  BY DEF NeedMore
<1>2. /\ ~done /\ ~err /\ fed' = fed
      /\ len' \in 0..len /\ dropped \in Nat /\ dropped = len - len'
      /\ undelivered = fed - len'
      /\ cells' \in [1..StreamLimit -> Content]
      /\ \A i \in 1..len' : cells'[i] = (fed - len') + (i - 1)
  BY <1>1, DropCore
<1>3. /\ fed \in 0..StreamLimit /\ len \in 0..fed /\ offset = fed - len
      /\ carry \in {0, Window - 1} /\ dataLen \in 0..BatchSize /\ sums \in Seq(Int)
  BY <1>2 DEF CoreInv, CoreType, OffsetTrue
<1>4. offset' = fed' - len' /\ undelivered' = undelivered
  BY <1>1, <1>2, <1>3 DEF undelivered
<1>5. CoreType'
  <2>1. eof' \in BOOLEAN /\ done' \in BOOLEAN /\ err' \in BOOLEAN
    BY <1>1 DEF CoreInv, CoreType
  <2>2. /\ fed' \in 0..StreamLimit /\ len' \in 0..fed' /\ prevN' \in 0..len'
        /\ offset' \in 0..fed'
    <3> DEFINE f == fed'
               m == len'
               o == offset'
    <3>1. f = fed /\ m \in 0..len /\ o = f - m
      BY <1>2, <1>4
    <3> HIDE DEF f, m, o
    <3>2. f \in 0..StreamLimit /\ m \in 0..f /\ 0 \in 0..m /\ o \in 0..f
      BY <1>3, <3>1, Sizes
    <3> QED
      BY <1>1, <3>2 DEF f, m, o
  <2> QED
    BY <1>1, <1>2, <1>3, <2>1, <2>2 DEF CoreType
<1>6. BufferHolds'
  BY <1>2 DEF BufferHolds
<1>7. PreviousKept' /\ OffsetTrue' /\ BatchShown' /\ AllDelivered'
  BY <1>1, <1>2, <1>4 DEF PreviousKept, OffsetTrue, BatchShown, AllDelivered
<1> QED
  BY <1>1, <1>2, <1>4, <1>5, <1>6, <1>7 DEF CoreInv

LEMMA CoreDoneCore ==
    ASSUME CoreInv, CoreDone
    PROVE  /\ CoreInv'
           /\ eof /\ ~err
           /\ fed' = fed /\ len' \in 0..len
           /\ undelivered' = undelivered /\ undelivered + Window > fed
           /\ state' = "coreDone"
<1>1. /\ DropPrevious
      /\ len' < Window /\ eof /\ prevN' = 0
      /\ dataLen' = 0 /\ sums' = <<>> /\ offset' = 0
      /\ done' = TRUE /\ state' = "coreDone"
      /\ UNCHANGED <<carry, eof, err>>
  BY DEF CoreDone
<1>2. /\ ~done /\ ~err /\ fed' = fed
      /\ len' \in 0..len /\ dropped \in Nat /\ dropped = len - len'
      /\ undelivered = fed - len'
      /\ cells' \in [1..StreamLimit -> Content]
      /\ \A i \in 1..len' : cells'[i] = (fed - len') + (i - 1)
  BY <1>1, DropCore
<1>3. /\ fed \in 0..StreamLimit /\ len \in 0..fed /\ offset = fed - len
      /\ carry \in {0, Window - 1} /\ dataLen \in 0..BatchSize /\ sums \in Seq(Int)
  BY <1>2 DEF CoreInv, CoreType, OffsetTrue
<1>4. undelivered' = undelivered /\ undelivered + Window > fed /\ fed' - len' = undelivered
  BY <1>1, <1>2, <1>3, Sizes DEF undelivered
<1>5. CoreType'
  <2>1. eof' \in BOOLEAN /\ done' \in BOOLEAN /\ err' \in BOOLEAN
    BY <1>1 DEF CoreInv, CoreType
  <2>2. /\ fed' \in 0..StreamLimit /\ len' \in 0..fed' /\ prevN' \in 0..len'
        /\ offset' \in 0..fed' /\ dataLen' \in 0..BatchSize
    BY <1>1, <1>2, <1>3, <1>4, Sizes
  <2>3. sums' \in Seq(Int)
    BY <1>1
  <2> QED
    BY <1>1, <1>2, <1>3, <2>1, <2>2, <2>3 DEF CoreType
<1>6. BufferHolds'
  BY <1>2 DEF BufferHolds
<1>7. PreviousKept' /\ OffsetTrue' /\ BatchShown'
  BY <1>1, <1>2 DEF PreviousKept, OffsetTrue, BatchShown
<1>8. AllDelivered'
  BY <1>1, <1>2, <1>4 DEF AllDelivered
<1> QED
  BY <1>1, <1>2, <1>4, <1>5, <1>6, <1>7, <1>8 DEF CoreInv

\* A batch is the next windows of the stream, with its bytes.
LEMMA EmitCore ==
    ASSUME CoreInv, Emit
    PROVE  /\ CoreInv'
           /\ ~err
           /\ fed' = fed /\ len' \in 0..len
           /\ dataLen' \in Window..(fed - undelivered)
           /\ undelivered' = undelivered + (dataLen' - (Window - 1))
           /\ state' = "emitted"
           /\ offset' = undelivered
           /\ SubSeq(cells', 1, dataLen') = [i \in 1..dataLen' |-> undelivered + (i - 1)]
           /\ sums' = [i \in 1..(dataLen' - (Window - 1)) |-> undelivered + (i - 1)]
<1> DEFINE m == len'
           n == IF m <= BatchSize THEN m ELSE BatchSize
<1>1. /\ DropPrevious
      /\ m >= Window
      /\ dataLen' = n
      /\ sums' = [i \in 1..(n - Window + 1) |-> cells'[i]]
      /\ done' = (eof /\ n = m)
      /\ carry' = IF eof /\ n = m THEN 0 ELSE Window - 1
      /\ prevN' = n
      /\ offset' = offset + dropped /\ state' = "emitted"
      /\ UNCHANGED <<eof, err>>
  BY DEF Emit
<1>2. /\ ~done /\ ~err /\ fed' = fed
      /\ m \in 0..len /\ dropped \in Nat /\ dropped = len - m
      /\ undelivered = fed - m
      /\ cells' \in [1..StreamLimit -> Content]
      /\ \A i \in 1..m : cells'[i] = (fed - m) + (i - 1)
  BY <1>1, DropCore
<1>3. /\ fed \in 0..StreamLimit /\ len \in 0..fed /\ offset = fed - len
      /\ carry \in {0, Window - 1} /\ dataLen \in 0..BatchSize /\ sums \in Seq(Int)
  BY <1>2 DEF CoreInv, CoreType, OffsetTrue
<1>0. len' = m
  OBVIOUS
<1> HIDE DEF m
<1>4. /\ fed \in Nat /\ m \in Nat /\ m <= fed /\ len \in Nat /\ m <= len
      /\ n \in Nat /\ n >= Window /\ n <= m /\ n <= BatchSize
      /\ n - Window + 1 = n - (Window - 1)
  <2>1. m \in Nat /\ m <= len /\ len \in Nat /\ len <= fed /\ fed \in Nat
    BY <1>2, <1>3, Sizes
  <2>2. n \in Nat /\ n >= Window /\ n <= m /\ n <= BatchSize
    BY <1>1, <2>1, Sizes
  <2> HIDE DEF n
  <2> QED
    BY <2>1, <2>2, Sizes
<1> HIDE DEF n
<1>5. /\ offset' = undelivered /\ undelivered = fed' - len' /\ undelivered \in Nat
      /\ n \in Window..(fed - undelivered)
  BY <1>0, <1>1, <1>2, <1>3, <1>4, Sizes
<1>6. undelivered' = undelivered + (n - (Window - 1))
  <2>1. prevN' > 0
    BY <1>1, <1>4, Sizes
  <2>2. undelivered' = fed' - len' + (n - (Window - 1))
    BY <2>1, <1>1 DEF undelivered
  <2> QED
    BY <2>2, <1>5
<1>7. \A i \in 1..n : cells'[i] = undelivered + (i - 1)
  BY <1>2, <1>3, <1>4, Sizes
<1>8. sums' = [i \in 1..(n - (Window - 1)) |-> undelivered + (i - 1)]
  <2>1. \A i \in 1..(n - (Window - 1)) : i \in 1..n
    BY <1>4, Sizes
  <2> QED
    BY <2>1, <1>1, <1>4, <1>7
<1>9. SubSeq(cells', 1, n) = [i \in 1..n |-> undelivered + (i - 1)]
  BY <1>4, <1>7
<1>10. CoreType'
  <2>1. eof' \in BOOLEAN /\ done' \in BOOLEAN /\ err' \in BOOLEAN
    BY <1>1 DEF CoreInv, CoreType
  <2>2. /\ fed' \in 0..StreamLimit /\ len' \in 0..fed' /\ prevN' \in 0..len'
        /\ offset' \in 0..fed' /\ dataLen' \in 0..BatchSize
        /\ carry' \in {0, Window - 1}
    <3> DEFINE f == fed'
               o == offset'
               c == carry'
    <3>1. f = fed /\ o = fed - m /\ c \in {0, Window - 1}
      BY <1>1, <1>2, <1>5
    <3> HIDE DEF f, o, c
    <3>2. /\ f \in 0..StreamLimit /\ m \in 0..f /\ n \in 0..m
          /\ o \in 0..f /\ n \in 0..BatchSize
      BY <1>3, <1>4, <3>1, Sizes
    <3> QED
      BY <1>0, <1>1, <3>1, <3>2 DEF f, o, c
  <2>3. sums' \in Seq(Int)
    <3>1. undelivered \in Int /\ n - (Window - 1) \in Nat
      BY <1>2, <1>3, <1>4, Sizes
    <3> QED
      BY <3>1, <1>8
  <2> QED
    BY <1>2, <2>1, <2>2, <2>3 DEF CoreType
<1>11. BufferHolds'
  BY <1>0, <1>2 DEF BufferHolds
<1>12. PreviousKept' /\ OffsetTrue' /\ BatchShown'
  <2>1. prevN' > 0 /\ prevN' >= Window
    BY <1>1, <1>4, Sizes
  <2>2. done' \/ carry' = Window - 1
    BY <1>1
  <2>3. offset' = fed' - len'
    BY <1>5
  <2>4. dataLen' = prevN'
    BY <1>1
  <2>5. sums' = [i \in 1..(dataLen' - (Window - 1)) |-> offset' + (i - 1)]
    BY <1>1, <1>5, <1>8
  <2> QED
    BY <2>1, <2>2, <2>3, <2>4, <2>5 DEF PreviousKept, OffsetTrue, BatchShown
<1>13. AllDelivered'
  <2> SUFFICES ASSUME done' PROVE eof' /\ undelivered' + Window > fed'
    BY DEF AllDelivered
  <2>1. eof' /\ n = m
    BY <1>1
  <2>2. undelivered' = fed - m + (m - (Window - 1))
    BY <2>1, <1>2, <1>6
  <2>3. fed - m + (m - (Window - 1)) + Window > fed
    BY <1>4, Sizes
  <2>4. undelivered' + Window > fed'
    BY <2>2, <2>3, <1>2
  <2> QED
    BY <2>1, <2>4
<1> QED
  BY <1>0, <1>1, <1>2, <1>5, <1>6, <1>8, <1>9, <1>10, <1>11, <1>12, <1>13 DEF CoreInv

LEMMA AgainDoneCore ==
    ASSUME CoreInv, AgainDone
    PROVE  /\ CoreInv'
           /\ undelivered' = undelivered
           /\ state' = "coreDone"
<1>1. /\ err \/ done
      /\ dataLen' = 0 /\ sums' = <<>> /\ offset' = 0
      /\ state' = "coreDone"
      /\ UNCHANGED <<fed, cells, len, carry, prevN, eof, done, err>>
  BY DEF AgainDone, bufVars
<1>2. undelivered' = undelivered
  BY <1>1 DEF undelivered
<1>3. CoreType'
  <2>1. offset' \in 0..fed /\ dataLen' \in 0..BatchSize
    BY <1>1, Sizes DEF CoreInv, CoreType
  <2>2. sums' \in Seq(Int)
    BY <1>1
  <2> QED
    BY <1>1, <2>1, <2>2 DEF CoreInv, CoreType
<1> QED
  BY <1>1, <1>2, <1>3
     DEF CoreInv, BufferHolds, PreviousKept, OffsetTrue, BatchShown, AllDelivered

-----------------------------------------------------------------------------
(* BatchRoller *)

\* A tail is filled only for a core that has asked for more.
Filling ==
    state \in {"needMore", "reading"} => ~eof /\ ~done /\ ~err /\ len < Window

\* A failed reader has not reached the end, and its roller makes no more calls of it.
Failed == err => ~eof /\ state \in {"failed", "coreDone"}

IInv ==
    /\ CoreInv
    /\ filled \in 0..readSize
    /\ filled > 0 => state = "reading"
    /\ fed + filled <= StreamLimit
    /\ len <= (Window - 1) + readSize
    /\ Filling
    /\ Failed
    /\ state \in {"ready", "emitted", "coreDone", "failed", "calling", "needMore", "reading"}

-----------------------------------------------------------------------------
\* A call of the core's next(), by Next or its loop.
CoreCall ==
    /\ state \in {"ready", "emitted", "coreDone", "failed", "calling"}
    /\ CoreNext
    /\ UNCHANGED filled

LEMMA Calls ==
    ASSUME CallNext \/ Loop
    PROVE  CoreCall
  BY DEF CallNext, Loop, Idle, CoreCall

LEMMA CoreCallStep ==
    ASSUME IInv, CoreCall
    PROVE  IInv'
<1>1. /\ CoreInv /\ filled' = filled /\ state # "reading"
      /\ filled \in 0..readSize /\ fed + filled <= StreamLimit
      /\ len \in Nat /\ len <= (Window - 1) + readSize /\ ~ (filled > 0)
  BY Sizes DEF CoreCall, IInv, CoreInv, CoreType
<1>2. ASSUME fed' = fed, len' \in 0..len
      PROVE  /\ filled' \in 0..readSize /\ ~ (filled' > 0)
             /\ fed' + filled' <= StreamLimit /\ len' <= (Window - 1) + readSize
  <2> DEFINE m == len'
  <2>1. m \in 0..len
    BY <1>2
  <2> HIDE DEF m
  <2>2. m <= (Window - 1) + readSize
    BY <1>1, <2>1, Sizes DEF readSize
  <2> QED
    BY <1>1, <1>2, <2>2 DEF m
<1>3. CASE AgainDone
  <2>1. CoreInv' /\ state' = "coreDone"
    BY <1>1, <1>3, AgainDoneCore
  <2>2. fed' = fed /\ len' = len /\ eof' = eof /\ err' = err
    BY <1>3 DEF AgainDone, bufVars
  <2>3. len' \in 0..len
    BY <1>1, <2>2
  <2>4. Filling' /\ Failed'
    BY <2>1, <2>2 DEF IInv, Filling, Failed
  <2> QED
    BY <1>2, <2>1, <2>2, <2>3, <2>4 DEF IInv
<1>4. CASE NeedMore
  <2>1. /\ CoreInv' /\ ~eof /\ ~done /\ ~err
        /\ fed' = fed /\ len' \in 0..len /\ len' < Window /\ state' = "needMore"
    BY <1>1, <1>4, NeedMoreCore
  <2>2. eof' = eof /\ done' = done /\ err' = err
    BY <1>4 DEF NeedMore
  <2>3. Filling' /\ Failed'
    BY <2>1, <2>2 DEF Filling, Failed
  <2> QED
    BY <1>2, <2>1, <2>3 DEF IInv
<1>5. CASE CoreDone
  <2>1. CoreInv' /\ ~err /\ fed' = fed /\ len' \in 0..len /\ state' = "coreDone" /\ err' = err
    BY <1>1, <1>5, CoreDoneCore DEF CoreDone
  <2>2. Filling' /\ Failed'
    BY <2>1 DEF Filling, Failed
  <2> QED
    BY <1>2, <2>1, <2>2 DEF IInv
<1>6. CASE Emit
  <2>1. CoreInv' /\ ~err /\ fed' = fed /\ len' \in 0..len /\ state' = "emitted" /\ err' = err
    BY <1>1, <1>6, EmitCore DEF Emit
  <2>2. Filling' /\ Failed'
    BY <2>1 DEF Filling, Failed
  <2> QED
    BY <1>2, <2>1, <2>2 DEF IInv
<1> QED
  BY <1>3, <1>4, <1>5, <1>6 DEF CoreCall, CoreNext

\* Whatever its last Read answers, fillCore appends the block to the stream and
\* delivers nothing.
LEMMA CommitStep ==
    ASSUME IInv, NEW m \in 0..(StreamLimit - fed - filled),
           ReadFull(m) \/ ReadEOF(m) \/ ReadError(m)
    PROVE  /\ IInv'
           /\ ~eof /\ eof' \in BOOLEAN
           /\ fed' \in fed..StreamLimit
           /\ undelivered' = undelivered
           /\ state \notin {"emitted"} /\ state' \in {"calling", "failed"}
<1>1. /\ CommitTail(m)
      /\ eof' \in BOOLEAN /\ err' \in BOOLEAN
      /\ state' \in {"calling", "failed"}
      /\ err' => state' = "failed" /\ eof' = eof
  <2>1. state = "reading" /\ eof \in BOOLEAN /\ err = FALSE
    BY DEF ReadFull, ReadEOF, ReadError, CommitTail, IInv, CoreInv, CoreType, Filling
  <2>2. CASE ReadFull(m)
    BY <2>1, <2>2 DEF ReadFull
  <2>3. CASE ReadEOF(m)
    BY <2>1, <2>3 DEF ReadEOF
  <2>4. CASE ReadError(m)
    BY <2>1, <2>4 DEF ReadError
  <2> QED
    BY <2>2, <2>3, <2>4
<1>2. /\ CoreInv /\ state = "reading" /\ ~done /\ ~err /\ ~eof /\ len < Window
      /\ fed \in Nat /\ len \in Nat /\ filled \in Nat
      /\ filled + m \in Nat /\ filled + m <= readSize /\ fed + (filled + m) <= StreamLimit
  BY <1>1, Sizes DEF CommitTail, IInv, CoreInv, CoreType, Filling
<1>3. /\ Feed(filled + m) /\ filled' = 0
      /\ UNCHANGED <<carry, prevN, dataLen, sums, offset, done>>
  BY <1>1 DEF CommitTail
<1>4. /\ CoreInv' /\ undelivered' = undelivered
      /\ fed' = fed + (filled + m) /\ len' = len + (filled + m)
  BY <1>1, <1>2, <1>3, FeedCore
<1>5. len' <= (Window - 1) + readSize /\ fed' + filled' <= StreamLimit /\ fed' \in fed..StreamLimit
  BY <1>2, <1>3, <1>4, Sizes DEF readSize
<1>6. filled' \in 0..readSize /\ ~ (filled' > 0)
  BY <1>3, Sizes DEF readSize
<1>7. Filling' /\ Failed'
  BY <1>1, <1>2 DEF Filling, Failed
<1> QED
  BY <1>1, <1>2, <1>4, <1>5, <1>6, <1>7 DEF IInv

LEMMA InitStep ==
    ASSUME Init
    PROVE  IInv
<1>1. CoreInv /\ filled = 0 /\ fed = 0 /\ len = 0 /\ ~err /\ state = "ready"
  BY InitCore DEF Init, CoreInit
<1>2. /\ filled \in 0..readSize /\ ~ (filled > 0)
      /\ fed + filled <= StreamLimit /\ len <= (Window - 1) + readSize
  BY <1>1, Sizes DEF readSize
<1> QED
  BY <1>1, <1>2 DEF IInv, Filling, Failed

\* Nothing but fillCore's count of bytes changes.
LEMMA FilledStep ==
    ASSUME IInv, UNCHANGED coreVars,
           filled' \in 0..readSize, fed + filled' <= StreamLimit, filled' > 0 => state = "reading"
    PROVE  IInv'
  BY DEF coreVars, bufVars, IInv, CoreInv, CoreType, BufferHolds, PreviousKept, OffsetTrue,
         BatchShown, AllDelivered, undelivered, Filling, Failed

LEMMA ReadSomeStep ==
    ASSUME IInv, NEW m \in 0..(StreamLimit - fed - filled), ReadSome(m)
    PROVE  IInv'
<1>1. filled + m < readSize /\ filled' = filled + m /\ state = "reading" /\ UNCHANGED coreVars
  BY DEF ReadSome
<1>2. filled + m \in 0..readSize /\ fed + (filled + m) <= StreamLimit
  BY <1>1, Sizes DEF readSize, IInv, CoreInv, CoreType
<1> QED
  BY <1>1, <1>2, FilledStep

LEMMA StartFillStep ==
    ASSUME IInv, StartFill
    PROVE  IInv'
<1>1. /\ UNCHANGED <<fed, cells, len, carry, prevN, dataLen, sums, offset, eof, done, err>>
      /\ state = "needMore" /\ state' = "reading" /\ filled' = 0
  BY DEF StartFill, bufVars
<1>2. CoreInv'
  BY <1>1 DEF IInv, CoreInv, CoreType, BufferHolds, PreviousKept, OffsetTrue,
              BatchShown, AllDelivered, undelivered
<1>3. filled' \in 0..readSize /\ ~ (filled' > 0) /\ fed' + filled' <= StreamLimit
  BY <1>1, Sizes DEF readSize, IInv, CoreInv, CoreType
<1> QED
  BY <1>1, <1>2, <1>3 DEF IInv, Filling, Failed

\* IInv holds in every reachable state.
THEOREM Invariance == Spec => []IInv
<1>1. IInv /\ [Next]_vars => IInv'
  <2> SUFFICES ASSUME IInv, [Next]_vars PROVE IInv'
    OBVIOUS
  <2>1. CASE CallNext \/ Loop
    BY <2>1, Calls, CoreCallStep
  <2>2. CASE StartFill
    BY <2>2, StartFillStep
  <2>3. CASE Read
    BY <2>3, ReadSomeStep, CommitStep DEF Read
  <2>4. CASE Reset
    <3>1. CoreInv'
      BY <2>4, ResetCore DEF Reset, IInv
    <3>2. filled' = 0 /\ fed' = 0 /\ len' = 0 /\ err' = FALSE /\ state' = "ready"
      BY <2>4 DEF Reset, CoreReset
    <3>3. /\ filled' \in 0..readSize /\ ~ (filled' > 0)
          /\ fed' + filled' <= StreamLimit /\ len' <= (Window - 1) + readSize
      BY <3>2, Sizes DEF readSize
    <3> QED
      BY <3>1, <3>2, <3>3 DEF IInv, Filling, Failed
  <2>5. CASE UNCHANGED vars
    BY <2>5, FilledStep DEF vars, IInv
  <2> QED
    BY <2>1, <2>2, <2>3, <2>4, <2>5 DEF Next
<1> QED
  BY <1>1, InitStep, PTL DEF Spec

\* A block is read on top of less than a window, so a roller's memory is bounded
\* by its configuration.
THEOREM Bounded == Spec => []BufferBounded
<1>1. IInv => BufferBounded
  <2> SUFFICES ASSUME IInv PROVE BufferBounded
    OBVIOUS
  <2>1. CASE filled > 0
    BY <2>1, Sizes DEF IInv, Filling, BufferBounded, readSize, CoreInv, CoreType
  <2>2. CASE ~ (filled > 0)
    BY <2>2, Sizes DEF IInv, BufferBounded, readSize, CoreInv, CoreType
  <2> QED
    BY <2>1, <2>2
<1> QED
  BY <1>1, Invariance, PTL

\* No batch follows a read error, not even one of the bytes read before it.
THEOREM ErrorsFinal == Spec => ErrorIsFinal
<1>1. IInv /\ [Next]_vars => [err /\ err' => state' # "emitted"]_vars
  <2> SUFFICES ASSUME IInv, Next, err PROVE state' # "emitted"
    OBVIOUS
  <2>1. CASE CallNext \/ Loop
    <3>1. CASE Emit
      BY <3>1 DEF Emit, DropPrevious
    <3>2. CASE AgainDone \/ NeedMore \/ CoreDone
      BY <3>2 DEF AgainDone, NeedMore, CoreDone
    <3> QED
      BY <2>1, <3>1, <3>2, Calls DEF CoreCall, CoreNext
  <2>2. CASE StartFill \/ Read
    BY <2>2 DEF StartFill, Read, ReadSome, ReadFull, ReadEOF, ReadError, CommitTail, coreVars
  <2>3. CASE Reset
    BY <2>3 DEF Reset, CoreReset
  <2> QED
    BY <2>1, <2>2, <2>3 DEF Next
<1> QED
  BY <1>1, Invariance, PTL DEF Spec, ErrorIsFinal

-----------------------------------------------------------------------------
\* BatchRoller implements batched rolling: a block supplies its bytes when it is
\* committed, a batch delivers the next windows, any other call delivers nothing.
THEOREM Refinement == Spec => ImplementsRollingBatches
<1>1. Init => Rolling!Init
  <2> SUFFICES ASSUME Init PROVE Rolling!Init
    OBVIOUS
  <2>1. undelivered = 0 /\ batch = Rolling!NoBatch
    BY DEF Init, CoreInit, undelivered, batch, Rolling!NoBatch
  <2> QED
    BY <2>1 DEF Init, CoreInit, Rolling!Init
<1>2. IInv /\ [Next]_vars => [Rolling!Next]_(Rolling!vars)
  <2> SUFFICES ASSUME IInv, [Next]_vars PROVE Rolling!Next \/ UNCHANGED Rolling!vars
    OBVIOUS
  <2> USE DEF Rolling!vars
  <2>0. CoreInv /\ Failed /\ eof \in BOOLEAN /\ fed \in Nat /\ fed <= StreamLimit
    BY Sizes DEF IInv, CoreInv, CoreType
  <2>1. CASE CallNext \/ Loop
    <3>1. CoreNext
      BY <2>1 DEF CallNext, Loop
    <3>2. ASSUME fed' = fed, eof' = eof, undelivered' = undelivered, state' # "emitted",
                 eof => undelivered + Window > fed
          PROVE  Rolling!Next
      BY <3>2 DEF batch, Rolling!NoBatch, Rolling!Nothing, Rolling!Next
    <3>3. CASE AgainDone
      <4>1. undelivered' = undelivered /\ state' = "coreDone"
        BY <2>0, <3>3, AgainDoneCore
      <4>2. fed' = fed /\ eof' = eof /\ (err \/ done)
        BY <3>3 DEF AgainDone, bufVars
      <4>3. eof => undelivered + Window > fed
        BY <2>0, <4>2 DEF Failed, CoreInv, AllDelivered
      <4> QED
        BY <3>2, <4>1, <4>2, <4>3
    <3>4. CASE NeedMore
      BY <2>0, <3>2, <3>4, NeedMoreCore DEF NeedMore
    <3>5. CASE CoreDone
      BY <2>0, <3>2, <3>5, CoreDoneCore DEF CoreDone
    <3>6. CASE Emit
      <4> DEFINE n == dataLen'
                 u == undelivered
      <4>1. /\ fed' = fed /\ eof' = eof /\ state' = "emitted" /\ offset' = u
            /\ n \in Window..(fed - u) /\ u' = u + (n - (Window - 1))
            /\ SubSeq(cells', 1, n) = [i \in 1..n |-> u + (i - 1)]
            /\ sums' = [i \in 1..(n - (Window - 1)) |-> u + (i - 1)]
        BY <2>0, <3>6, EmitCore DEF Emit
      <4>2. u \in Int
        BY <2>0, Sizes DEF CoreInv, CoreType, undelivered
      <4>3. batch' = [offset |-> u, bytes |-> SubSeq(cells', 1, n), sums |-> sums']
        BY <4>1 DEF batch
      <4>4. undelivered' = u + (n - (Window - 1))
        BY <4>1
      <4> HIDE DEF n, u
      <4>5. batch' = Rolling!Batch(u, n)
        BY <4>1, <4>3 DEF Rolling!Batch, Rolling!Positions
      <4>6. undelivered' = u + n - (Window - 1)
        BY <4>1, <4>2, <4>4, Sizes
      <4> QED
        BY <4>1, <4>5, <4>6 DEF u, Rolling!Deliver, Rolling!Next
    <3> QED
      BY <3>1, <3>3, <3>4, <3>5, <3>6 DEF CoreNext
  <2>2. CASE StartFill
    BY <2>2 DEF StartFill, bufVars, undelivered, batch
  <2>3. CASE Read
    <3> PICK m \in 0..(StreamLimit - fed - filled) :
               \/ m > 0 /\ ReadSome(m)
               \/ m > 0 /\ ReadFull(m)
               \/ ReadEOF(m)
               \/ ReadError(m)
      BY <2>3 DEF Read
    <3>1. CASE ReadSome(m)
      BY <3>1 DEF ReadSome, coreVars, bufVars, undelivered, batch
    <3>2. CASE ReadFull(m) \/ ReadEOF(m) \/ ReadError(m)
      <4>1. /\ ~eof /\ eof' \in BOOLEAN /\ fed' \in fed..StreamLimit
            /\ undelivered' = undelivered
            /\ state # "emitted" /\ state' # "emitted"
        BY <3>2, CommitStep
      <4>2. batch' = batch
        BY <4>1 DEF batch
      <4> QED
        BY <4>1, <4>2 DEF Rolling!Supply, Rolling!Next
    <3> QED
      BY <3>1, <3>2
  <2>4. CASE Reset
    <3>1. undelivered' = 0
      BY <2>0, <2>4, ResetCore DEF Reset
    <3> QED
      BY <2>4, <3>1 DEF Reset, CoreReset, batch, Rolling!NoBatch, Rolling!Reset, Rolling!Next
  <2>5. CASE UNCHANGED vars
    BY <2>5 DEF vars, coreVars, bufVars, undelivered, batch
  <2> QED
    BY <2>1, <2>2, <2>3, <2>4, <2>5 DEF Next
<1> QED
  BY <1>1, <1>2, Invariance, PTL DEF Spec, Rolling!Spec, ImplementsRollingBatches

-----------------------------------------------------------------------------
(* BatchWriter *)

\* The bytes that Write holds back make no batch, and none are left after Close.
WriterInv ==
    /\ CoreInv
    /\ pending \in 0..(BatchSize - 1)
    /\ fed + pending <= StreamLimit
    /\ eof => pending = 0
    /\ err = FALSE
    /\ state \in {"ready", "emitted", "needMore", "coreDone"}

LEMMA Remainder ==
    ASSUME NEW a \in Nat, NEW b \in Nat \ {0}
    PROVE  a % b \in 0..(b - 1) /\ a % b <= a
<1>1. a % b \in 0..(b - 1)
  OBVIOUS
<1>2. CASE a < b
  BY <1>2
<1>3. CASE a >= b
  BY <1>1, <1>3
<1> QED
  BY <1>1, <1>2, <1>3

\* Bytes that change neither the accumulator nor what it shows.
LEMMA SameBuffer ==
    ASSUME CoreInv, UNCHANGED bufVars, eof' \in BOOLEAN, eof => eof',
           UNCHANGED <<carry, prevN, dataLen, sums, offset, done, err, state>>
    PROVE  /\ CoreInv' /\ undelivered' = undelivered /\ batch' = batch /\ fed' = fed
<1>1. UNCHANGED <<fed, cells, len>>
  BY DEF bufVars
<1>2. undelivered' = undelivered /\ batch' = batch
  BY <1>1 DEF undelivered, batch
<1> QED
  BY <1>1, <1>2 DEF CoreInv, CoreType, BufferHolds, PreviousKept, OffsetTrue, BatchShown,
                    AllDelivered

-----------------------------------------------------------------------------
\* Write supplies its bytes and disturbs no batch.
LEMMA WriteStep ==
    ASSUME WriterInv, NEW n \in 0..(StreamLimit - fed - pending), Write(n)
    PROVE  /\ WriterInv'
           /\ fed' + pending' = fed + pending + n
           /\ undelivered' = undelivered /\ batch' = batch
<1> USE DEF WriterInv
<1> DEFINE total == pending + n
           rest  == total % BatchSize
<1>1. /\ total \in Nat /\ fed \in Nat /\ fed + total <= StreamLimit
      /\ fed + total = fed + pending + n
  BY Sizes DEF CoreInv, CoreType
<1>2. rest \in 0..(BatchSize - 1) /\ rest <= total
  <2> BatchSize \in Nat \ {0}
    BY Sizes
  <2> HIDE DEF total
  <2> QED
    BY <1>1, Remainder
<1>3. /\ pending' = rest /\ ~eof /\ ~done /\ ~err
      /\ UNCHANGED <<carry, prevN, dataLen, sums, offset, eof, done, err, state>>
      /\ eof' \in BOOLEAN /\ err' \in BOOLEAN
  BY DEF Write, CoreInv, CoreType, AllDelivered
<1>4. CASE total >= BatchSize
  <2>1. Feed(total - rest)
    BY <1>4 DEF Write
  <2> HIDE DEF total, rest
  <2>2. total - rest \in Nat /\ fed + (total - rest) <= StreamLimit
    BY <1>1, <1>2, Sizes
  <2>3. /\ CoreInv' /\ undelivered' = undelivered /\ batch' = batch
        /\ fed' = fed + (total - rest)
    BY <1>3, <2>1, <2>2, FeedCore
  <2>4. fed' + pending' = fed + total
    BY <1>1, <1>2, <1>3, <2>3, Sizes
  <2> QED
    BY <1>1, <1>2, <1>3, <2>3, <2>4
<1>5. CASE ~ (total >= BatchSize)
  <2>1. UNCHANGED bufVars
    BY <1>5 DEF Write
  <2>2. rest = total
    BY <1>1, <1>5, Sizes
  <2>3. /\ CoreInv' /\ undelivered' = undelivered /\ batch' = batch /\ fed' = fed
    BY <1>3, <2>1, SameBuffer
  <2> QED
    BY <1>1, <1>2, <1>3, <2>2, <2>3
<1> QED
  BY <1>4, <1>5

\* Close supplies no byte that Write had not accepted, and disturbs no batch.
LEMMA CloseStep ==
    ASSUME WriterInv, Close
    PROVE  /\ WriterInv'
           /\ fed' + pending' = fed + pending
           /\ undelivered' = undelivered /\ batch' = batch
<1> USE DEF WriterInv
<1>1. /\ pending' = 0 /\ eof' = TRUE
      /\ UNCHANGED <<carry, prevN, dataLen, sums, offset, done, err, state>>
      /\ eof' \in BOOLEAN /\ err' \in BOOLEAN
  BY DEF Close, CoreInv, CoreType
<1>2. pending \in Nat /\ fed \in Nat /\ 0 \in 0..(BatchSize - 1)
  BY Sizes DEF CoreInv, CoreType
<1>3. CASE pending > 0
  <2>1. Feed(pending)
    BY <1>3 DEF Close
  <2>2. ~done /\ ~err
    BY <1>2, <1>3 DEF CoreInv, AllDelivered
  <2>3. /\ CoreInv' /\ undelivered' = undelivered /\ batch' = batch /\ fed' = fed + pending
    BY <1>1, <1>2, <2>1, <2>2, FeedCore
  <2> QED
    BY <1>1, <1>2, <2>3
<1>4. CASE ~ (pending > 0)
  <2>1. UNCHANGED bufVars /\ pending = 0
    BY <1>2, <1>4 DEF Close
  <2>2. /\ CoreInv' /\ undelivered' = undelivered /\ batch' = batch /\ fed' = fed
    BY <1>1, <2>1, SameBuffer
  <2> QED
    BY <1>1, <1>2, <2>1, <2>2
<1> QED
  BY <1>3, <1>4

LEMMA CallNextStep ==
    ASSUME WriterInv, WriterCallNext
    PROVE  WriterInv'
<1> USE DEF WriterInv
<1>1. CASE AgainDone
  BY <1>1, AgainDoneCore DEF WriterCallNext, AgainDone, bufVars
<1>2. CASE NeedMore
  BY <1>2, NeedMoreCore DEF WriterCallNext, NeedMore
<1>3. CASE CoreDone
  BY <1>3, CoreDoneCore DEF WriterCallNext, CoreDone
<1>4. CASE Emit
  BY <1>4, EmitCore DEF WriterCallNext, Emit
<1> QED
  BY <1>1, <1>2, <1>3, <1>4 DEF WriterCallNext, CoreNext

\* IInv holds in every reachable state.
THEOREM WriterInvariance == WriterSpec => []WriterInv
<1>1. WriterInit => WriterInv
  <2> SUFFICES ASSUME WriterInit PROVE WriterInv
    OBVIOUS
  <2>1. CoreInv
    BY InitCore DEF WriterInit
  <2>2. fed = 0 /\ pending = 0 /\ err = FALSE /\ state = "ready"
    BY DEF WriterInit, CoreInit
  <2>3. pending \in 0..(BatchSize - 1) /\ fed + pending <= StreamLimit
    BY <2>2, Sizes
  <2> QED
    BY <2>1, <2>2, <2>3 DEF WriterInv
<1>2. WriterInv /\ [WriterNext]_writerVars => WriterInv'
  <2> SUFFICES ASSUME WriterInv, [WriterNext]_writerVars PROVE WriterInv'
    OBVIOUS
  <2>1. ASSUME NEW n \in 0..(StreamLimit - fed - pending), Write(n) PROVE WriterInv'
    BY <2>1, WriteStep
  <2>2. CASE Close
    BY <2>2, CloseStep
  <2>3. CASE WriterCallNext
    BY <2>3, CallNextStep
  <2>4. CASE WriterReset
    <3>1. CoreInv'
      BY <2>4, ResetCore DEF WriterReset, WriterInv
    <3> QED
      BY <2>4, <3>1, Sizes DEF WriterReset, CoreReset, WriterInv
  <2>5. CASE UNCHANGED writerVars
    BY <2>5 DEF writerVars, coreVars, bufVars, WriterInv, CoreInv, CoreType, BufferHolds,
                PreviousKept,
                OffsetTrue, BatchShown, AllDelivered, undelivered
  <2>6. CASE WriteClosed
    BY <2>5, <2>6 DEF WriteClosed
  <2> QED
    BY <2>1, <2>2, <2>3, <2>4, <2>5, <2>6 DEF WriterNext
<1> QED
  BY <1>1, <1>2, PTL DEF WriterSpec

\* The accumulator never claims bytes it was not given, and Write holds back
\* less than a batch.
THEOREM WriterTypeCorrect == WriterSpec => []TypeOK
<1>1. WriterInv => TypeOK
  BY DEF WriterInv, CoreInv, CoreType, Content, TypeOK
<1> QED
  BY <1>1, WriterInvariance, PTL

\* The bytes and checksums handed out stay what they were until the caller is
\* back for more, whatever is written meanwhile.
THEOREM BytesStable == WriterSpec => BytesValidUntilNext
<1>1. WriterInv /\ [WriterNext]_writerVars
        => [~ WriterCallNext /\ ~ WriterReset => batch' = batch]_writerVars
  <2> SUFFICES ASSUME WriterInv, WriterNext, ~ WriterCallNext, ~ WriterReset PROVE batch' = batch
    OBVIOUS
  <2>1. ASSUME NEW n \in 0..(StreamLimit - fed - pending), Write(n) PROVE batch' = batch
    BY <2>1, WriteStep
  <2>2. CASE Close
    BY <2>2, CloseStep
  <2>3. CASE WriteClosed
    BY <2>3 DEF WriteClosed, writerVars, coreVars, bufVars, batch
  <2> QED
    BY <2>1, <2>2, <2>3 DEF WriterNext
<1> QED
  BY <1>1, WriterInvariance, PTL DEF WriterSpec, BytesValidUntilNext

-----------------------------------------------------------------------------
\* BatchWriter implements batched rolling: a Write or a Close supplies bytes, a
\* batch delivers the next windows, and any other Next delivers nothing.
THEOREM WriterRefinement == WriterSpec => WriterImplementsRollingBatches
<1>1. WriterInit => WriterRolling!Init
  <2> SUFFICES ASSUME WriterInit PROVE WriterRolling!Init
    OBVIOUS
  <2>1. fed + pending = 0 /\ undelivered = 0 /\ batch = WriterRolling!NoBatch /\ eof = FALSE
    BY DEF WriterInit, CoreInit, undelivered, batch, WriterRolling!NoBatch
  <2> QED
    BY <2>1 DEF WriterRolling!Init
<1>2. WriterInv /\ [WriterNext]_writerVars => [WriterRolling!Next]_(WriterRolling!vars)
  <2> SUFFICES ASSUME WriterInv, [WriterNext]_writerVars
               PROVE  WriterRolling!Next \/ UNCHANGED WriterRolling!vars
    OBVIOUS
  <2> USE DEF WriterRolling!vars
  <2>0. /\ CoreInv /\ (eof => pending = 0) /\ err = FALSE /\ eof \in BOOLEAN
        /\ fed \in Nat /\ pending \in Nat /\ fed + pending <= StreamLimit
    BY Sizes DEF WriterInv, CoreInv, CoreType
  <2>1. ASSUME NEW n \in 0..(StreamLimit - fed - pending), Write(n) PROVE WriterRolling!Next
    <3>1. /\ fed' + pending' = fed + pending + n
          /\ undelivered' = undelivered /\ batch' = batch
      BY <2>1, WriteStep
    <3>2. fed + pending + n \in (fed + pending)..StreamLimit
      BY <2>0, Sizes
    <3>3. ~eof /\ eof' \in BOOLEAN
      BY <2>0, <2>1 DEF Write
    <3> QED
      BY <3>1, <3>2, <3>3 DEF WriterRolling!Supply, WriterRolling!Next
  <2>2. CASE Close
    <3>1. /\ fed' + pending' = fed + pending
          /\ undelivered' = undelivered /\ batch' = batch
      BY <2>2, CloseStep
    <3>2. eof' = TRUE
      BY <2>2 DEF Close
    <3>3. CASE eof
      BY <3>1, <3>2, <3>3
    <3>4. CASE ~eof
      <4>1. fed + pending \in (fed + pending)..StreamLimit
        BY <2>0, Sizes
      <4> QED
        BY <3>1, <3>2, <3>4, <4>1 DEF WriterRolling!Supply, WriterRolling!Next
    <3> QED
      BY <3>3, <3>4
  <2>3. CASE WriterCallNext
    <3>1. pending' = pending /\ eof' = eof
      BY <2>3 DEF WriterCallNext, CoreNext, AgainDone, NeedMore, CoreDone, Emit
    <3>2. ASSUME fed' = fed, undelivered' = undelivered, state' # "emitted",
                 eof => undelivered + Window > fed
          PROVE  WriterRolling!Next
      <4>1. eof => undelivered + Window > fed + pending
        <5> SUFFICES ASSUME eof PROVE undelivered + Window > fed + pending
          OBVIOUS
        <5>1. fed + pending = fed
          BY <2>0
        <5> QED
          BY <3>2, <5>1
      <4>2. batch' = WriterRolling!NoBatch
        BY <3>2 DEF batch, WriterRolling!NoBatch
      <4> QED
        BY <3>1, <3>2, <4>1, <4>2 DEF WriterRolling!Nothing, WriterRolling!Next
    <3>3. CASE AgainDone
      <4>1. undelivered' = undelivered /\ state' = "coreDone"
        BY <2>0, <3>3, AgainDoneCore
      <4>2. fed' = fed /\ done
        BY <2>0, <3>3 DEF AgainDone, bufVars
      <4>3. undelivered + Window > fed
        BY <2>0, <4>2 DEF CoreInv, AllDelivered
      <4> QED
        BY <3>2, <4>1, <4>2, <4>3
    <3>4. CASE NeedMore
      BY <2>0, <3>2, <3>4, NeedMoreCore
    <3>5. CASE CoreDone
      BY <2>0, <3>2, <3>5, CoreDoneCore
    <3>6. CASE Emit
      <4> DEFINE n == dataLen'
                 u == undelivered
      <4>1. /\ fed' = fed /\ state' = "emitted" /\ offset' = u
            /\ n \in Window..(fed - u) /\ u' = u + (n - (Window - 1))
            /\ SubSeq(cells', 1, n) = [i \in 1..n |-> u + (i - 1)]
            /\ sums' = [i \in 1..(n - (Window - 1)) |-> u + (i - 1)]
        BY <2>0, <3>6, EmitCore
      <4>2. u \in Int
        BY <2>0, Sizes DEF CoreInv, CoreType, undelivered
      <4>3. batch' = [offset |-> u, bytes |-> SubSeq(cells', 1, n), sums |-> sums']
        BY <4>1 DEF batch
      <4>4. undelivered' = u + (n - (Window - 1))
        BY <4>1
      <4> HIDE DEF n, u
      <4>5. batch' = WriterRolling!Batch(u, n)
        BY <4>1, <4>3 DEF WriterRolling!Batch, WriterRolling!Positions
      <4>6. n \in Window..((fed + pending) - u) /\ undelivered' = u + n - (Window - 1)
        BY <2>0, <4>1, <4>2, <4>4, Sizes
      <4> QED
        BY <3>1, <4>1, <4>5, <4>6 DEF u, WriterRolling!Deliver, WriterRolling!Next
    <3> QED
      BY <2>3, <3>3, <3>4, <3>5, <3>6 DEF WriterCallNext, CoreNext
  <2>4. CASE WriterReset
    <3>1. undelivered' = 0
      BY <2>0, <2>4, ResetCore DEF WriterReset
    <3>2. fed' + pending' = 0 /\ eof' = FALSE /\ batch' = WriterRolling!NoBatch
      BY <2>4 DEF WriterReset, CoreReset, batch, WriterRolling!NoBatch
    <3> QED
      BY <3>1, <3>2 DEF WriterRolling!Reset, WriterRolling!Next
  <2>5. CASE UNCHANGED writerVars \/ WriteClosed
    BY <2>5 DEF WriteClosed, writerVars, coreVars, bufVars, undelivered, batch
  <2> QED
    BY <2>1, <2>2, <2>3, <2>4, <2>5 DEF WriterNext
<1> QED
  BY <1>1, <1>2, WriterInvariance, PTL
     DEF WriterSpec, WriterRolling!Spec, WriterImplementsRollingBatches
=============================================================================
