--------------------------- MODULE RollStatProofs ---------------------------
(***************************************************************************)
(* The safety of a rollstat measurement, for every source, buffer size,    *)
(* window and batch size: what the prefetchReader's two goroutines do to   *)
(* its two buffers, what its callers read, and what they print.            *)
(***************************************************************************)
EXTENDS RollStat, SequenceTheorems, TLAPS

\* What is proved about the BatchRoller's steps.
Batches == INSTANCE BatchProofs WITH StreamLimit <- MaxSize, pending <- 0

-----------------------------------------------------------------------------
(* The prefetchReader *)

PrefetchType ==
    /\ size \in 0..MaxSize /\ fails \in BOOLEAN
    /\ taken \in Nat /\ got \in Nat /\ pos \in Nat
    /\ free \in Seq(Buffers)
    /\ forward \in Seq(Buffers) /\ Len(forward) <= 1
    /\ held \in Buffers \union {Nil} /\ cur \in Buffers \union {Nil}
    /\ from \in [Buffers -> Nat] /\ length \in [Buffers -> Nat]
    /\ goroutine \in {"waiting", "filling", "sending", "erring", "closing", "exited"}
    /\ reader \in {"idle", "checking", "receiving", "copying"}

\* What the goroutine knows and has in hand, by where it is.
Control ==
    /\ goroutine = "waiting" => held = Nil
    /\ goroutine \in {"filling", "sending"} => held # Nil
    /\ goroutine \in {"waiting", "filling"} => fillErr = "nil"
    /\ goroutine \in {"erring", "closing", "exited"} => fillErr # "nil"
    /\ goroutine \in {"closing", "exited"} => prErr = fillErr
    /\ closed <=> goroutine = "exited"
    /\ closed => held = Nil

\* The source is exhausted when the goroutine has an error, and it is the source's.
ErrorTrue ==
    /\ taken <= size
    /\ fillErr # "nil" =>
         /\ taken = size
         /\ fillErr \in (IF fails THEN {"failed"} ELSE {"EOF", "ErrUnexpectedEOF"})

\* Read has a block that it has not given back.
Live == cur # Nil /\ reader # "receiving" /\ result = "nil"

\* No buffer is in two places.
Owned ==
    /\ \A i, j \in DOMAIN free : i # j => free[i] # free[j]
    /\ InFlight \intersect Returned = {}
    /\ held # Nil => held \notin InFlight /\ held \notin Returned
    /\ Live => cur \notin InFlight /\ cur \notin Returned /\ cur # held

\* The source's bytes up to the end of Read's block, and of the block after it.
readTo == IF Live THEN from[cur] + length[cur] ELSE got
sentTo == IF forward = <<>> THEN readTo ELSE from[Head(forward)] + length[Head(forward)]

\* Each block starts where the one before it ends.
Contiguous ==
    /\ forward # <<>> => from[Head(forward)] = readTo
    /\ goroutine = "sending" => from[held] = sentTo /\ taken = from[held] + length[held]
    /\ goroutine # "sending" => taken = sentTo

\* The block that was given back last, which cur still names, has no byte to hand
\* out unless it is on its way again.
Spent ==
    \/ pos >= length[cur]
    \/ goroutine = "sending" /\ held = cur
    \/ cur \in InFlight

Handing ==
    /\ Live => pos <= length[cur] /\ from[cur] + pos = got
    /\ reader = "copying" => cur # Nil
    /\ (reader = "checking" /\ cur # Nil) => pos = length[cur]
    /\ (reader = "receiving" /\ cur # Nil) => Spent
    /\ result # "nil" =>
         /\ reader = "idle" /\ closed
         /\ cur # Nil => pos >= length[cur]

PrefetchInv ==
    PrefetchType /\ Control /\ ErrorTrue /\ Owned /\ Contiguous /\ Handing /\ StopsAtTheEnd

-----------------------------------------------------------------------------
(* cycleReader *)

CycleInv ==
    /\ size \in 0..MaxSize /\ fails = FALSE /\ got \in 0..size
    /\ dataPos \in 0..DataSize
    /\ got = 0 => dataPos = 0
    /\ got > 0 => dataPos = ((got - 1) % DataSize) + 1
    /\ cur = Nil /\ reader = "idle" /\ goroutine = "waiting"
    /\ StopsAtTheEnd

-----------------------------------------------------------------------------
(* What reads *)

\* A caller that was told the end does not call Read again.
Measuring ==
    /\ interface \in {"roll", "batchroll", "chunk"}
    /\ source \in {"prefetch", "cycle"}
    /\ main \in {"warming", "running", "returned", "fatal"}
    /\ Over => result # "nil"
    /\ result # "nil" => Over \/ (interface = "batchroll" /\ (eof \/ err))
    /\ main = "returned" => result = "EOF"
    /\ main = "fatal" => result = "failed" \/ (interface = "roll" /\ size < Window)

RollInv ==
    /\ main = "warming" => got < Window /\ counted = 0
    /\ main \in {"running", "returned"} => counted = got - Window

BatchInv ==
    /\ Batches!IInv
    /\ fed + filled = got
    /\ state = "reading" => filled < BatchSize
    /\ counted = Batches!undelivered
    /\ counted = 0 \/ counted + (Window - 1) <= fed
    /\ eof => result = "EOF"
    /\ err => result = "failed"
    /\ state = "coreDone" => done \/ err
    /\ state = "failed" => err
    /\ main # "warming"
    /\ main = "returned" => done /\ ~err

MainInv ==
    /\ Measuring
    /\ interface = "roll" => RollInv
    /\ interface # "roll" => main # "warming"
    /\ interface = "batchroll" => BatchInv

IInv ==
    /\ source = "prefetch" => PrefetchInv
    /\ source = "cycle" => CycleInv
    /\ MainInv

-----------------------------------------------------------------------------
(* Queues *)

LEMMA HeadTail ==
    ASSUME NEW S, NEW s \in Seq(S), s # <<>>
    PROVE  /\ Head(s) \in S /\ Tail(s) \in Seq(S) /\ Len(Tail(s)) = Len(s) - 1
           /\ 1 \in DOMAIN s /\ Head(s) = s[1]
           /\ DOMAIN Tail(s) \subseteq Int
           /\ \A i \in DOMAIN Tail(s) : i + 1 \in DOMAIN s /\ i + 1 # 1 /\ Tail(s)[i] = s[i + 1]
<1>1. /\ Len(s) \in Nat /\ Len(s) > 0 /\ DOMAIN s = 1..Len(s)
      /\ Head(s) \in S /\ Tail(s) \in Seq(S) /\ Len(Tail(s)) = Len(s) - 1
      /\ \A i \in 1..Len(Tail(s)) : Tail(s)[i] = s[i + 1]
  BY EmptySeq, LenProperties, HeadTailProperties
<1>2. DOMAIN Tail(s) = 1..(Len(s) - 1)
  BY <1>1, LenProperties
<1>3. Head(s) = s[1]
  OBVIOUS
<1>4. /\ 1 \in DOMAIN s /\ DOMAIN Tail(s) \subseteq Int
      /\ \A i \in DOMAIN Tail(s) : i + 1 \in DOMAIN s /\ i + 1 # 1 /\ Tail(s)[i] = s[i + 1]
  <2> DEFINE t == Tail(s)
             l == Len(s)
  <2>1. /\ l \in Nat /\ l > 0 /\ DOMAIN s = 1..l /\ DOMAIN t = 1..(l - 1) /\ Len(t) = l - 1
        /\ \A i \in 1..Len(t) : t[i] = s[i + 1]
    BY <1>1, <1>2
  <2> HIDE DEF t, l
  <2>2. \A i \in DOMAIN t : i + 1 \in DOMAIN s /\ i + 1 # 1 /\ t[i] = s[i + 1]
    BY <2>1
  <2>3. 1 \in DOMAIN s /\ DOMAIN t \subseteq Int
    BY <2>1
  <2> QED
    BY <2>2, <2>3 DEF t
<1> QED
  BY <1>1, <1>3, <1>4

LEMMA OneElement ==
    ASSUME NEW S, NEW s \in Seq(S), s # <<>>, Len(s) <= 1
    PROVE  /\ DOMAIN s = {1} /\ Head(s) = s[1] /\ Head(s) \in S
           /\ Tail(s) = <<>>
<1>1. Len(s) = 1 /\ DOMAIN s = 1..Len(s)
  <2>1. Len(s) \in Nat \ {0} /\ DOMAIN s = 1..Len(s)
    BY EmptySeq, LenProperties
  <2> QED
    BY <2>1
<1>2. Tail(s) \in Seq(S) /\ Len(Tail(s)) = 0
  BY <1>1, HeadTailProperties
<1>3. Tail(s) = <<>>
  BY <1>2, EmptySeq
<1> QED
  BY <1>1, <1>3, HeadTail

LEMMA AppendLast ==
    ASSUME NEW S, NEW s \in Seq(S), NEW x \in S
    PROVE  /\ Append(s, x) \in Seq(S)
           /\ \A i \in DOMAIN s : i \in DOMAIN Append(s, x) /\ Append(s, x)[i] = s[i]
           /\ \A i \in DOMAIN Append(s, x) : i \notin DOMAIN s => i = Len(s) + 1 /\ Append(s, x)[i] = x
  OBVIOUS

\* The channel forward has at most one block in it.
LEMMA OneInFlight ==
    ASSUME PrefetchType
    PROVE  /\ forward = <<>> => InFlight = {}
           /\ forward # <<>> => /\ InFlight = {Head(forward)} /\ Tail(forward) = <<>>
                               /\ Head(forward) \in Buffers
<1>1. forward \in Seq(Buffers) /\ Len(forward) <= 1
  BY DEF PrefetchType
<1>2. CASE forward = <<>>
  BY <1>2 DEF InFlight
<1>3. CASE forward # <<>>
  BY <1>1, <1>3, OneElement DEF InFlight
<1> QED
  BY <1>2, <1>3

LEMMA NilIsNoBuffer == Nil \notin Buffers /\ ChunkSize \in Nat /\ ChunkSize > 0 /\ MaxSize \in Nat
  BY PrefetchAssumption

-----------------------------------------------------------------------------
(* The goroutine's steps *)

LEMMA TakeFreeStep ==
    ASSUME PrefetchInv, TakeFree
    PROVE  PrefetchInv'
<1> USE DEF PrefetchInv
<1>1. /\ goroutine = "waiting" /\ free # <<>>
      /\ held' = Head(free) /\ free' = Tail(free) /\ goroutine' = "filling"
      /\ UNCHANGED <<size, fails, taken, from, length, prErr, fillErr, closed, forward,
                     cur, pos, reader, got, result>>
  BY DEF TakeFree, sourceVars, readVars
<1>2. free \in Seq(Buffers)
  BY DEF PrefetchType
<1>3. /\ held' \in Buffers /\ held' # Nil /\ free' \in Seq(Buffers)
      /\ 1 \in DOMAIN free /\ held' = free[1]
      /\ \A i \in DOMAIN free' : i + 1 \in DOMAIN free /\ i + 1 # 1 /\ free'[i] = free[i + 1]
  BY <1>1, <1>2, HeadTail, NilIsNoBuffer
<1>4. InFlight' = InFlight /\ Live' = Live /\ held = Nil
  BY <1>1 DEF InFlight, Live, Control
<1>5. held' \in Returned /\ held' \notin Returned' /\ Returned' \subseteq Returned
  BY <1>3 DEF Returned, Owned
<1>6. PrefetchType'
  BY <1>1, <1>3 DEF PrefetchType
<1>7. Control' /\ ErrorTrue' /\ StopsAtTheEnd'
  BY <1>1, <1>3 DEF Control, ErrorTrue, StopsAtTheEnd
<1>8. Owned'
  <2>1. \A i, j \in DOMAIN free' : i # j => free'[i] # free'[j]
    <3> SUFFICES ASSUME NEW i \in DOMAIN free', NEW j \in DOMAIN free', i # j
                 PROVE  free'[i] # free'[j]
      OBVIOUS
    <3>1. i \in Int /\ j \in Int
      BY <1>3
    <3>2. i + 1 # j + 1
      BY <3>1
    <3> QED
      BY <1>3, <3>2 DEF Owned
  <2> QED
    BY <1>1, <1>4, <1>5, <2>1 DEF Owned
<1>9. Contiguous' /\ Handing'
  BY <1>1, <1>4 DEF Contiguous, Handing, Spent, readTo, sentTo
<1> QED
  BY <1>6, <1>7, <1>8, <1>9

LEMMA ReadFullStep ==
    ASSUME PrefetchInv, ReadFull
    PROVE  PrefetchInv'
<1> USE DEF PrefetchInv
<1> DEFINE left == size - taken
           n    == IF left < ChunkSize THEN left ELSE ChunkSize
<1>1. /\ goroutine = "filling"
      /\ from' = [from EXCEPT ![held] = taken] /\ length' = [length EXCEPT ![held] = n]
      /\ taken' = taken + n
      /\ fillErr' = IF n = ChunkSize THEN "nil"
                    ELSE IF fails THEN "failed" ELSE IF n = 0 THEN "EOF" ELSE "ErrUnexpectedEOF"
      /\ goroutine' = IF n > 0 THEN "sending" ELSE "erring"
      /\ UNCHANGED <<size, fails, held, prErr, closed, free, forward, cur, pos, reader, got, result>>
  BY DEF ReadFull, sourceVars, readVars
<1>2. /\ held \in Buffers /\ held # Nil /\ ~closed
      /\ held \notin InFlight
  BY <1>1 DEF PrefetchType, Control, Owned
<1>3. /\ size \in Nat /\ taken \in Nat /\ taken <= size
      /\ from \in [Buffers -> Nat] /\ length \in [Buffers -> Nat]
  BY NilIsNoBuffer DEF PrefetchType, ErrorTrue
<1>4. n \in Nat /\ taken + n <= size /\ (n # ChunkSize => taken + n = size)
      /\ (n = 0 => n # ChunkSize)
  BY <1>3, NilIsNoBuffer
<1> HIDE DEF n
<1>5. InFlight' = InFlight /\ Returned' = Returned /\ Live' = Live
  BY <1>1 DEF InFlight, Returned, Live
<1>6. PrefetchType'
  <2>1. taken' \in Nat
    BY <1>1, <1>3, <1>4
  <2>3. from' \in [Buffers -> Nat] /\ length' \in [Buffers -> Nat]
    BY <1>1, <1>3, <1>4
  <2>2. goroutine' \in {"sending", "erring"}
    BY <1>1
  <2> QED
    BY <1>1, <2>1, <2>2, <2>3 DEF PrefetchType
<1>7. ErrorTrue' /\ StopsAtTheEnd'
  BY <1>1, <1>3, <1>4 DEF ErrorTrue, StopsAtTheEnd
<1>8. Control'
  <2>1. goroutine' = "erring" => fillErr' # "nil"
    BY <1>1, <1>4
  <2>2. goroutine' \in {"sending", "erring"}
    BY <1>1
  <2> QED
    BY <1>1, <1>2, <2>1, <2>2 DEF Control
<1>9. Owned'
  BY <1>1, <1>5 DEF Owned
<1>10. /\ Live => cur \in Buffers /\ cur # held
       /\ forward # <<>> => Head(forward) \in Buffers /\ Head(forward) # held
  BY <1>2, OneInFlight DEF Live, Owned, PrefetchType
<1>11. /\ \A b \in Buffers : b # held => from'[b] = from[b] /\ length'[b] = length[b]
       /\ from'[held] = taken /\ length'[held] = n
  BY <1>1, <1>2, <1>3
<1>12. readTo' = readTo /\ sentTo' = sentTo
  BY <1>1, <1>5, <1>10, <1>11 DEF readTo, sentTo
<1>13. Contiguous'
  <2>1. taken = sentTo /\ (forward # <<>> => from[Head(forward)] = readTo)
    BY <1>1 DEF Contiguous
  <2>2. n > 0 \/ n = 0
    BY <1>4
  <2>3. goroutine' # "sending" => taken' = taken
    BY <1>1, <1>3, <2>2
  <2>4. taken' = from'[held'] + length'[held'] /\ from'[held'] = taken
    BY <1>1, <1>11
  <2> QED
    BY <1>1, <1>10, <1>11, <1>12, <2>1, <2>3, <2>4 DEF Contiguous
<1>14. Handing'
  <2>1. (reader = "receiving" /\ cur # Nil) => Spent'
    <3> SUFFICES ASSUME reader = "receiving", cur # Nil PROVE Spent'
      OBVIOUS
    <3>1. Spent /\ cur \in Buffers /\ pos \in Nat
      BY DEF Handing, PrefetchType
    <3>2. CASE cur = held
      <4>1. CASE n > 0
        BY <1>1, <3>2, <4>1 DEF Spent
      <4>2. CASE n = 0
        <5>1. pos' >= length'[cur']
          BY <1>1, <1>11, <3>1, <3>2, <4>2
        <5> QED
          BY <5>1 DEF Spent
      <4> QED
        BY <1>4, <4>1, <4>2
    <3>3. CASE cur # held
      BY <1>1, <1>5, <1>11, <3>1, <3>3 DEF Spent
    <3> QED
      BY <3>2, <3>3
  <2>2. result = "nil"
    BY <1>2 DEF Handing
  <2>3. (reader = "checking" /\ cur # Nil) => cur \in Buffers /\ cur # held
    BY <1>10, <2>2 DEF Live
  <2> QED
    BY <1>1, <1>5, <1>10, <1>11, <2>1, <2>2, <2>3 DEF Handing
<1> QED
  BY <1>6, <1>7, <1>8, <1>9, <1>13, <1>14

LEMMA SendStep ==
    ASSUME PrefetchInv, Send
    PROVE  PrefetchInv'
<1> USE DEF PrefetchInv
<1>1. /\ goroutine = "sending" /\ Len(forward) < 1
      /\ forward' = Append(forward, held) /\ held' = Nil
      /\ goroutine' = IF fillErr = "nil" THEN "waiting" ELSE "erring"
      /\ UNCHANGED <<size, fails, taken, from, length, prErr, fillErr, closed, free,
                     cur, pos, reader, got, result>>
  BY DEF Send, sourceVars, readVars
<1>2. /\ held \in Buffers /\ held # Nil
      /\ held \notin Returned
      /\ Live => cur # held
  BY <1>1 DEF PrefetchType, Control, Owned
<1>3. forward = <<>>
  <2>1. forward \in Seq(Buffers) /\ Len(forward) \in Nat
    BY DEF PrefetchType
  <2> QED
    BY <1>1, <2>1
<1>4. /\ forward' = <<held>> /\ forward' # <<>> /\ Head(forward') = held
      /\ forward' \in Seq(Buffers) /\ Len(forward') <= 1 /\ DOMAIN forward' = {1}
  BY <1>1, <1>2, <1>3
<1>5. InFlight' = {held} /\ Returned' = Returned /\ Live' = Live
  BY <1>1, <1>4 DEF InFlight, Returned, Live
<1>6. PrefetchType'
  BY <1>1, <1>4 DEF PrefetchType
<1>7. Control' /\ ErrorTrue' /\ StopsAtTheEnd'
  BY <1>1 DEF Control, ErrorTrue, StopsAtTheEnd
<1>8. Owned'
  <2>1. InFlight' \intersect Returned' = {}
    BY <1>2, <1>5
  <2>2. Live' => cur' \notin InFlight' /\ cur' \notin Returned' /\ cur' # held'
    BY <1>1, <1>2, <1>5 DEF Owned, Live
  <2> QED
    BY <1>1, <2>1, <2>2 DEF Owned
<1>9. Contiguous'
  BY <1>1, <1>3, <1>4, <1>5 DEF Contiguous, readTo, sentTo
<1>10. Handing'
  BY <1>1, <1>3, <1>5 DEF Handing, Spent, InFlight
<1> QED
  BY <1>6, <1>7, <1>8, <1>9, <1>10

LEMMA SetErrStep ==
    ASSUME PrefetchInv, SetErr
    PROVE  PrefetchInv'
<1>1. /\ goroutine = "erring" /\ prErr' = fillErr /\ goroutine' = "closing"
      /\ UNCHANGED <<size, fails, taken, held, from, length, fillErr, closed, free, forward,
                     cur, pos, reader, got, result>>
  BY DEF SetErr, sourceVars, readVars
<1>2. /\ InFlight' = InFlight /\ Returned' = Returned /\ Live' = Live
      /\ readTo' = readTo /\ sentTo' = sentTo
  BY <1>1 DEF InFlight, Returned, Live, readTo, sentTo
<1>3. PrefetchType'
  BY <1>1 DEF PrefetchInv, PrefetchType
<1>4. Control' /\ ErrorTrue' /\ StopsAtTheEnd'
  BY <1>1 DEF PrefetchInv, Control, ErrorTrue, StopsAtTheEnd
<1>5. Owned'
  BY <1>1, <1>2 DEF PrefetchInv, Owned
<1>6. Contiguous'
  BY <1>1, <1>2 DEF PrefetchInv, Contiguous
<1>7. Handing'
  BY <1>1, <1>2 DEF PrefetchInv, Handing, Spent
<1> QED
  BY <1>3, <1>4, <1>5, <1>6, <1>7 DEF PrefetchInv

LEMMA CloseForwardStep ==
    ASSUME PrefetchInv, CloseForward
    PROVE  PrefetchInv'
<1>1. /\ goroutine = "closing" /\ closed' = TRUE /\ held' = Nil /\ goroutine' = "exited"
      /\ UNCHANGED <<size, fails, taken, from, length, prErr, fillErr, free, forward,
                     cur, pos, reader, got, result>>
  BY DEF CloseForward, sourceVars, readVars
<1>2. /\ InFlight' = InFlight /\ Returned' = Returned /\ Live' = Live
      /\ readTo' = readTo /\ sentTo' = sentTo
  BY <1>1 DEF InFlight, Returned, Live, readTo, sentTo
<1>3. PrefetchType'
  BY <1>1 DEF PrefetchInv, PrefetchType
<1>4. Control' /\ ErrorTrue' /\ StopsAtTheEnd'
  BY <1>1 DEF PrefetchInv, Control, ErrorTrue, StopsAtTheEnd
<1>5. Owned'
  <2>1. Live => cur # held'
    BY <1>1 DEF Live
  <2> QED
    BY <1>1, <1>2, <2>1 DEF PrefetchInv, Owned
<1>6. Contiguous'
  BY <1>1, <1>2 DEF PrefetchInv, Contiguous
<1>7. Handing'
  BY <1>1, <1>2 DEF PrefetchInv, Handing, Spent
<1> QED
  BY <1>3, <1>4, <1>5, <1>6, <1>7 DEF PrefetchInv

LEMMA GoroutineStep ==
    ASSUME PrefetchInv, Goroutine
    PROVE  PrefetchInv'
  BY TakeFreeStep, ReadFullStep, SendStep, SetErrStep, CloseForwardStep DEF Goroutine

-----------------------------------------------------------------------------
(* Read's steps *)

LEMMA CallReadStep ==
    ASSUME PrefetchInv, CallRead, result = "nil"
    PROVE  PrefetchInv'
<1> USE DEF PrefetchInv
<1>1. /\ reader = "idle"
      /\ reader' = IF cur = Nil \/ pos >= length[cur] THEN "checking" ELSE "copying"
      /\ UNCHANGED <<size, fails, taken, held, from, length, prErr, goroutine, fillErr, closed,
                     free, forward, cur, pos, got, result>>
  BY DEF CallRead, sourceVars, goroutineVars
<1>2. InFlight' = InFlight /\ Returned' = Returned /\ Live' = Live
  BY <1>1 DEF InFlight, Returned, Live
<1>3. reader' \in {"checking", "copying"} /\ PrefetchType'
  BY <1>1 DEF PrefetchType
<1>4. Control' /\ ErrorTrue' /\ StopsAtTheEnd' /\ Owned' /\ Contiguous'
  BY <1>1, <1>2 DEF Control, ErrorTrue, StopsAtTheEnd, Owned, Contiguous, readTo, sentTo
<1>5. Handing'
  <2>1. (reader' = "checking" /\ cur # Nil) => pos = length[cur]
    <3> SUFFICES ASSUME reader' = "checking", cur # Nil PROVE pos = length[cur]
      OBVIOUS
    <3>1. pos >= length[cur] /\ pos <= length[cur]
      BY <1>1 DEF Handing, Live
    <3>2. pos \in Nat /\ length[cur] \in Nat
      BY DEF PrefetchType
    <3> QED
      BY <3>1, <3>2
  <2>2. reader' = "copying" => cur # Nil
    BY <1>1
  <2> QED
    BY <1>1, <1>2, <1>3, <2>1, <2>2 DEF Handing
<1> QED
  BY <1>3, <1>4, <1>5

LEMMA GiveBackStep ==
    ASSUME PrefetchInv, GiveBack
    PROVE  PrefetchInv'
<1> USE DEF PrefetchInv
<1>1. /\ reader = "checking" /\ reader' = "receiving"
      /\ free' = IF cur = Nil THEN free ELSE Append(free, cur)
      /\ UNCHANGED <<size, fails, taken, held, from, length, prErr, goroutine, fillErr, closed,
                     forward, cur, pos, got, result>>
  BY DEF GiveBack, sourceVars, goroutineVars
<1>2. InFlight' = InFlight /\ ~ Live'
  BY <1>1 DEF InFlight, Live
<1>3. free \in Seq(Buffers) /\ (cur # Nil => cur \in Buffers /\ Live)
  BY <1>1 DEF PrefetchType, Handing, Live
<1>4. /\ free' \in Seq(Buffers)
      /\ cur = Nil => Returned' = Returned
      /\ cur # Nil => Returned' \subseteq Returned \union {cur}
      /\ \A i, j \in DOMAIN free' : i # j => free'[i] # free'[j]
  <2>1. CASE cur = Nil
    BY <1>1, <1>3, <2>1 DEF Returned, Owned
  <2>2. CASE cur # Nil
    <3>1. /\ free' \in Seq(Buffers)
          /\ \A i \in DOMAIN free' :
               \/ i \in DOMAIN free /\ free'[i] = free[i]
               \/ i = Len(free) + 1 /\ free'[i] = cur
      BY <1>1, <1>3, <2>2, AppendLast
    <3>2. Returned' \subseteq Returned \union {cur}
      BY <3>1 DEF Returned
    <3>3. \A i \in DOMAIN free : free[i] # cur
      BY <1>3, <2>2 DEF Owned, Returned
    <3> QED
      BY <2>2, <3>1, <3>2, <3>3 DEF Owned
  <2> QED
    BY <2>1, <2>2
<1>5. PrefetchType'
  BY <1>1, <1>4 DEF PrefetchType
<1>6. Control' /\ ErrorTrue' /\ StopsAtTheEnd'
  BY <1>1 DEF Control, ErrorTrue, StopsAtTheEnd
<1>7. Owned'
  BY <1>1, <1>2, <1>3, <1>4 DEF Owned
<1>8. readTo' = readTo
  <2>1. CASE cur = Nil
    BY <1>1, <2>1 DEF readTo, Live
  <2>2. CASE cur # Nil
    BY <1>1, <1>2, <1>3, <2>2 DEF readTo, Handing
  <2> QED
    BY <2>1, <2>2
<1>9. Contiguous'
  BY <1>1, <1>8 DEF Contiguous, sentTo
<1>10. Handing'
  <2>1. cur # Nil => pos >= length[cur]
    <3> SUFFICES ASSUME cur # Nil PROVE pos >= length[cur]
      OBVIOUS
    <3>1. pos = length[cur] /\ pos \in Nat
      BY <1>1 DEF Handing, PrefetchType
    <3> QED
      BY <3>1
  <2> QED
    BY <1>1, <1>2, <2>1 DEF Handing, Spent
<1> QED
  BY <1>5, <1>6, <1>7, <1>9, <1>10

LEMMA ReceiveStep ==
    ASSUME PrefetchInv, Receive
    PROVE  PrefetchInv'
<1> USE DEF PrefetchInv
<1> DEFINE h == Head(forward)
<1>1. /\ reader = "receiving" /\ forward # <<>>
      /\ cur' = h /\ forward' = Tail(forward) /\ pos' = 0 /\ reader' = "copying"
      /\ UNCHANGED <<size, fails, taken, held, from, length, prErr, goroutine, fillErr, closed,
                     free, got, result>>
  BY DEF Receive, sourceVars, goroutineVars
<1>2. InFlight = {h} /\ forward' = <<>> /\ h \in Buffers /\ h # Nil
  BY <1>1, OneInFlight, NilIsNoBuffer
<1>3. result = "nil" /\ Live' /\ ~Live
  BY <1>1, <1>2 DEF Handing, Live
<1>4. InFlight' = {} /\ Returned' = Returned
  BY <1>1, <1>2 DEF InFlight, Returned
<1>5. from[h] \in Nat /\ length[h] \in Nat /\ got \in Nat /\ from[h] = got
  BY <1>1, <1>2, <1>3 DEF PrefetchType, Contiguous, readTo
<1> HIDE DEF h
<1>6. PrefetchType'
  <2>1. forward' \in Seq(Buffers) /\ Len(forward') <= 1
    BY <1>2
  <2> QED
    BY <1>1, <1>2, <2>1 DEF PrefetchType
<1>7. Control' /\ ErrorTrue' /\ StopsAtTheEnd'
  BY <1>1 DEF Control, ErrorTrue, StopsAtTheEnd
<1>8. Owned'
  <2>1. h \notin Returned /\ h # held
    BY <1>2 DEF Owned
  <2> QED
    BY <1>1, <1>3, <1>4, <2>1 DEF Owned
<1>9. Contiguous'
  <2>1. readTo' = from[h] + length[h]
    BY <1>1, <1>3 DEF readTo
  <2>2. sentTo = from[h] + length[h] /\ sentTo' = readTo'
    BY <1>1, <1>2 DEF sentTo, h
  <2> QED
    BY <1>1, <1>2, <2>1, <2>2 DEF Contiguous
<1>10. Handing'
  <2>1. pos' <= length'[cur'] /\ from'[cur'] + pos' = got'
    BY <1>1, <1>5
  <2> QED
    BY <1>1, <1>2, <1>3, <2>1 DEF Handing
<1> QED
  BY <1>6, <1>7, <1>8, <1>9, <1>10

\* Read returns no more than the block has, and no more than there is room for.
LEMMA CopyToStep ==
    ASSUME PrefetchInv, NEW p \in Nat, CopyTo(p)
    PROVE  /\ PrefetchInv'
           /\ Given(p) \in 0..p /\ got' = got + Given(p) /\ got' <= size
<1> USE DEF PrefetchInv
<1> DEFINE g == Given(p)
<1>1. /\ reader = "copying" /\ reader' = "idle"
      /\ pos' = pos + g /\ got' = got + g
      /\ UNCHANGED <<size, fails, taken, held, from, length, prErr, goroutine, fillErr, closed,
                     free, forward, cur, result>>
  BY DEF CopyTo, sourceVars, goroutineVars
<1>2. Live /\ cur \in Buffers /\ Live' /\ result = "nil"
  BY <1>1 DEF Handing, PrefetchType, Live
<1>3. /\ pos \in Nat /\ got \in Nat /\ length[cur] \in Nat /\ from[cur] \in Nat
      /\ pos <= length[cur] /\ from[cur] + pos = got
  BY <1>2 DEF PrefetchType, Handing
<1>4. g \in 0..p /\ pos + g <= length[cur]
  BY <1>3 DEF Given
<1> HIDE DEF g
<1>5. InFlight' = InFlight /\ Returned' = Returned
  BY <1>1 DEF InFlight, Returned
<1>6. PrefetchType'
  <2>1. pos' \in Nat /\ got' \in Nat
    BY <1>1, <1>3, <1>4
  <2> QED
    BY <1>1, <2>1 DEF PrefetchType
<1>7. Control' /\ ErrorTrue' /\ StopsAtTheEnd' /\ Owned'
  BY <1>1, <1>2, <1>5 DEF Control, ErrorTrue, StopsAtTheEnd, Owned
<1>8. readTo = from[cur] + length[cur] /\ readTo' = readTo
  BY <1>1, <1>2 DEF readTo
<1>9. Contiguous'
  BY <1>1, <1>8 DEF Contiguous, sentTo
<1>10. Handing'
  <2>1. pos' <= length'[cur'] /\ from'[cur'] + pos' = got'
    BY <1>1, <1>3, <1>4
  <2> QED
    BY <1>1, <1>2, <2>1 DEF Handing
<1>11. got' <= size
  <2> DEFINE r == readTo
             e == sentTo
  <2>1. r = from[cur] + length[cur] /\ r \in Nat
    BY <1>3, <1>8
  <2>2. e \in Nat /\ e >= r
    <3>1. CASE forward = <<>>
      BY <2>1, <3>1 DEF sentTo
    <3>2. CASE forward # <<>>
      <4>1. Head(forward) \in Buffers
        BY <3>2, OneInFlight
      <4>2. length[Head(forward)] \in Nat /\ from[Head(forward)] = r
        BY <3>2, <4>1 DEF PrefetchType, Contiguous
      <4> QED
        BY <2>1, <3>2, <4>2 DEF sentTo
    <3> QED
      BY <3>1, <3>2
  <2> HIDE DEF r, e
  <2>3. taken >= e
    <3>1. CASE goroutine = "sending"
      <4>1. held \in Buffers /\ from[held] = e /\ taken = from[held] + length[held]
        BY <3>1 DEF Contiguous, PrefetchType, Control, e
      <4>2. length[held] \in Nat
        BY <4>1 DEF PrefetchType
      <4> QED
        BY <2>2, <4>1, <4>2
    <3>2. CASE goroutine # "sending"
      BY <2>2, <3>2 DEF Contiguous, e
    <3> QED
      BY <3>1, <3>2
  <2>4. taken \in Nat /\ taken <= size /\ size \in Nat
    BY NilIsNoBuffer DEF PrefetchType, ErrorTrue
  <2> QED
    BY <1>1, <1>3, <1>4, <2>1, <2>2, <2>3, <2>4
<1> QED
  BY <1>1, <1>4, <1>6, <1>7, <1>9, <1>10, <1>11 DEF g

\* Read reports an end, the true one, when every byte was handed out.
LEMMA ReceiveClosedStep ==
    ASSUME PrefetchInv, ReceiveClosed
    PROVE  /\ PrefetchInv'
           /\ got = size /\ got' = got
           /\ result' = IF fails THEN "failed" ELSE "EOF"
<1> USE DEF PrefetchInv
<1>1. /\ reader = "receiving" /\ forward = <<>> /\ closed /\ reader' = "idle"
      /\ result' = IF prErr \notin {"nil", "ErrUnexpectedEOF"} THEN prErr ELSE "EOF"
      /\ UNCHANGED <<size, fails, taken, held, from, length, prErr, goroutine, fillErr, closed,
                     free, forward, cur, pos, got>>
  BY DEF ReceiveClosed, sourceVars, goroutineVars
<1>2. goroutine = "exited" /\ held = Nil /\ prErr = fillErr /\ fillErr # "nil"
  BY <1>1 DEF Control
<1>3. result' = IF fails THEN "failed" ELSE "EOF"
  BY <1>1, <1>2 DEF ErrorTrue
<1>4. result' # "nil" /\ ~Live /\ ~Live'
  BY <1>1, <1>3 DEF Live
<1>5. got = size
  BY <1>1, <1>2, <1>4 DEF Contiguous, ErrorTrue, readTo, sentTo
<1>6. InFlight' = InFlight /\ Returned' = Returned /\ InFlight = {}
  BY <1>1 DEF InFlight, Returned
<1>7. PrefetchType' /\ Control' /\ ErrorTrue' /\ Owned' /\ Contiguous'
  BY <1>1, <1>4, <1>6 DEF PrefetchType, Control, ErrorTrue, Owned, Contiguous, readTo, sentTo
<1>8. StopsAtTheEnd'
  BY <1>1, <1>3, <1>5 DEF StopsAtTheEnd
<1>9. Handing'
  <2>1. cur # Nil => pos >= length[cur]
    BY <1>1, <1>2, <1>6 DEF Handing, Spent
  <2> QED
    BY <1>1, <1>4, <2>1 DEF Handing
<1> QED
  BY <1>1, <1>3, <1>5, <1>7, <1>8, <1>9

-----------------------------------------------------------------------------
(* The steps of what reads *)

LEMMA Sizes ==
    /\ Window \in Nat /\ Window >= 1
    /\ BatchSize \in Nat /\ BatchSize >= Window
    /\ DataSize \in Nat /\ DataSize >= 1
    /\ MaxSize \in Nat /\ ChunkSize \in Nat /\ ChunkSize >= 1
    /\ Batches!BatchAssumption
  BY RollStatAssumption, PrefetchAssumption DEF Batches!BatchAssumption

\* The BatchRoller is the one that is proved about.
LEMMA SameRoller ==
    /\ Roller!CoreNext <=> Batches!CoreNext
    /\ Roller!CallNext <=> Batches!CallNext
    /\ Roller!Loop <=> Batches!Loop
    /\ Roller!StartFill <=> Batches!StartFill
    /\ \A n : /\ Roller!ReadSome(n) <=> Batches!ReadSome(n)
              /\ Roller!ReadFull(n) <=> Batches!ReadFull(n)
              /\ Roller!ReadEOF(n) <=> Batches!ReadEOF(n)
              /\ Roller!ReadError(n) <=> Batches!ReadError(n)
    /\ Roller!Init <=> Batches!Init
<1>1. /\ Roller!dropped = Batches!dropped /\ Roller!bufVars = Batches!bufVars
      /\ Roller!coreVars = Batches!coreVars /\ Roller!readSize = Batches!readSize
      /\ (Roller!Idle <=> Batches!Idle)
  BY DEF Roller!dropped, Batches!dropped, Roller!bufVars, Batches!bufVars, Roller!coreVars,
         Batches!coreVars, Roller!readSize, Batches!readSize, Roller!Idle, Batches!Idle
<1>2. /\ \A k : Roller!Moved(k) = Batches!Moved(k)
      /\ \A l, n : Roller!Appended(l, n) = Batches!Appended(l, n)
  BY DEF Roller!Moved, Batches!Moved, Roller!Appended, Batches!Appended
<1>3. Roller!DropPrevious <=> Batches!DropPrevious
  BY <1>1, <1>2 DEF Roller!DropPrevious, Batches!DropPrevious
<1>4. Roller!CoreNext <=> Batches!CoreNext
  BY <1>1, <1>3 DEF Roller!CoreNext, Batches!CoreNext, Roller!AgainDone, Batches!AgainDone,
     Roller!NeedMore, Batches!NeedMore, Roller!CoreDone, Batches!CoreDone, Roller!Emit, Batches!Emit,
     Roller!bufVars, Batches!bufVars
<1>5. \A n : Roller!Feed(n) <=> Batches!Feed(n)
  BY <1>2 DEF Roller!Feed, Batches!Feed
<1>6. \A n : Roller!CommitTail(n) <=> Batches!CommitTail(n)
  BY <1>1, <1>5 DEF Roller!CommitTail, Batches!CommitTail
<1>7. Roller!StartFill <=> Batches!StartFill
  BY DEF Roller!StartFill, Batches!StartFill, Roller!bufVars, Batches!bufVars
<1>8. \A n : Roller!ReadSome(n) <=> Batches!ReadSome(n)
  BY DEF Roller!ReadSome, Batches!ReadSome, Roller!coreVars, Batches!coreVars, Roller!bufVars,
         Batches!bufVars, Roller!readSize, Batches!readSize
<1>9. Roller!Init <=> Batches!Init
  BY DEF Roller!Init, Batches!Init, Roller!CoreInit, Batches!CoreInit, Roller!Unset, Batches!Unset
<1> QED
  BY <1>1, <1>4, <1>6, <1>7, <1>8, <1>9
     DEF Roller!CallNext, Batches!CallNext, Roller!Loop, Batches!Loop,
         Roller!ReadFull, Batches!ReadFull, Roller!ReadEOF, Batches!ReadEOF,
         Roller!ReadError, Batches!ReadError

\* The windows delivered so far, all of them in the bytes fed.
LEMMA Undelivered ==
    ASSUME Batches!IInv
    PROVE  Batches!undelivered \in Nat /\ fed \in Nat
<1>1. /\ fed \in Nat /\ len \in Nat /\ len <= fed /\ prevN \in Nat
      /\ prevN > 0 => prevN >= Window
  BY Sizes DEF Batches!IInv, Batches!CoreInv, Batches!CoreType, Batches!PreviousKept
<1> QED
  BY <1>1, Sizes DEF Batches!undelivered

\* A caller that reads has not been told the end.
LEMMA ReadingOn ==
    ASSUME MainInv, Reading
    PROVE  result = "nil" /\ main \in {"warming", "running"}
<1>1. main \in {"warming", "running"} /\ ~Over
  BY DEF Reading, Over, MainInv, Measuring
<1>2. interface = "batchroll" => ~eof /\ ~err
  BY DEF Reading, MainInv, BatchInv, Batches!IInv, Batches!Filling
<1> QED
  BY <1>1, <1>2 DEF MainInv, Measuring

\* The invariant of the callers is about these variables only.
LEMMA SameMain ==
    ASSUME MainInv, UNCHANGED <<mainVars, rollerVars, got, result, size>>
    PROVE  MainInv'
<1>1. UNCHANGED <<interface, source, main, counted, got, result, size,
                  fed, cells, len, carry, prevN, dataLen, sums, offset, eof, done, err, state, filled>>
  BY DEF mainVars, rollerVars
<1>2. Batches!IInv => Batches!IInv'
  BY <1>1, Batches!FilledStep, Sizes
     DEF Batches!coreVars, Batches!bufVars, Batches!IInv
<1> QED
  BY <1>1, <1>2 DEF MainInv, Measuring, RollInv, BatchInv, Over, Batches!undelivered
\* Whatever the source gives, at most what there is room for, is accounted for.
LEMMA TakeStep ==
    ASSUME MainInv, Reading,
           NEW p \in Room, NEW n \in 0..p, Take(n),
           size \in 0..MaxSize, got \in Nat, got + n <= size, got' = got + n,
           result' = result, size' = size
    PROVE  MainInv'
<1> USE DEF MainInv
<1>1. result = "nil" /\ main \in {"warming", "running"} /\ result' = "nil"
  BY ReadingOn
<1>2. n \in Nat /\ Measuring
  <2>1. p \in Int
    BY Sizes DEF Room, Measuring, BatchInv, Batches!IInv, Batches!readSize
  <2> QED
    BY <2>1
<1>3. CASE FillWindow(n)
  <2>1. /\ main = "warming" /\ main' = IF got + n = Window THEN "running" ELSE "warming"
        /\ UNCHANGED <<interface, source, counted>>
    BY <1>3 DEF FillWindow
  <2>2. interface = "roll" /\ got < Window /\ counted = 0 /\ n <= Window - got
    <3>1. interface = "roll" /\ got < Window /\ counted = 0
      BY <2>1 DEF RollInv, Measuring
    <3>2. p = Window - got
      BY <2>1, <3>1 DEF Room
    <3>3. n <= p
      BY <3>1, <3>2, Sizes
    <3> QED
      BY <3>1, <3>2, <3>3
  <2>3. Measuring'
    BY <1>1, <2>1, <2>2 DEF Measuring, Over
  <2>4. RollInv'
    BY <1>2, <2>1, <2>2, Sizes DEF RollInv
  <2> QED
    BY <2>1, <2>2, <2>3, <2>4
<1>4. CASE RollOn(n)
  <2>1. /\ interface = "roll" /\ main = "running" /\ counted' = counted + n
        /\ UNCHANGED <<interface, source, main>>
    BY <1>4 DEF RollOn
  <2>2. Measuring'
    BY <1>1, <2>1 DEF Measuring, Over
  <2>3. RollInv'
    BY <1>2, <2>1, Sizes DEF RollInv
  <2> QED
    BY <2>1, <2>2, <2>3
<1>5. CASE FillBlock(n)
  <2>1. /\ interface = "batchroll" /\ UNCHANGED <<interface, source, main, counted>>
        /\ Batches!ReadSome(n) \/ Batches!ReadFull(n)
    BY <1>5, SameRoller DEF FillBlock, mainVars
  <2>2. BatchInv /\ Batches!IInv /\ fed + filled = got
    BY <2>1 DEF BatchInv
  <2>3. fed \in Nat /\ filled \in Nat /\ n \in 0..(MaxSize - fed - filled)
    BY <1>2, <2>2, Sizes DEF Batches!IInv, Batches!CoreInv, Batches!CoreType, Batches!readSize
  <2>4. Batches!IInv'
    BY <2>1, <2>2, <2>3, Sizes, Batches!ReadSomeStep, Batches!CommitStep
  <2>5. CASE Batches!ReadSome(n)
    <3>1. /\ filled' = filled + n /\ filled + n < BatchSize /\ state' = state
          /\ UNCHANGED <<fed, len, prevN, eof, err, done>>
      BY <2>5 DEF Batches!ReadSome, Batches!coreVars, Batches!bufVars, Batches!readSize
    <3>2. fed' + filled' = got' /\ filled' < BatchSize
      BY <1>2, <2>2, <2>3, <3>1
    <3>3. BatchInv'
      BY <1>1, <2>1, <2>2, <2>4, <3>1, <3>2 DEF BatchInv, Batches!undelivered
    <3>4. Measuring'
      BY <1>1, <2>1, <3>1 DEF Measuring, Over
    <3> QED
      BY <2>1, <3>3, <3>4
  <2>6. CASE Batches!ReadFull(n)
    <3>1. /\ state' = "calling" /\ filled' = 0 /\ fed' = fed + (filled + n)
          /\ UNCHANGED <<eof, err, done>>
      BY <2>6 DEF Batches!ReadFull, Batches!CommitTail, Batches!Feed
    <3>2. Batches!undelivered' = Batches!undelivered
      BY <2>2, <2>3, <2>6, Sizes, Batches!CommitStep
    <3>3. fed' + filled' = got'
      BY <1>2, <2>2, <2>3, <3>1
    <3>4. counted' = 0 \/ counted' + (Window - 1) <= fed'
      <4>1. Batches!undelivered \in Int
        BY <2>2, Undelivered
      <4>2. counted \in Int /\ counted' = counted
        BY <2>1, <2>2, <4>1 DEF BatchInv
      <4> QED
        BY <1>2, <2>2, <2>3, <3>1, <4>2, Sizes DEF BatchInv
    <3>5. BatchInv'
      BY <1>1, <2>1, <2>2, <2>4, <3>1, <3>2, <3>3, <3>4 DEF BatchInv
    <3>6. Measuring'
      BY <1>1, <2>1, <3>1 DEF Measuring, Over
    <3> QED
      BY <2>1, <3>5, <3>6
  <2> QED
    BY <2>1, <2>5, <2>6
<1>6. CASE FillChunker
  <2>1. interface = "chunk" /\ UNCHANGED <<interface, source, main, counted>>
    BY <1>6 DEF FillChunker, mainVars
  <2> QED
    BY <1>1, <2>1 DEF Measuring, Over
<1> QED
  BY <1>3, <1>4, <1>5, <1>6 DEF Take

\* The end of the source ends what reads it, or its batches.
LEMMA StopStep ==
    ASSUME MainInv, Reading,
           NEW error \in {"EOF", "failed"}, Stop(error), result' = error,
           size \in 0..MaxSize, got = size, got' = got, size' = size
    PROVE  MainInv'
<1> USE DEF MainInv
<1>1. result = "nil" /\ main \in {"warming", "running"}
  BY ReadingOn
<1>2. CASE interface = "batchroll"
  <2>1. /\ UNCHANGED <<interface, source, main, counted>>
        /\ IF error = "EOF" THEN Batches!ReadEOF(0) ELSE Batches!ReadError(0)
    BY <1>2, SameRoller DEF Stop, mainVars
  <2>2. BatchInv /\ Batches!IInv /\ fed + filled = got /\ main = "running"
    BY <1>1, <1>2 DEF BatchInv
  <2>3. fed \in Nat /\ filled \in Nat /\ 0 \in 0..(MaxSize - fed - filled)
    BY <2>2, Sizes DEF Batches!IInv, Batches!CoreInv, Batches!CoreType, Batches!readSize
  <2>4. Batches!IInv' /\ ~eof /\ ~err /\ Batches!undelivered' = Batches!undelivered
    <3>1. ~eof /\ ~err
      BY <1>1, <2>2 DEF BatchInv
    <3> QED
      BY <2>1, <2>2, <2>3, <3>1, Sizes, Batches!CommitStep
  <2>5. /\ filled' = 0 /\ fed' = fed + (filled + 0) /\ done' = done
        /\ state' = IF error = "EOF" THEN "calling" ELSE "failed"
        /\ eof' = IF error = "EOF" THEN TRUE ELSE eof
        /\ err' = IF error = "EOF" THEN err ELSE TRUE
    BY <2>1 DEF Batches!ReadEOF, Batches!ReadError, Batches!CommitTail, Batches!Feed
  <2>6. fed' + filled' = got' /\ fed' = got'
    BY <2>2, <2>3, <2>5
  <2>7. counted' = 0 \/ counted' + (Window - 1) <= fed'
    <3>1. Batches!undelivered \in Int
      BY <2>2, Undelivered
    <3>2. counted \in Int /\ counted' = counted
      BY <2>1, <2>2, <3>1 DEF BatchInv
    <3> QED
      BY <2>2, <2>3, <2>5, <3>2, Sizes DEF BatchInv
  <2>8. BatchInv'
    BY <2>1, <2>2, <2>4, <2>5, <2>6, <2>7 DEF BatchInv
  <2>9. Measuring'
    BY <1>1, <1>2, <2>1, <2>5 DEF Measuring, Over
  <2> QED
    BY <1>2, <2>1, <2>8, <2>9
<1>3. CASE interface # "batchroll"
  <2>1. /\ main' = IF error = "EOF" /\ main = "running" THEN "returned" ELSE "fatal"
        /\ UNCHANGED <<interface, source, counted>>
    BY <1>3 DEF Stop
  <2>2. main = "warming" => interface = "roll" /\ size < Window
    BY <1>1 DEF RollInv
  <2>3. Measuring'
    BY <1>1, <2>1, <2>2 DEF Measuring, Over
  <2>4. interface = "roll" => RollInv'
    BY <2>1 DEF RollInv
  <2> QED
    BY <1>3, <2>1, <2>3, <2>4
<1> QED
  BY <1>2, <1>3

\* Each batch adds its windows to the count.
LEMMA IterateStep ==
    ASSUME MainInv, Iterate
    PROVE  MainInv'
<1> USE DEF MainInv
<1>1. /\ interface = "batchroll" /\ ~Over
      /\ counted' = IF state' = "emitted" THEN counted + Len(sums') ELSE counted
      /\ UNCHANGED <<interface, source, main, got, result, size>>
      /\ (Batches!CallNext \/ Batches!Loop) \/ Batches!StartFill
  BY SameRoller DEF Iterate, prefetchVars, sourceVars, readVars
<1>2. BatchInv /\ Batches!IInv /\ Batches!CoreInv /\ main = "running"
  BY <1>1 DEF BatchInv, Batches!IInv, Measuring, Over
<1>3. ASSUME eof' = eof, err' = err PROVE Measuring'
  BY <1>1, <1>3 DEF Measuring, Over
<1>4. CASE Batches!StartFill
  <2>1. Batches!IInv'
    BY <1>2, <1>4, Sizes, Batches!StartFillStep
  <2>2. /\ state' = "reading" /\ filled' = 0 /\ state = "needMore"
        /\ UNCHANGED <<fed, len, prevN, eof, err, done>>
    BY <1>4 DEF Batches!StartFill, Batches!bufVars
  <2>3. filled = 0
    BY <1>2, <2>2, Sizes DEF Batches!IInv, Batches!readSize
  <2>4. filled' < BatchSize
    BY <2>2, Sizes
  <2>5. BatchInv'
    BY <1>1, <1>2, <2>1, <2>2, <2>3, <2>4 DEF BatchInv, Batches!undelivered
  <2> QED
    BY <1>1, <1>2, <1>3, <2>2, <2>5
<1>5. CASE Batches!CallNext \/ Batches!Loop
  <2>1. Batches!CoreCall /\ Batches!CoreNext /\ filled' = filled
    BY <1>5, Batches!Calls, Sizes DEF Batches!CoreCall
  <2>2. Batches!IInv'
    BY <1>2, <2>1, Sizes, Batches!CoreCallStep
  <2>3. ASSUME fed' = fed, eof' = eof, err' = err, state' \in {"coreDone", "needMore", "emitted"},
               state' = "coreDone" => done' \/ err',
               counted' = Batches!undelivered',
               counted' = 0 \/ counted' + (Window - 1) <= fed
        PROVE  MainInv'
    <3>1. BatchInv'
      BY <1>1, <1>2, <2>1, <2>2, <2>3 DEF BatchInv
    <3> QED
      BY <1>1, <1>2, <1>3, <2>3, <3>1
  <2>4. CASE Batches!AgainDone
    <3>1. Batches!undelivered' = Batches!undelivered /\ state' = "coreDone"
      BY <1>2, <2>4, Sizes, Batches!AgainDoneCore
    <3>2. fed' = fed /\ eof' = eof /\ err' = err /\ done' = done /\ (err \/ done)
      BY <2>4 DEF Batches!AgainDone, Batches!bufVars
    <3> QED
      BY <1>1, <1>2, <2>3, <3>1, <3>2 DEF BatchInv
  <2>5. CASE Batches!NeedMore
    <3>1. Batches!undelivered' = Batches!undelivered /\ state' = "needMore" /\ fed' = fed
      BY <1>2, <2>5, Sizes, Batches!NeedMoreCore
    <3>2. eof' = eof /\ err' = err
      BY <2>5 DEF Batches!NeedMore
    <3> QED
      BY <1>1, <1>2, <2>3, <3>1, <3>2 DEF BatchInv
  <2>6. CASE Batches!CoreDone
    <3>1. Batches!undelivered' = Batches!undelivered /\ state' = "coreDone" /\ fed' = fed
      BY <1>2, <2>6, Sizes, Batches!CoreDoneCore
    <3>2. eof' = eof /\ err' = err /\ done'
      BY <2>6 DEF Batches!CoreDone
    <3> QED
      BY <1>1, <1>2, <2>3, <3>1, <3>2 DEF BatchInv
  <2>7. CASE Batches!Emit
    <3> DEFINE n == dataLen'
               u == Batches!undelivered
               w == Batches!undelivered'
    <3>1. /\ fed' = fed /\ state' = "emitted"
          /\ n \in Window..(fed - u) /\ w = u + (n - (Window - 1))
          /\ sums' = [i \in 1..(n - (Window - 1)) |-> u + (i - 1)]
      BY <1>2, <2>7, Sizes, Batches!EmitCore
    <3>2. eof' = eof /\ err' = err
      BY <2>7 DEF Batches!Emit
    <3>3. u \in Int /\ fed \in Int
      BY <1>2, Sizes DEF Batches!CoreInv, Batches!CoreType, Batches!undelivered
    <3>4. counted = u
      BY <1>2 DEF BatchInv
    <3> HIDE DEF n, u, w
    <3>5. n \in Int /\ n - (Window - 1) \in Nat
      BY <3>1, <3>3, Sizes
    <3>6. Len(sums') = n - (Window - 1)
      BY <3>1, <3>5
    <3>7. counted' = w
      BY <1>1, <3>1, <3>4, <3>6
    <3>8. counted' + (Window - 1) <= fed
      BY <3>1, <3>3, <3>5, <3>7, Sizes
    <3> QED
      BY <2>3, <3>1, <3>2, <3>7, <3>8 DEF w
  <2> QED
    BY <2>1, <2>4, <2>5, <2>6, <2>7 DEF Batches!CoreNext
<1> QED
  BY <1>1, <1>4, <1>5

LEMMA LeaveLoopStep ==
    ASSUME MainInv, LeaveLoop
    PROVE  MainInv'
<1> USE DEF MainInv
<1>1. /\ interface = "batchroll" /\ ~Over /\ state \in {"coreDone", "failed"}
      /\ main' = IF err THEN "fatal" ELSE "returned"
      /\ UNCHANGED <<interface, source, counted, got, result, size, rollerVars>>
  BY DEF LeaveLoop, prefetchVars, sourceVars, readVars
<1>2. /\ BatchInv
      /\ err => result = "failed"
      /\ ~err => done /\ eof /\ result = "EOF"
  BY <1>1 DEF BatchInv, Batches!IInv, Batches!CoreInv, Batches!AllDelivered
<1>3. /\ UNCHANGED <<fed, cells, len, carry, prevN, dataLen, sums, offset, eof, done, err, state, filled>>
      /\ Batches!IInv'
  <2>1. UNCHANGED <<fed, cells, len, carry, prevN, dataLen, sums, offset, eof, done, err, state, filled>>
    BY <1>1 DEF rollerVars
  <2>2. UNCHANGED Batches!coreVars
    BY <2>1 DEF Batches!coreVars, Batches!bufVars
  <2>3. Batches!IInv
    BY <1>2 DEF BatchInv
  <2>4. /\ filled' \in 0..Batches!readSize /\ fed + filled' <= MaxSize
        /\ filled' > 0 => state = "reading"
    BY <2>1, <2>3 DEF Batches!IInv
  <2> QED
    BY <2>1, <2>2, <2>3, <2>4, Sizes, Batches!FilledStep
<1>4. BatchInv'
  BY <1>1, <1>2, <1>3 DEF BatchInv, Batches!undelivered
<1>5. Measuring'
  BY <1>1, <1>2, <1>3 DEF Measuring, Over
<1> QED
  BY <1>1, <1>4, <1>5

-----------------------------------------------------------------------------
(* cycleReader's steps *)

LEMMA Residue ==
    ASSUME NEW d \in Nat \ {0}, NEW q \in Nat, NEW r \in 0..(d - 1)
    PROVE  (d * q + r) % d = r
  OBVIOUS

LEMMA Quotient ==
    ASSUME NEW d \in Nat \ {0}, NEW x \in Nat
    PROVE  \E q \in Nat : x = d * q + (x % d) /\ x % d \in 0..(d - 1)
<1>1. x \div d \in Nat /\ x % d \in 0..(d - 1) /\ x = d * (x \div d) + (x % d)
  OBVIOUS
<1> QED
  BY <1>1

\* x + n, n at most d bytes on: in the same copy of the data, or in the next.
LEMMA Wrapping ==
    ASSUME NEW d \in Nat \ {0}, NEW x \in Nat, NEW n \in Nat
    PROVE  /\ (x % d) + n < d => (x + n) % d = (x % d) + n
           /\ (x % d = d - 1 /\ n \in 1..d) => (x + n) % d = n - 1
<1> PICK q \in Nat : x = d * q + (x % d) /\ x % d \in 0..(d - 1)
  BY Quotient
<1> DEFINE r == x % d
<1>1. x = d * q + r /\ r \in 0..(d - 1)
  OBVIOUS
<1> HIDE DEF r
<1>2. ASSUME r + n < d PROVE (x + n) % d = r + n
  <2>1. x + n = d * q + (r + n) /\ r + n \in 0..(d - 1)
    BY <1>1, <1>2
  <2> QED
    BY <2>1, Residue
<1>3. ASSUME r = d - 1, n \in 1..d PROVE (x + n) % d = n - 1
  <2>1. x + n = d * (q + 1) + (n - 1) /\ n - 1 \in 0..(d - 1) /\ q + 1 \in Nat
    BY <1>1, <1>3
  <2> QED
    BY <2>1, Residue
<1> QED
  BY <1>2, <1>3 DEF r

\* cycleReader gives what there is room for, up to the end of the data or of the size.
LEMMA CycleReadStep ==
    ASSUME CycleInv, NEW p \in Nat \ {0}, CycleRead(p), UNCHANGED <<size, fails, goroutine>>
    PROVE  /\ CycleInv'
           /\ \E n \in 0..p : Take(n) /\ got' = got + n /\ got + n <= size
<1> DEFINE start == IF dataPos >= DataSize THEN 0 ELSE dataPos
           room  == IF p < DataSize - start THEN p ELSE DataSize - start
           n     == IF room < size - got THEN room ELSE size - got
<1>1. /\ got < size /\ dataPos' = start + n /\ got' = got + n /\ Take(n)
      /\ UNCHANGED <<cur, reader, result>>
  BY DEF CycleRead
<1>2. /\ size \in Nat /\ size <= MaxSize /\ got \in Nat /\ dataPos \in 0..DataSize
      /\ DataSize \in Nat \ {0} /\ result = "nil" /\ MaxSize \in Nat
  <2>1. result = "nil"
    BY <1>1, Sizes DEF CycleInv, StopsAtTheEnd
  <2> QED
    BY <2>1, Sizes DEF CycleInv
<1>3. start \in 0..(DataSize - 1)
  BY <1>2
<1>4. room \in 1..p /\ start + room <= DataSize
  <2> HIDE DEF start
  <2> QED
    BY <1>2, <1>3
<1>5. n \in 1..p /\ start + n <= DataSize /\ got + n <= size
  <2> HIDE DEF start, room
  <2> QED
    BY <1>1, <1>2, <1>3, <1>4
<1>6. start + n = (((got + n) - 1) % DataSize) + 1
  <2>1. CASE got = 0
    <3>1. start = 0
      BY <2>1, <1>2 DEF CycleInv
    <3> HIDE DEF start, n
    <3>2. ((got + n) - 1) = DataSize * 0 + (n - 1) /\ n - 1 \in 0..(DataSize - 1)
      BY <1>2, <1>5, <2>1, <3>1
    <3>3. ((got + n) - 1) % DataSize = n - 1
      BY <1>2, <3>2, Residue
    <3> QED
      BY <1>5, <3>1, <3>3
  <2>2. CASE got > 0
    <3> DEFINE x == got - 1
               r == x % DataSize
    <3>1. x \in Nat /\ r \in 0..(DataSize - 1) /\ dataPos = r + 1
      BY <1>2, <2>2, Quotient DEF CycleInv
    <3>2. start = IF r = DataSize - 1 THEN 0 ELSE r + 1
      <4> HIDE DEF r
      <4> QED
        BY <1>2, <3>1
    <3>3. n \in Nat /\ (got + n) - 1 = x + n
      <4> HIDE DEF n
      <4> QED
        BY <1>2, <1>5
    <3> HIDE DEF n, x, start
    <3>4. CASE r = DataSize - 1
      <4>1. n \in 1..DataSize /\ start = 0
        <5> HIDE DEF r
        <5> QED
          BY <1>2, <1>5, <3>2, <3>4
      <4>2. (x + n) % DataSize = n - 1
        <5>1. DataSize \in Nat \ {0}
          BY <1>2
        <5>2. x % DataSize = DataSize - 1 /\ n \in 1..DataSize => (x + n) % DataSize = n - 1
          BY <5>1, <3>1, <3>3, Wrapping
        <5> QED
          BY <3>4, <4>1, <5>2
      <4> QED
        BY <3>3, <4>1, <4>2
    <3>5. CASE r # DataSize - 1
      <4>1. r + n < DataSize /\ start = r + 1
        <5> HIDE DEF r
        <5> QED
          BY <1>2, <1>5, <3>1, <3>2, <3>5
      <4>2. (x + n) % DataSize = r + n
        <5>1. DataSize \in Nat \ {0}
          BY <1>2
        <5>2. (x % DataSize) + n < DataSize => (x + n) % DataSize = (x % DataSize) + n
          BY <5>1, <3>1, <3>3, Wrapping
        <5> QED
          BY <4>1, <5>2
      <4> HIDE DEF r
      <4> QED
        BY <3>1, <3>3, <4>1, <4>2
    <3> QED
      BY <3>4, <3>5
  <2> QED
    BY <1>2, <2>1, <2>2
<1> HIDE DEF start, room, n
<1>7. got' \in 0..size /\ got' > 0 /\ dataPos' \in 0..DataSize
  BY <1>1, <1>2, <1>3, <1>5
<1>8. CycleInv'
  BY <1>1, <1>2, <1>6, <1>7 DEF CycleInv, StopsAtTheEnd
<1> QED
  BY <1>1, <1>5, <1>8

-----------------------------------------------------------------------------
(* The measurement *)

LEMMA RoomPositive ==
    ASSUME MainInv, Reading, got \in Nat
    PROVE  Room \subseteq Nat \ {0}
<1>1. CASE interface = "batchroll"
  <2>1. filled \in Nat /\ filled < BatchSize
    BY <1>1, Sizes DEF Reading, MainInv, BatchInv, Batches!IInv, Batches!readSize
  <2>2. BatchSize - filled \in Nat \ {0}
    BY <2>1, Sizes
  <2> QED
    BY <1>1, <2>2 DEF Room
<1>2. CASE interface = "roll"
  <2>1. main = "warming" => Window - got \in Nat \ {0}
    BY <1>2, Sizes DEF MainInv, RollInv
  <2>2. Room = {IF main = "warming" THEN Window - got ELSE ChunkSize}
    BY <1>2 DEF Room
  <2> QED
    BY <2>1, <2>2, Sizes
<1>3. CASE interface = "chunk"
  BY <1>3, RollStatAssumption DEF Room
<1> QED
  BY <1>1, <1>2, <1>3 DEF MainInv, Measuring

\* The invariants of the sources are about these variables only.
LEMMA SameSource ==
    ASSUME IInv, UNCHANGED <<prefetchVars, dataPos>>
    PROVE  /\ source = "prefetch" => PrefetchInv'
           /\ source = "cycle" => CycleInv'
<1>1. UNCHANGED <<size, fails, taken, held, from, length, prErr, goroutine, fillErr, closed,
                  free, forward, cur, pos, reader, got, result, dataPos>>
  BY DEF prefetchVars, sourceVars, goroutineVars, readVars
<1>2. InFlight' = InFlight /\ Returned' = Returned /\ Live' = Live
  BY <1>1 DEF InFlight, Returned, Live
<1>3. PrefetchInv => PrefetchInv'
  BY <1>1, <1>2 DEF PrefetchInv, PrefetchType, Control, ErrorTrue, Owned, Contiguous, Handing,
                    Spent, readTo, sentTo, StopsAtTheEnd
<1>4. CycleInv => CycleInv'
  BY <1>1 DEF CycleInv, StopsAtTheEnd
<1> QED
  BY <1>3, <1>4 DEF IInv

LEMMA InitStep ==
    ASSUME Init
    PROVE  IInv
<1>1. /\ size \in 0..MaxSize /\ fails \in BOOLEAN
      /\ taken = 0 /\ free \in [1..2 -> Buffers] /\ free[1] # free[2]
      /\ forward = <<>> /\ closed = FALSE /\ held = Nil
      /\ from = [b \in Buffers |-> 0] /\ length = [b \in Buffers |-> 0]
      /\ prErr = "nil" /\ goroutine = "waiting" /\ fillErr = "nil"
      /\ cur = Nil /\ pos = 0 /\ reader = "idle" /\ got = 0 /\ result = "nil"
  BY DEF Init, PrefetchInit
<1>2. /\ interface \in {"roll", "batchroll", "chunk"}
      /\ source \in {"prefetch", "cycle"} /\ (source = "cycle" => ~fails)
      /\ main = IF interface = "roll" THEN "warming" ELSE "running"
      /\ counted = 0 /\ dataPos = 0
  BY DEF Init
<1>3. size \in Nat /\ 0 <= size
  BY <1>1, Sizes
<1>4. PrefetchInv
  <2>1. InFlight = {} /\ ~Live
    BY <1>1 DEF InFlight, Live
  <2>2. free \in Seq(Buffers)
    BY <1>1, SeqDef
  <2>3. PrefetchType
    <3>1. forward \in Seq(Buffers) /\ Len(forward) <= 1
      BY <1>1
    <3>2. from \in [Buffers -> Nat] /\ length \in [Buffers -> Nat]
      BY <1>1
    <3> QED
      BY <1>1, <2>2, <3>1, <3>2 DEF PrefetchType
  <2>4. Control /\ ErrorTrue /\ StopsAtTheEnd
    BY <1>1, <1>3 DEF Control, ErrorTrue, StopsAtTheEnd
  <2>5. Owned
    <3>1. \A i, j \in DOMAIN free : i # j => free[i] # free[j]
      BY <1>1
    <3> QED
      BY <1>1, <2>1, <3>1 DEF Owned
  <2>6. Contiguous /\ Handing
    BY <1>1, <2>1 DEF Contiguous, Handing, readTo, sentTo
  <2> QED
    BY <2>3, <2>4, <2>5, <2>6 DEF PrefetchInv
<1>5. source = "cycle" => CycleInv
  BY <1>1, <1>2, <1>3, Sizes DEF CycleInv, StopsAtTheEnd
<1>6. MainInv
  <2>1. Batches!Init
    BY SameRoller DEF Init
  <2>2. Batches!IInv
    BY <2>1, Sizes, Batches!InitStep
  <2>3. /\ Batches!undelivered = 0 /\ fed + filled = got /\ ~eof /\ ~err /\ state = "ready"
    BY <1>1, <2>1 DEF Batches!Init, Batches!CoreInit, Batches!undelivered
  <2>4. interface = "batchroll" => BatchInv
    BY <1>2, <2>2, <2>3 DEF BatchInv
  <2>5. interface = "roll" => RollInv
    BY <1>1, <1>2, Sizes DEF RollInv
  <2>6. Measuring
    BY <1>1, <1>2 DEF Measuring, Over
  <2> QED
    BY <1>2, <2>4, <2>5, <2>6 DEF MainInv
<1> QED
  BY <1>2, <1>4, <1>5, <1>6 DEF IInv

LEMMA ReadPrefetchedStep ==
    ASSUME IInv, ReadPrefetched
    PROVE  IInv'
<1>1. /\ PrefetchInv /\ MainInv /\ Reading /\ source = "prefetch"
      /\ result = "nil"
  BY ReadingOn DEF ReadPrefetched, IInv
<1>2. size \in 0..MaxSize /\ got \in Nat
  BY <1>1 DEF PrefetchInv, PrefetchType
<1>3. CASE (CallRead \/ GiveBack \/ Receive) /\ UNCHANGED <<mainVars, rollerVars>>
  <2>1. PrefetchInv'
    BY <1>1, <1>3, CallReadStep, GiveBackStep, ReceiveStep
  <2>2. UNCHANGED <<got, result, size, source>>
    BY <1>3 DEF CallRead, GiveBack, Receive, sourceVars, mainVars
  <2>3. MainInv'
    BY <1>1, <1>3, <2>2, SameMain
  <2> QED
    BY <1>1, <2>1, <2>2, <2>3 DEF IInv
<1>4. ASSUME NEW p \in Room, CopyTo(p), Take(Given(p)) PROVE IInv'
  <2>1. p \in Nat
    BY <1>1, <1>2, RoomPositive
  <2>2. /\ PrefetchInv' /\ Given(p) \in 0..p /\ got' = got + Given(p) /\ got' <= size
        /\ result' = result /\ size' = size
    BY <1>1, <1>4, <2>1, CopyToStep DEF CopyTo, sourceVars
  <2>3. MainInv'
    BY <1>1, <1>2, <1>4, <2>2, TakeStep
  <2>4. source' = source
    BY <1>4 DEF Take, FillWindow, RollOn, FillBlock, FillChunker, mainVars
  <2> QED
    BY <1>1, <2>2, <2>3, <2>4 DEF IInv
<1>5. CASE ReceiveClosed /\ Stop(result')
  <2>1. /\ PrefetchInv' /\ got = size /\ got' = got /\ size' = size
        /\ result' \in {"EOF", "failed"}
    BY <1>1, <1>5, ReceiveClosedStep DEF ReceiveClosed, sourceVars
  <2>2. MainInv'
    BY <1>1, <1>2, <1>5, <2>1, StopStep
  <2>3. source' = source
    BY <1>5 DEF Stop, mainVars
  <2> QED
    BY <1>1, <2>1, <2>2, <2>3 DEF IInv
<1> QED
  BY <1>3, <1>4, <1>5 DEF ReadPrefetched

LEMMA ReadCycleStep ==
    ASSUME IInv, ReadCycle
    PROVE  IInv'
<1>1. /\ CycleInv /\ MainInv /\ Reading /\ source = "cycle" /\ result = "nil"
      /\ UNCHANGED <<size, fails, goroutine>>
  BY ReadingOn DEF ReadCycle, IInv, sourceVars, goroutineVars
<1>2. size \in 0..MaxSize /\ got \in Nat
  BY <1>1, Sizes DEF CycleInv
<1>3. ASSUME NEW p \in Room, CycleRead(p) PROVE IInv'
  <2>1. p \in Nat \ {0}
    BY <1>1, <1>2, RoomPositive
  <2>2. CycleInv' /\ result' = result
    BY <1>1, <1>3, <2>1, CycleReadStep DEF CycleRead
  <2>3. PICK n \in 0..p : Take(n) /\ got' = got + n /\ got + n <= size
    BY <1>1, <1>3, <2>1, CycleReadStep
  <2>4. MainInv'
    BY <1>1, <1>2, <2>2, <2>3, TakeStep
  <2>5. source' = source
    BY <2>3 DEF Take, FillWindow, RollOn, FillBlock, FillChunker, mainVars
  <2> QED
    BY <1>1, <2>2, <2>4, <2>5 DEF IInv
<1>4. CASE CycleEnd
  <2>1. /\ got >= size /\ result' = "EOF" /\ Stop("EOF")
        /\ UNCHANGED <<cur, reader, got, dataPos>>
    BY <1>4 DEF CycleEnd
  <2>2. got = size
    BY <1>1, <1>2, <2>1 DEF CycleInv
  <2>3. CycleInv'
    BY <1>1, <2>1, <2>2 DEF CycleInv, StopsAtTheEnd
  <2>4. MainInv'
    BY <1>1, <1>2, <2>1, <2>2, StopStep
  <2>5. source' = source
    BY <2>1 DEF Stop, mainVars
  <2> QED
    BY <1>1, <2>3, <2>4, <2>5 DEF IInv
<1> QED
  BY <1>3, <1>4 DEF ReadCycle

\* IInv holds in every reachable state.
THEOREM Invariance == Spec => []IInv
<1>1. IInv /\ [Next]_vars => IInv'
  <2> SUFFICES ASSUME IInv, [Next]_vars PROVE IInv'
    OBVIOUS
  <2>1. MainInv
    BY DEF IInv
  <2>2. CASE Iterate
    <3>1. UNCHANGED <<prefetchVars, dataPos>> /\ source' = source
      BY <2>2 DEF Iterate
    <3> QED
      BY <2>1, <2>2, <3>1, IterateStep, SameSource DEF IInv
  <2>3. CASE LeaveLoop
    <3>1. UNCHANGED <<prefetchVars, dataPos>> /\ source' = source
      BY <2>3 DEF LeaveLoop
    <3> QED
      BY <2>1, <2>3, <3>1, LeaveLoopStep, SameSource DEF IInv
  <2>4. CASE ReadPrefetched
    BY <2>4, ReadPrefetchedStep
  <2>5. CASE ReadCycle
    BY <2>5, ReadCycleStep
  <2>6. CASE Prefetch
    <3>1. source = "prefetch" /\ Goroutine /\ UNCHANGED <<mainVars, dataPos, rollerVars>>
      BY <2>6 DEF Prefetch
    <3>2. UNCHANGED <<got, result, size>>
      BY <3>1 DEF Goroutine, TakeFree, ReadFull, Send, SetErr, CloseForward, sourceVars, readVars
    <3>3. PrefetchInv'
      BY <3>1, GoroutineStep DEF IInv
    <3>4. MainInv'
      BY <2>1, <3>1, <3>2, SameMain
    <3>5. source' = source
      BY <3>1 DEF mainVars
    <3> QED
      BY <3>1, <3>3, <3>4, <3>5 DEF IInv
  <2>7. CASE UNCHANGED vars
    <3>1. UNCHANGED <<prefetchVars, dataPos, mainVars, rollerVars>>
      BY <2>7 DEF vars
    <3>2. UNCHANGED <<got, result, size, source>>
      BY <3>1 DEF prefetchVars, sourceVars, readVars, mainVars
    <3> QED
      BY <2>1, <3>1, <3>2, SameMain, SameSource DEF IInv
  <2>8. CASE Finished
    BY <2>7, <2>8 DEF Finished
  <2> QED
    BY <2>2, <2>3, <2>4, <2>5, <2>6, <2>7, <2>8 DEF Next, Main
<1> QED
  BY <1>1, InitStep, PTL DEF Spec

\* The goroutine of the prefetchReader never writes a buffer that Read hands out
\* or that waits in a channel.
THEOREM NoSharing == Spec => []NoSharedBuffer
<1>1. IInv => NoSharedBuffer
  <2> SUFFICES ASSUME IInv, goroutine = "filling"
               PROVE  /\ held \notin InFlight \union Returned
                      /\ held = cur => reader = "receiving"
    BY DEF NoSharedBuffer
  <2>1. PrefetchInv
    BY DEF IInv, CycleInv, MainInv, Measuring
  <2>2. held # Nil /\ ~closed
    BY <2>1 DEF PrefetchInv, Control
  <2>3. result = "nil"
    BY <2>1, <2>2 DEF PrefetchInv, Handing
  <2> QED
    BY <2>1, <2>2, <2>3 DEF PrefetchInv, Owned, Live
<1> QED
  BY <1>1, Invariance, PTL

\* Both sources hand out their bytes in order, and all of them before the end.
THEOREM InOrder == Spec => []SourceInOrder
<1>1. IInv => SourceInOrder
  <2> SUFFICES ASSUME IInv PROVE SourceInOrder
    OBVIOUS
  <2>1. CASE source = "prefetch"
    <3>1. PrefetchInv
      BY <2>1 DEF IInv
    <3>2. BytesInOrder
      <4> SUFFICES ASSUME reader \in {"idle", "copying"}, cur # Nil, pos < length[cur]
                   PROVE  from[cur] + pos = got
        BY DEF BytesInOrder
      <4>1. pos \in Nat /\ length[cur] \in Nat
        BY <3>1 DEF PrefetchInv, PrefetchType
      <4>2. result = "nil"
        BY <3>1, <4>1 DEF PrefetchInv, Handing
      <4> QED
        BY <3>1, <4>2 DEF PrefetchInv, Handing, Live
    <3> QED
      BY <2>1, <3>1, <3>2 DEF PrefetchInv, SourceInOrder
  <2>2. CASE source = "cycle"
    <3>1. CycleInv
      BY <2>2 DEF IInv
    <3>2. got <= size
      BY <3>1, Sizes DEF CycleInv
    <3> QED
      BY <2>2, <3>1, <3>2 DEF CycleInv, SourceInOrder
  <2> QED
    BY <2>1, <2>2 DEF IInv, MainInv, Measuring
<1> QED
  BY <1>1, Invariance, PTL

\* What a command prints is about every byte, or every window, of the source.
THEOREM Complete == Spec => []ResultIsComplete
<1>1. IInv => ResultIsComplete
  <2> SUFFICES ASSUME IInv PROVE ResultIsComplete
    OBVIOUS
  <2>1. Measuring /\ StopsAtTheEnd /\ size \in Nat
    BY Sizes DEF IInv, MainInv, Measuring, PrefetchInv, PrefetchType, CycleInv
  <2>2. main = "fatal" => fails \/ (interface = "roll" /\ size < Window)
    BY <2>1 DEF Measuring, StopsAtTheEnd
  <2>3. ASSUME main = "returned" PROVE ~fails /\ got = size
    BY <2>1, <2>3 DEF Measuring, StopsAtTheEnd
  <2>4. ASSUME main = "returned", interface = "roll" PROVE counted = size - Window
    BY <2>3, <2>4 DEF IInv, MainInv, RollInv
  <2>5. ASSUME main = "returned", interface = "batchroll"
        PROVE  counted = IF size < Window THEN 0 ELSE size - Window + 1
    <3>1. BatchInv /\ Batches!IInv /\ done /\ ~err
      BY <2>5 DEF IInv, MainInv, BatchInv
    <3>2. counted \in Nat /\ fed \in Nat /\ counted = Batches!undelivered
      BY <3>1, Undelivered DEF BatchInv
    <3>3. eof /\ Batches!undelivered + Window > fed
      BY <3>1 DEF Batches!IInv, Batches!CoreInv, Batches!AllDelivered
    <3>4. fed = size
      <4>1. state # "reading"
        BY <3>3, <3>1 DEF Batches!IInv, Batches!Filling
      <4>2. filled = 0
        BY <3>1, <4>1, Sizes DEF Batches!IInv, Batches!readSize
      <4> QED
        BY <2>3, <2>5, <3>1, <3>2, <4>2 DEF BatchInv
    <3>5. counted = 0 \/ counted + (Window - 1) <= size
      BY <3>1, <3>4 DEF BatchInv
    <3>6. counted + Window > size
      BY <3>2, <3>3, <3>4
    <3> QED
      BY <2>1, <3>2, <3>5, <3>6, Sizes
  <2> QED
    BY <2>2, <2>3, <2>4, <2>5 DEF ResultIsComplete
<1> QED
  BY <1>1, Invariance, PTL

\* The goroutine that reads the file is gone when a command returns and closes it.
THEOREM ClosedAfterUse == Spec => []FileClosedAfterUse
<1>1. IInv => FileClosedAfterUse
  BY DEF IInv, MainInv, Measuring, PrefetchInv, Handing, Control, FileClosedAfterUse
<1> QED
  BY <1>1, Invariance, PTL

\* pr.err, which is read without a lock, is not written once the channel is closed.
THEOREM ErrOnce == Spec => ErrPublished
<1>1. IInv /\ [Next]_vars => [closed => UNCHANGED prErr]_prefetchVars
  <2> SUFFICES ASSUME IInv, [Next]_vars, closed PROVE prErr' = prErr
    OBVIOUS
  <2>1. CASE Prefetch
    <3>1. goroutine = "exited" /\ Goroutine
      BY <2>1 DEF Prefetch, IInv, PrefetchInv, Control
    <3> QED
      BY <3>1 DEF Goroutine, TakeFree, ReadFull, Send, SetErr, CloseForward
  <2>2. CASE Iterate \/ LeaveLoop \/ UNCHANGED vars \/ Finished
    BY <2>2 DEF Iterate, LeaveLoop, Finished, vars, prefetchVars, goroutineVars
  <2>3. CASE ReadPrefetched
    BY <2>3 DEF ReadPrefetched, CallRead, GiveBack, Receive, CopyTo, ReceiveClosed, goroutineVars
  <2>4. CASE ReadCycle
    BY <2>4 DEF ReadCycle, goroutineVars
  <2> QED
    BY <2>1, <2>2, <2>3, <2>4 DEF Next, Main
<1> QED
  BY <1>1, Invariance, PTL DEF Spec, ErrPublished
=============================================================================
