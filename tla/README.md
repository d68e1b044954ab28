# A TLA+ verification of rollinghash

`rollinghash` is a Go library of rolling checksums (adler32, bozo32, bozo64,
buzhash32, buzhash64, gearhash64, rabinkarp64), with two streaming services on
top of them: batched rolling (the checksum of every window of a stream) and
content-defined chunking (a stream cut where a checksum satisfies a mask). Each
service has a pull form fed from an `io.Reader` (`BatchRoller`, `Chunker`) and a
push form fed by `Write` (`BatchWriter`, `ChunkWriter`). `rollstat` is a
benchmark command with one concurrent part, a prefetching reader, and a driver for each
of these services.

This directory models that code in TLA+, checks the models with TLC and proves
the central ones correct, for every value of their constants, with TLAPS.

## 1. Inventory

| Part | State | Operations | What is hard | What makes it correct |
|---|---|---|---|---|
| `chunkerCore`, `chunker.go` | accumulator `cbuf` of the bytes `cbufBase..consumed-1`, `chunkStart`, boundary queue `bounds`/`bcur`, `hashedTo`, `eof`/`done`/`err`, the current chunk | `reset`, `finish`, `compact`, `feed`, `readTail`/`commitTail`, `skipPreMin`, `hashForward`, `next`, `emit`, `windowSum` | lazy hashing in overlapping batches, skipping before `min`, dropping bytes that a straddling window still needs, overflow at large `max` | cuts do not depend on the batches: each is the first admissible one |
| `Chunker`, `chunker.go` | the core and a reader | `Next`, `fillCore`, `Reset` | short reads, bytes with EOF, bytes with an error, bounded memory | the same, for every way the reader splits the stream; it ends |
| `ChunkWriter`, `chunkwriter.go` | the core and `pending` | `Write`, `Close`, `Next`, `Reset` | bytes held back, Write after Close, Close twice, Reset | the same, for every way the caller splits the stream |
| `batchRollerCore`, `batchroller.go` | `buf`, `carry`, `prevN`, `offset`, the current batch, flags | `reset`, `finish`, `feed`, `readTail`/`commitTail`, `next` | the deferred drop, feeding on top of a pending carry, noticing the last batch | every window delivered once, in order, with its bytes and offset |
| `BatchRoller`, `BatchWriter` | as above | as above | as above | the same; memory bounded; it ends |
| Circular window, `internal/window` and the seven digests | `window`, `oldest`, the weight of the leaving byte | `Write`, `Roll`, `Reset`, `WriteWindow` | Write after Roll, a weight of another length, a writer that fails half-way | the checksum is the one of the window's bytes; what is written is a prefix of them |
| Arithmetic of the digests | the checksum | `Write`, `Roll`, `BatchRoll` | unsigned wrap-around, windows longer than the word | Roll and BatchRoll give what Write gives |
| Two-lane scans | two lanes, block masks, tails | `BatchBoundaries`, `BatchRoll` | edges of lanes, blocks and tails | every hit once, in order |
| `rabinkarp64` | modulus, tables, checksum | `NewFromPol`, `Write`, `Roll`, `Reset`, `BatchRoll`, `BatchBoundaries` | tables of another length, degree edges | Roll and the lanes give what Write gives, the residue |
| Table cache of `rabinkarp64` | a map and a mutex, shared by all digests | `tablesFor` | goroutines that miss together | no unguarded access, the right tables, every call returns |
| `polynomials.go` | none | arithmetic over GF(2), `Irreducible`, `DerivePolynomial` | truncation to 64 bits, division edges | the textbook definitions; what is derived is irreducible |
| `prefetchReader`, `rollstat/main.go` | two channels, two buffers, `err` | a goroutine, `Read` | buffers shared by two goroutines, publication of `err`, closing | bytes in order, no sharing, the end |
| A measurement, `rollstat/main.go` | its source (`prefetchReader` or `cycleReader`), what reads it (`rollSpeed`, `BatchRoller` or `Chunker`), a count | `cmdSpeed`, `cmdStat`, `rollSpeed`, `cycleReader.Read`, the cleanup | short reads, errors, the file closed under the goroutine | the result is about the whole source; the file is closed after its last use; it ends |
| Rest of `rollstat` | flags, statistics | | | not modelled: I/O without a protocol |

The interactions: the two cores call the digest through `BatchRoll` and
`BatchBoundaries`, and `chunkerCore` also through `Reset` and `Write` for the sum
of a cut; a reader or a writer drives its core; the digests of rabinkarp64 share
the table cache; the commands of `rollstat` drive a reader, which may be a `BatchRoller` or a
`Chunker` over `prefetchReader`. The streaming types are used
by one goroutine at a time. Only the table cache and the prefetching reader are
concurrent.

`PROJECT.json` lists, under `hazards`, what in this code is hard to test, each at
its line, with the properties that would catch it going wrong.

## 2. Modules

Each module's head comment says what it abstracts. `PROJECT.json` gives, under
`map`, the lines that each definition models.

### Chunking

    ChunkPolicy          the cutting rule, as operators
      ContentChunking    abstract: what the interfaces promise
      ChunkerCore        chunkerCore: state, steps, properties
        Chunker          + reader   -- implements ContentChunking
        ChunkWriter      + pending  -- implements ContentChunking
        ChunkBytes       + the memory behind cbuf
          ChunkerBytes       Chunker with that memory
        ChunkerCoreProofs -> ChunkerProofs (of ChunkerBytes), ChunkWriterProofs
                     (its theorems about the policy use the induction of WindowLemmas)
          MCChunker, MCChunkWriter (for TLC, under the proofs' assumptions)

* A stream is the set `hits` of the byte positions where the window ending there
  satisfies the mask; a checksum is the position its window ends at. Which hits a
  stream has is chosen at the start, freely: every content is covered.
* `BatchBoundaries` is its contract: all hits among the windows inside the buffer
  handed to it (`BatchHits`). `TwoLanes` shows that the code meets it.
* The slice `bounds` is kept as two sets, before and from `bcur`. That is exact
  because it is ascending, which `QueueAscends` states.
* `next()` takes several steps: `Begin`, one `HashForward` per iteration of its loop,
  and one of `EmitBoundary`, `EmitForced`, `EmitFinal`, `CoreDone`, `NeedMore`.
* Go ints wrap at `MaxInt` (`Wrap`), and a slice out of range is `state = "panic"`.
* `ChunkBytes` adds the array behind `cbuf` and the slice that `Bytes` returned, so
  that a move under the slice is visible.

### Batched rolling

    RollingBatches       abstract: what the interfaces promise
    BatchRollerCore      batchRollerCore: state, steps, properties
      BatchRoller        + reader   -- implements RollingBatches
      BatchWriter        + pending  -- implements RollingBatches
      BatchProofs        of BatchRoller and BatchWriter

The names of `BatchWriter` (`WriterInit`, `WriterNext`, `WriterSpec`, `writerVars`, ...) are
disjoint from those of `BatchRoller`, so that one module of proofs extends both.

Here the memory is in the core itself: `cells` is the array under `buf`, and a byte is
its position in the stream. `Bytes` and `Sums` are what the array holds, so the
refinement says that the right bytes come with the right sums.

### Digests

    Checksums            the arithmetic of four families of packages
      RollingHash        + the circular buffer   -- implements SlidingWindow
    TwoLanes             BatchBoundaries
    TableCache           tablesFor
      DigestProofs       of RollingHash, TwoLanes and TableCache
    Polynomials -> RabinKarp -> MCRabinKarp (the mathematics it is compared with)
      RabinKarpProofs    of MCRabinKarp
    WindowLemmas         induction, recursion and the windows of a sequence, for both

* `Checksums`: the arithmetic of adler32, bozo, buzhash and gearhash in a word of
  `Width` bits, for any multiplier and any table: what a byte adds to a checksum, the
  weight of the byte that leaves, a roll, and `BatchRoll`'s two lanes.
* `RollingHash` extends it with the state of a digest, the circular buffer, its oldest
  index, the cached weight and the checksum, and implements `SlidingWindow` (abstract).
* `TwoLanes`: `BatchBoundaries` of buzhash64, step by step. A lane is the window it has
  rolled to.
* `Polynomials`: arithmetic over GF(2) in a word of `Width` bits; a polynomial is the
  set of its exponents.
* `RabinKarp`: the digest over that arithmetic, with `BatchRoll` and `BatchBoundaries`, whose
  tables are not the digest's own. `MCRabinKarp` adds the definitions in
  mathematics that both are compared with.
* `TableCache`: `tablesFor` called by several goroutines. An access to the map is an
  interval, not an instant, so two overlapping ones are visible.

### rollstat

    PrefetchReader       prefetchReader: the goroutine and Read
      RollStat           a measurement: a source and what reads it
        BatchRoller      (an instance of it, with the batch's side of section "Batched rolling")
        RollStatProofs   (uses BatchProofs through an instance)

* `PrefetchReader` has one step per channel operation or shared access. Its source is a
  file or a generator of any length up to `MaxSize`, with either ending; who calls `Read`,
  and with what room, is left to `RollStat`.
* `RollStat` has a step for each Read: the source gives up some bytes and the reader takes
  the same bytes, which joins an action of `PrefetchReader` (or of `cycleReader`) with one
  of `BatchRoller` (`ReadSome`, `ReadFull`, `ReadEOF`, `ReadError`), of `rollSpeed`, or with
  nothing for the `Chunker`, of which only its asking for any number of bytes matters here.
  A `BatchRoller` is given `BatchSize - filled` of room, as `fillCore` gives it. `err # nil`
  ends the process (`main = "fatal"`), and the goroutine with it.

## 3. Runs

Every mutant of `PROJECT.json` changes one definition the way a slip in the code
would; the property it is listed with is then violated under the same
configuration.

| Run | Bounds | Distinct states | What it shows |
|---|---|---|---|
| `ChunkWriter` | window 3, min 2, max 4, batch 3, 9 bytes | 38,368 | Under any order of Write, Close, Next, Reset: chunks follow the policy, no boundary is missed or queued twice, "nothing yet" is true, Next returns, a closed stream drains, and ContentChunking is implemented |
| `Chunker` | window 2, min 0, max 3, batch 2, 6 bytes | 206,020 | With short reads, EOF or an error with or without bytes, and with the accumulator's memory: ContentChunking is implemented, the buffer is bounded (without compaction 6 bytes exceed the bound), Bytes is stable until Next, an error is final, a caller that keeps calling comes to the end |
| `BatchWriter` | window 3, batch 4, 9 bytes | 9,487 | Every window delivered once with its bytes; they stay valid until Next even if Write is called; a closed stream drains |
| `BatchRoller` | window 3, batch 5, 14 bytes | 1,886 | The same for the reader; the buffer is bounded; an error is final; the end comes |
| `RollingHash` | 3-bit words, modulus 3, 3 byte values, windows up to 4 | 443,578 | Any mix of Write, Roll and Reset, for every multiplier and table: the checksum is that of the window, BatchRoll agrees with Write, what WriteWindow writes has no gap though its writer may fail, SlidingWindow is implemented |
| `TwoLanes` | none to 11 positions, blocks of 2, of 4 or none | 112,560 | Every hit, in order, once; the scan returns |
| `RabinKarp` | 7-bit words, 2-bit bytes, windows up to 3, degree 5 derived | 10,540 | Every modulus of degree 2 to 6: Roll and the lanes agree with Write and with the residue, overflow is noticed, Ben-Or's test is right, and `DerivePolynomial` gives each irreducible polynomial and no other |
| `TableCache` | 3 goroutines, 2 keys | 18,300 | Guarded map, own tables, every call returns |
| `RollStat` | blocks and batches of 4, window 3, data of 3, sources up to 12 | 12,884 | For each source and reader: no shared buffer, error before close, bytes in order and all of them, the count is complete, the file is closed after use, no deadlock, the end |

Why the bounds are enough. The streams hold at least two chunks of the longest kind or
two full batches and more, so that every straddle (of a window over a cut, of a chunk over a
batch, of a write over a batch) occurs in every relative position; the positions of hits are
exhaustive. `StreamLimit`, `MaxWindow`, `MaxN`, `MaxSize` and `MaxRead` are bounds of the
models and not of the code. A window in `RollingHash` is longer than the word has bits and
than the modulus, where the edge cases are. A 7-bit word with 2-bit bytes has moduli at and
above the degrees that leave room for a byte, and 5 is a prime degree that just leaves it.
In `RollStat` a block is as large as a batch, as in the code (16 MiB both), and a source is
up to three of them; `cycleReader`'s data is a size that divides neither a block nor every
source. `TwoLanes` has 2 and 4 for the blocks of 32, so that a lane has none, one or
several, and 32 itself, which no scan of the model fills, for the packages without blocks.
The chunking runs look at one choice of min, max and batch each, and so do the others of
their constants; for every other choice there are the proofs.
Deadlock is checked except in `TwoLanes`, where the computation ends.

### Where the code differs from what it says

Each of these runs checks one property that a comment of the code states, and TLC finds
it violated. `PROJECT.json` quotes the lines under `findings`.

| Run | What happens |
|---|---|
| `ChunkWriterDefaultMin` | With min = 0, the default, the boundary that ended the last chunk stops the hashing loop (it is still the last element of `bounds`): ChunkWriter misses boundaries |
| `ChunkerHugeMax` | A max just below MaxInt overflows and `emit` panics |
| `ChunkWriterStale` | The accessors keep the last chunk after "nothing yet" |

The models follow the code, and not the comments, in these places too, without a run of
their own:

* `BatchWriter` likewise keeps the last batch after "nothing yet", and `Chunker` and
  `BatchRoller` keep theirs after a read error until the next Next (`ReadError`), although
  the accessors' comments say nil after false.
* `ChunkWriter`'s `Write` compacts the accumulator under the slice that `Bytes` returned
  (`Feed` is `Compact`), which `chunkwriter.go:95` does not say; `chunker.go:361` does.
* With max < window a forced cut of the first bytes has sum 0 (`NoSum`), though
  `chunker.go:365` says that of final chunks only.
* `BatchWriter` withholds up to a batch less one byte, so that Next returns false although
  a window was written (`rollinghash.go:168`).
* `Irreducible` holds of 0 and 1, and `NewFromPol` of a polynomial of degree below 8 rolls
  to other values than it writes. The moduli of `MCRabinKarp` start at a byte's degree.
* The MB/s that `cmdSpeed` prints for `batchroll` and `chunk` are computed from `-size`
  (`main.go`, lines 255 and 264), also when the input file is shorter; `rollSpeed` counts.

`refChunk` of `chunker_test.go` is the oracle of the tests; its forced cut also waits for a
full window (line 34), unlike `next()`. The two differ only when max < window.

### Fairness

* A call that has started runs to its end: weak fairness of the steps inside a call
  (`InNext`, `InCore`, `Loop`, `StartFill`, `InCall`, `Prefetch`, `Main`). The code
  has no step there that waits for anybody else, but for the channels and the mutex.
* The caller keeps calling Next: the loop of every example (`for c.Next()`). For the
  writers that is assumed only once the stream is closed.
* The reader answers: with bytes, EOF or an error. `io.Reader` discourages `(0, nil)`; a
  reader that returns it for ever makes `fillCore` loop for ever, and is excluded.
* `TableCache` has strong fairness of taking the lock: Go's mutex hands itself to a waiter
  that has waited for a millisecond.

Nothing obliges a caller to write, close or reset.

## 4. Proofs

Eight modules are checked by TLAPS to the last leaf: `ChunkerCoreProofs`,
`ChunkWriterProofs`, `ChunkerProofs`, `BatchProofs`, `DigestProofs`, `RabinKarpProofs`,
`RollStatProofs` and, for the lemmas they share, `WindowLemmas`. Every safety property that a
passing run checks, invariant, action property or refinement, is a theorem for every value of
the constants that the assumptions below admit.

### Chunking

| Theorem | Of | Says |
|---|---|---|
| `Invariance` | both | the inductive invariant holds |
| `TypeCorrect` | both | `TypeOK` |
| `ChunksFollowPolicy` | both | every chunk ends at the first cut of the policy, with the right sum and flag |
| `NothingLost` | both | no lead-in byte and no boundary is dropped |
| `NothingYet` | both | more bytes are asked for only when those present fix no cut |
| `BoundariesAscend` | both | batches append to the queue in order |
| `Refinement` | both | ContentChunking is implemented: every step is a step of it or a stutter |
| `Bounded` | Chunker | the bound on the accumulator |
| `ErrorsFinal` | Chunker | while an error stands, no chunk is emitted |
| `BytesStable` | Chunker | what `Bytes` returned stays the chunk's bytes until Next |

Assumptions: `PolicyAssumption` (window and max are positive), `CoreAssumption` (a batch
holds a window; offsets are ints), `NoOverflow` (a stream's offsets plus min, max or a batch
do not exceed MaxInt, or max is MaxInt) and, for the writer, `MinPositive`. TLC evaluates
them in `MCChunker` and `MCChunkWriter`. Without `NoOverflow` the run `ChunkerHugeMax`
is a counterexample, and without `MinPositive` `ChunkWriterDefaultMin` is one.

The argument. `CutsFollowPolicy` is about the chunk last emitted, and is not inductive: it
needs that the queue is complete (`QueueComplete`: all boundaries that may still matter and
are before `hashedTo` are in it) and sound (`QueueSound`), that hashing never lags behind the
chunk except within the first window of the stream (`NotLeftBehind`), and that the bytes
before the next window are there (`LeadInKept`). Together these are `CoreInv`, shared by both
forms. What remains is that the loop of `next()` goes on until the hashing has passed
every candidate; that is where the two forms differ. With min >= 1 a consumed boundary is
before `minByte` and cannot stop the loop (`SpentBehind`). The Chunker does not need that: a
block is one batch, so that once a boundary has been found nothing is left to hash
(`HashedAhead`), with min = 0 too. The Chunker's `Filling`, `Drained`, `OneBatch` and
`Compacted` give that fact and the bound on memory.

`BytesStable` is about `ChunkerBytes`, whose steps are the Chunker's with the array behind
`cbuf`. It needs that the first cells hold the buffered interval (`CellsHold`), through every
move and every read, and that the slice returned lies where the chunk does (`Shown`).

Two theorems of `ChunkerCoreProofs` are about the policy alone, which the theorems above tie to
the code. `Resynchronised`: two streams that agree from some byte on and share a cut there have
the same cuts from there on, also when an edit before it has moved the bytes. `EveryHitCuts`:
with min = 0 or 1 they come to share one at the first hit after the edit. (With a larger min
two streams may keep missing each other's cuts; nothing is claimed of that.)

Each step of the code has a lemma of its own (`HashForwardCore`, `CompactCore`,
`EmitBoundaryCore`, ...) and the theorems combine them.

### Batched rolling

| Theorem of BatchRoller | of BatchWriter | Says |
|---|---|---|
| `Invariance` | `WriterInvariance` | the inductive invariant holds |
| `Refinement` | `WriterRefinement` | RollingBatches is implemented: every window once, in order, with its bytes and offset |
| | `BytesStable` | a batch does not change until Next or Reset, whatever is written meanwhile |
| | `WriterTypeCorrect` | `TypeOK` |
| `Bounded` | | the buffer holds at most a lead-in and a block |
| `ErrorsFinal` | | while an error stands, no batch is emitted |

From `BatchAssumption` (a batch holds a window). `CoreInv` says that cell `i` of `buf` holds the
byte at that place of the stream (`BufferHolds`), that what `prevN` and `carry` will drop or
keep is there (`PreviousKept`), that `offset` is that of the first byte undelivered windows need
(`OffsetTrue`), that the batch is what the array shows (`BatchShown`), and that a done core
has delivered everything (`AllDelivered`). The forms add what is pending or being read.

### Digests and scans

| Theorem | Of | Says |
|---|---|---|
| `Invariance` | RollingHash | the inductive invariant holds |
| `RollIsWrite` | RollingHash | after any Write, Roll and Reset the checksum is that of the window's bytes |
| `BatchIsWrite` | RollingHash | `BatchRoll`'s lanes give the checksum of every window of the data |
| `WrittenInOrder` | RollingHash | what `WriteWindow` has written is a prefix of the window |
| `Slides` | RollingHash | SlidingWindow is implemented |
| `ScanInvariance`, `ScanComplete` | TwoLanes | every hit is returned, once and in order, for blocks of any size |
| `CacheInvariance`, `MapSafe`, `TablesOwn` | TableCache | the map is guarded; every call returns its own tables |

They hold for any word, any table, any multiplier and any length of the window, from
`ChecksumsAssumption`: bytes are below the modulus, and neither a sum of three residues nor a
product of a residue and a byte wraps, as with 65521, 255 and 2^32. `LanesAssumption` asks for
blocks that are not empty, `CacheAssumption` that no goroutine is `Nil`. The module extends
all three models, whose names are disjoint (`Spec` is that of a digest, `ScanSpec` of a scan,
`CacheSpec` of the cache).

The argument has two halves. `Laws` is what a family's arithmetic must satisfy, stated with
`Plus(v, x, m)`, the checksum `v` with `x` put in front of `m` bytes more: writing one byte is
that with `m = 0`; a further byte commutes with it; and a roll takes it away again, given the weight for
`m + 1`. `AdlerLaws`, `BozoLaws`, `GearLaws` and `BuzLaws` prove them, with the wrap-around and
the shifts. From `Laws` alone `SlideIsHash` shows that a roll leads from the checksum of a
window to that of the next one. The other half is about the buffer: its content is in circular
order from `oldest` (`WindowInv`), a roll replaces the oldest byte and moves on
(`MoveLeftRotates`), and the cached weight is that of the window's length (`WeightTrue`).
`IInv` is these with `RollAgreesWithWrite` itself.

Checksums are defined by recursion on the bytes. A recursive function of TLA+ is one that is
CHOOSEn to satisfy its equation, so it must first be shown that there is one (`SumsExist`). The
provers cannot instantiate the library's induction theorems, which take an operator;
`WindowLemmas` has one of its own about sets of numbers (`Induction`), from the ranks of the
numbers in a finite set (`Ranks`), and from it `Recursion`. Likewise the law of powers of two is
read off the number of subsets of a finite set (`PowerOfTwo`).

For `TwoLanes`, each lane is at its position, the bits stand for the block's hits up to step
`k` (`BitsTrue`), and the outputs are the hits up to the block, in ascending order (`AtBlock`,
`AtLockstep` and the like, by place in the code). For `TableCache`, a goroutine is inside a
critical section if and only if it holds the lock (`LockHeld`), the map is right (`EntriesTrue`)
and so is what each call has in hand (`TableTrue`): goroutines that miss together build the same
tables twice.

### rabinkarp64

| Theorem | Says |
|---|---|
| `Invariance` | the inductive invariant holds: the tables are those of the window's length, the checksum is that of the window |
| `RollIsWrite` | after any Write, Roll and Reset the checksum is the one that writing the window gives |
| `BatchIsWrite` | the lanes of `BatchRoll` and `BatchBoundaries` find the checksum of every window, whatever tables the digest holds |
| `ValueIsRemainder` | that checksum is the remainder of the window's polynomial modulo `pol` |
| `OverflowNoticed` | `Mul` panics exactly when the product does not fit |
| `GCDIsGreatest` | what divides `GCD(x, f)` is what divides both |
| `IrreducibleIsBenOr` | `Irreducible(g)` holds exactly when only 1 divides both `g` and x^(2^i) - x, for each i up to half the degree; no product overflows |
| `BenOrIsRight` | and that is exactly when `g` is no product of two of lower degree |
| `FirstIrreducible` | `DerivePolynomial` gives the first candidate that is irreducible, or an error when there is none, for any sequence of draws |
| `PrimesCounted` | there are (2^d - 2) / d irreducible polynomials of the prime degree d (`polynomials.go`, lines 176-178) |
| `DerivedIrreducible` | `DerivedIsIrreducible` |

They hold for words and bytes of any width, windows of any length and every modulus that is
admitted, from `WidthAssumption` and two assumptions of `MCRabinKarp`: `HighModuli` (a modulus
has at least the degree of a byte's width, or `polShift` wraps: `NewFromPol` of a lower one
rolls to other values than it writes) and `DerivedDegreeIsPrime`, which line 174 says of 53.
`BenOrIsRight` needs words of three bits: with two, the square of x does not fit. The remainder
is claimed, as in the run, where the degree of `pol` leaves room for a byte above it.

The argument. A polynomial of any degree is a finite set of exponents (`Poly`), and `Times` the
product without a width, of which `Mul` keeps the low bits. There is one remainder
(`OneRemainder`), so that it is enough to show that Write, Roll and the tables keep the checksum
congruent to the window and of a lower degree than `pol`. `Deg`, `DivMod`, `GCD`, `qp` and the
tables are defined by CHOOSE or recursion; each is shown to exist and to do its job by `Induction` on
a degree or a count.

That Ben-Or's test is right is number theory over GF(2), carried out in the module. A polynomial
of least degree that divides two others and is a combination of them gives `PrimeDividesProduct`;
modulo a prime, a polynomial of degree m over the residues has at most m roots (`RootBound`).
Squaring is additive (`SquareIsScaled`), so that x^(2^i) modulo a prime c is a root of c whenever x
is (`PowerIsRoot`), and is back at x within deg c squarings (`ReturnsSoon`). Where it is back after
i of them, every one of the 2^deg(c) residues is a root of y^(2^i) - y, so that i is not below deg c
(`ReturnsLate`). Therefore c divides x^(2^i) - x with i = deg c and no sooner, which is what the test
looks for. For the count, x^(2^d) - x has no square factor (`NoSquares`: a square has even
exponents only), and for a prime d its prime factors are x, x + 1 and those of degree d
(`PrimesSplit`, `LinearPrimes`): their degrees add up to 2^d.

### rollstat

`Invariance`, `NoSharing`, `InOrder`, `Complete`, `ClosedAfterUse` and `ErrOnce` of
`RollStatProofs` prove `NoSharedBuffer`, `SourceInOrder`, `ResultIsComplete`,
`FileClosedAfterUse` and `ErrPublished`, for sources, blocks and batches of any size, from
`PrefetchAssumption` (two buffers) and `RollStatAssumption`. The invariant says where
each buffer is: no two of `free`, `forward`, the goroutine's hand and Read's have the same one
(`Owned`); that each block begins where the one before it ends (`Contiguous`); and that a
block Read has given back, which `cur` still names, has nothing left to hand out unless it is
on its way again (`Spent`). For the `BatchRoller` as a reader `BatchInv` is its own inductive
invariant, and the lemmas of `BatchProofs` are used through an instance.

### Only model-checked

* Liveness (`NextReturns`, `DrainAfterClose`, `StreamComes`, `Ends`, `CallsReturn`, `Returns`):
  fairness is stated with ENABLED, which the provers do not treat.

No safety property is only model-checked.

## 5. Not modelled

`String`, `Expand`, `Sum`, `Size` and other formatting; the random tables (arbitrary in the
models); how soon `DerivePolynomial` finds a polynomial (a matter of probability: the model
says what it returns for the words it draws); of `rollstat`, the flags, the timing, the
printing, the entropies that `cmdStat` computes in floating point, and `cmdAll`, which takes
the measurements one after the other, each with a source of its own; batches smaller than a
window and `max = 0`, which the documentation excludes or leaves without meaning; blocks of
2^31 bytes, whose positions do not fit `int32`; the rolls of an empty window, which index an
empty slice; an `io.ErrUnexpectedEOF` of a source itself, which `prefetchReader` takes for the
end and which no source of `rollstat` returns.

The composition of `ChunkerCore` with `TwoLanes` is by contract: `BatchHits` is what
`AllHitsInOrder` says of a scan, for every length and placement of hits. A module with both
would check the same two statements over the product of their states.

## 6. Plan

Done: the inventory, the two services with their abstract specifications, the digests with
their lanes, the derived polynomials, the cache, `rollstat`'s measurement as a composition,
the proofs of every safety property, and two theorems about the policy itself.

What is left, should the code grow that way:

1. A bound on how long two streams with min > 1 can go on without a common cut; there is none in
   general, and a hypothesis on the hits would have to be found first.
2. `ChunkerCore` with the scan of `TwoLanes` in place of its contract, if `BatchBoundaries` ever
   came to keep state between calls.
