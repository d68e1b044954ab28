------------------------------ MODULE RollStat ------------------------------
(***************************************************************************)
(* One measurement of rollstat (main.go): cmdStat, or cmdSpeed with one of *)
(* its interfaces, over the reader it opened.  The parts that interact:    *)
(* the source, which is prefetchReader with its goroutine over a file or a *)
(* generator, or cycleReader, which repeats a block of memory; and what    *)
(* reads it, which is the loop of rollSpeed, a BatchRoller, or a Chunker.  *)
(*                                                                         *)
(* cmdStat is the BatchRoller over the prefetchReader, counting checksums. *)
(* The Chunker is taken for its reader, who asks for any number of bytes   *)
(* until the end: what it makes of them is modelled in Chunker.            *)
(***************************************************************************)
EXTENDS PrefetchReader

CONSTANTS Window, BatchSize,   \* of the BatchRoller, and of rollSpeed's first Write
          DataSize,            \* the bytes that cycleReader repeats
          MaxRead              \* bound of the model: the most a Chunker asks for

ASSUME RollStatAssumption ==
    /\ Window \in Nat \ {0}
    /\ BatchSize \in Nat /\ BatchSize >= Window
    /\ DataSize \in Nat \ {0}
    /\ MaxRead \in Nat \ {0}

VARIABLES interface,   \* "roll", "batchroll" or "chunk"
          source,      \* "prefetch" or "cycle"
          main,        \* "warming", "running", "returned", "fatal"
          counted,     \* rolled, or total
          dataPos,     \* cycleReader's pos
          \* the BatchRoller's state
          fed, cells, len, carry, prevN, dataLen, sums, offset, eof, done, err,
          state, filled

Roller == INSTANCE BatchRoller WITH StreamLimit <- MaxSize

mainVars   == <<interface, source, main, counted>>
rollerVars == <<fed, cells, len, carry, prevN, dataLen, sums, offset, eof, done, err,
                state, filled>>
vars == <<prefetchVars, mainVars, dataPos, rollerVars>>

\* rollSpeed fills a window first; the others go straight on.
Init ==
    /\ PrefetchInit
    /\ Roller!Init
    /\ interface \in {"roll", "batchroll", "chunk"}
    /\ source \in {"prefetch", "cycle"}
    /\ source = "cycle" => ~fails
    /\ main = IF interface = "roll" THEN "warming" ELSE "running"
    /\ counted = 0
    /\ dataPos = 0

Over == main \in {"returned", "fatal"}

-----------------------------------------------------------------------------
(* What reads *)

\* The caller is inside a Read of the source.
Reading ==
    /\ ~Over
    /\ interface = "batchroll" => state = "reading"

\* The room it has: what the window, or the block, still lacks; the whole of
\* rollSpeed's buffer, which is as large as a block of the prefetchReader.
Room ==
    CASE interface = "batchroll" -> {BatchSize - filled}
      [] interface = "roll"      -> {IF main = "warming" THEN Window - got ELSE ChunkSize}
      [] interface = "chunk"     -> 1..MaxRead

\* Mutant: a window filled by several Reads is taken for complete at the first.
FillWindowOnce(n) ==
    /\ main = "warming"
    /\ main' = "running"
    /\ UNCHANGED <<interface, source, counted, rollerVars>>

\* io.ReadFull(r, buf[:window]), which calls Read until the window is full.
FillWindow(n) ==
    /\ main = "warming"
    /\ main' = IF got + n = Window THEN "running" ELSE "warming"
    /\ UNCHANGED <<interface, source, counted, rollerVars>>

\* Mutant: a Read that fills less than its buffer is taken for the last.
RollUntilShort(n) ==
    /\ interface = "roll" /\ main = "running"
    /\ counted' = counted + n
    /\ main' = IF n < ChunkSize THEN "returned" ELSE "running"
    /\ UNCHANGED <<interface, source, rollerVars>>

\* The loop of rollSpeed: every byte is rolled.
RollOn(n) ==
    /\ interface = "roll" /\ main = "running"
    /\ counted' = counted + n
    /\ UNCHANGED <<interface, source, main, rollerVars>>

\* fillCore of the BatchRoller, and the Chunker's.
FillBlock(n) ==
    /\ interface = "batchroll"
    /\ Roller!ReadSome(n) \/ Roller!ReadFull(n)
    /\ UNCHANGED mainVars

FillChunker == interface = "chunk" /\ UNCHANGED <<mainVars, rollerVars>>

Take(n) == FillWindow(n) \/ RollOn(n) \/ FillBlock(n) \/ FillChunker

\* Read returned no byte and `error'.  Before the window is full that is fatal.
Stop(error) ==
    \/ /\ interface = "batchroll"
       /\ IF error = "EOF" THEN Roller!ReadEOF(0) ELSE Roller!ReadError(0)
       /\ UNCHANGED mainVars
    \/ /\ interface # "batchroll"
       /\ main' = IF error = "EOF" /\ main = "running" THEN "returned" ELSE "fatal"
       /\ UNCHANGED <<interface, source, counted, rollerVars>>

\* for s.Next() { total += len(s.Sums()) }: the caller calls again after true.
Iterate ==
    /\ interface = "batchroll" /\ ~Over
    /\ \/ state \in {"ready", "emitted"} /\ Roller!CallNext
       \/ Roller!Loop
       \/ Roller!StartFill
    /\ counted' = IF state' = "emitted" THEN counted + Len(sums') ELSE counted
    /\ UNCHANGED <<interface, source, main, dataPos, prefetchVars>>

\* Next returned false: an error is fatal.
LeaveLoop ==
    /\ interface = "batchroll" /\ ~Over
    /\ state \in {"coreDone", "failed"}
    /\ main' = IF err THEN "fatal" ELSE "returned"
    /\ UNCHANGED <<interface, source, counted, dataPos, prefetchVars, rollerVars>>

-----------------------------------------------------------------------------
(* What is read *)

\* A Read of the prefetchReader.
ReadPrefetched ==
    /\ Reading /\ source = "prefetch"
    /\ \/ (CallRead \/ GiveBack \/ Receive) /\ UNCHANGED <<mainVars, rollerVars>>
       \/ \E p \in Room : CopyTo(p) /\ Take(Given(p))
       \/ ReceiveClosed /\ Stop(result')
    /\ UNCHANGED dataPos

\* Read of cycleReader, whose `remaining' is size - got: from the start of the data
\* again once it is used up, and no more bytes than remain.
CycleRead(p) ==
    LET start == IF dataPos >= DataSize THEN 0 ELSE dataPos
        room  == IF p < DataSize - start THEN p ELSE DataSize - start
        n     == IF room < size - got THEN room ELSE size - got
    IN  /\ got < size
        /\ dataPos' = start + n
        /\ got' = got + n
        /\ Take(n)
        /\ UNCHANGED <<cur, pos, reader, result>>

CycleEnd ==
    /\ got >= size
    /\ result' = "EOF"
    /\ Stop("EOF")
    /\ UNCHANGED <<cur, pos, reader, got, dataPos>>

ReadCycle ==
    /\ Reading /\ source = "cycle"
    /\ CycleEnd \/ \E p \in Room : CycleRead(p)
    /\ UNCHANGED <<sourceVars, goroutineVars, free, forward>>

-----------------------------------------------------------------------------
Main == Iterate \/ LeaveLoop \/ ReadPrefetched \/ ReadCycle

\* The goroutine, until log.Fatal ends the process.
Prefetch ==
    /\ source = "prefetch" /\ main # "fatal"
    /\ Goroutine
    /\ UNCHANGED <<mainVars, dataPos, rollerVars>>

Finished == Over /\ UNCHANGED vars

Next == Main \/ Prefetch \/ Finished

Spec == Init /\ [][Next]_vars

\* Both goroutines are scheduled.
FairSpec == Spec /\ WF_vars(Main) /\ WF_vars(Prefetch)
-----------------------------------------------------------------------------
\* The bytes are read in order, none skipped or repeated, and all of them before an end
\* is reported, from either source: prefetchReader hands them over between two
\* goroutines, cycleReader wraps round.
SourceInOrder ==
    /\ StopsAtTheEnd
    /\ source = "prefetch" => BytesInOrder
    /\ source = "cycle" =>
         /\ got <= size
         /\ got > 0 => dataPos = ((got - 1) % DataSize) + 1

\* What is printed at the end is about the whole source: every byte after the first
\* window was rolled, every window was counted, or every byte was chunked.  Nothing
\* is printed only if the source failed or rollSpeed had no window.
ResultIsComplete ==
    /\ main = "returned" =>
         /\ ~fails /\ got = size
         /\ interface = "roll" => counted = size - Window
         /\ interface = "batchroll" =>
              counted = IF size < Window THEN 0 ELSE size - Window + 1
    /\ main = "fatal" => fails \/ (interface = "roll" /\ size < Window)

\* cleanup closes the file (main.go, line 135) when the command returns: the
\* goroutine that reads it has exited by then, and is not left blocked either.
FileClosedAfterUse == main = "returned" /\ source = "prefetch" => goroutine = "exited"

\* The measurement ends: neither goroutine is left waiting for the other, and no
\* reader calls Read for ever, or again after its end.
Ends == <>Over
=============================================================================
