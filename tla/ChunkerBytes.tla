---------------------------- MODULE ChunkerBytes ----------------------------
(***************************************************************************)
(* Chunker with the memory of its accumulator.  Bytes that Read puts into  *)
(* the tail are there from commitTail on.                                  *)
(***************************************************************************)
EXTENDS Chunker, ChunkBytes

BytesInit == Init /\ MemInit
BytesNext == Next /\ MemStep
BytesSpec == BytesInit /\ [][BytesNext]_<<vars, memVars>>

\* The fairness of Chunker: the memory never holds a step back.
FairBytesSpec ==
    BytesSpec /\ WF_vars(InCore) /\ WF_vars(StartFill) /\ WF_vars(Read) /\ WF_vars(CallNext)
=============================================================================
