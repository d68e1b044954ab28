----------------------------- MODULE MCChunker -----------------------------
(***************************************************************************)
(* Chunker and its memory on small streams, under the assumptions of the   *)
(* proofs.                                                                 *)
(***************************************************************************)
EXTENDS ChunkerBytes, ChunkerProofs
=============================================================================
