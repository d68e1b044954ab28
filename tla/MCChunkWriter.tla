--------------------------- MODULE MCChunkWriter ---------------------------
(***************************************************************************)
(* ChunkWriter on small streams, under the assumptions of its proofs.      *)
(***************************************************************************)
EXTENDS ChunkWriterProofs
=============================================================================
