--------------------------- MODULE MCChunkStorage ---------------------------
(* ChunkStorage for TLC. *)
EXTENDS ChunkStorage, TLC

CallSymmetry == Permutations(Call)
=============================================================================
