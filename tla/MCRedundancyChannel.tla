-------------------------- MODULE MCRedundancyChannel --------------------------
EXTENDS RedundancyChannel, TLC

(* No chunk is different from another. *)
ChunkSymmetry == Permutations(Chunks)
=============================================================================
