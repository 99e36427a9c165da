---------------------------- MODULE MCChunkCache ----------------------------
(* A small instance of ChunkCache and the properties checked on it.        *)
EXTENDS ChunkCache, TLC

FillSymmetry == Permutations(Fill)

=============================================================================
