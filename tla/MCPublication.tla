---------------------------- MODULE MCPublication ----------------------------
(* Two releases of two files each, three operations. *)
EXTENDS Publication, TLC

Symmetry == Permutations(Job) \cup Permutations(Release) \cup Permutations(Path)
=============================================================================
