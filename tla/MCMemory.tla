------------------------------- MODULE MCMemory -------------------------------
(* Memory with threads and blocks that TLC may exchange. *)
EXTENDS Memory, TLC

Symmetry == Permutations(Thread) \cup Permutations(Block)

=============================================================================
