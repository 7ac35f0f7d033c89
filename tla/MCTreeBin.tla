------------------------------ MODULE MCTreeBin ------------------------------
(* TreeBin on a few chunks, which are compared for equality only.          *)
EXTENDS TreeBin, TLC

Symmetry == Permutations(Chunk)

=============================================================================
