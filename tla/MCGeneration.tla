---------------------------- MODULE MCGeneration ----------------------------
(* Instances of Generation for TLC: model values and their symmetry.       *)
EXTENDS Generation, TLC

Symmetry == Permutations(RunIds) \cup Permutations(Clients)
=============================================================================
