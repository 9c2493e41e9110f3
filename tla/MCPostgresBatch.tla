-------------------------- MODULE MCPostgresBatch --------------------------
(* Instances of PostgresBatch for TLC. *)
EXTENDS PostgresBatch, TLC

Symmetry == Permutations(Callers) \cup Permutations(Batches) \cup Permutations(CustomIds)
            \cup Permutations(Readings) \cup Permutations(Results)
=============================================================================
