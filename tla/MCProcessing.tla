---------------------------- MODULE MCProcessing ----------------------------
(* Instances of Processing for TLC. *)
EXTENDS Processing, TLC

Symmetry == Permutations(Runs)
=============================================================================
