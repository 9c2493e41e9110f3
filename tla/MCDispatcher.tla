---------------------------- MODULE MCDispatcher ----------------------------
(* Instances of Dispatcher for TLC. *)
EXTENDS DispatcherMap, TLC

\* The readings and the callers are interchangeable, and so are the workers.
Symmetry == Permutations(Ids) \cup Permutations(Workers) \cup Permutations(Callers)
=============================================================================
