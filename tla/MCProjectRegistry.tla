-------------------------- MODULE MCProjectRegistry --------------------------
(* Instances of ProjectRegistry for TLC. *)
EXTENDS ProjectRegistry, TLC

Symmetry == Permutations(Procs) \cup Permutations(Folders) \cup Permutations(Ids)
=============================================================================
