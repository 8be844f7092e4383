-------------------------- MODULE MCAnchoredParent --------------------------
(* Instances of AnchoredParent for TLC. *)
EXTENDS AnchoredParent, TLC

Symmetry == Permutations(Foreign)
=============================================================================
