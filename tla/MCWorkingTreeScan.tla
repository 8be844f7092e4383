------------------------- MODULE MCWorkingTreeScan -------------------------
(* Instances of WorkingTreeScan for TLC. *)
EXTENDS WorkingTreeScan, TLC

CONSTANTS p, q, a, b, c, d

(* Two contents that differ in both halves, so that a torn read shows. *)
TwoContents == {<<a, b>>, <<c, d>>}

OneFile == {[data |-> <<a, b>>, time |-> 1, ver |-> 0], None}

Symmetry == Permutations(Paths)
=============================================================================
