-------------------------- MODULE MCCheckpointRepo --------------------------
(* Instances of CheckpointRepo for TLC. *)
EXTENDS CheckpointRepoRefinement, TLC

CONSTANTS a

(* One file set inside another: a project before and after it gets its     *)
(* first file, so that a creation can reuse what another one stored.       *)
NestedContents == {{}, {a}}

SingleContents == {{a}}

Symmetry == Permutations(Ckpts)
=============================================================================
