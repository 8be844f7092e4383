------------------------- MODULE MCCheckpointIndex -------------------------
(* Instances of CheckpointIndex for TLC. *)
EXTENDS CheckpointIndex, TLC

CONSTANTS c1, c2, c3, x, y

(* An object named twice by one checkpoint, and one shared by two. *)
Shared == (c1 :> (x :> 2 @@ y :> 0)) @@ (c2 :> (x :> 1 @@ y :> 1)) @@ (c3 :> (x :> 0 @@ y :> 1))
=============================================================================
