------------------------ MODULE MCRestoreTransaction ------------------------
(* Instances of RestoreTransaction for TLC. *)
EXTENDS RestoreTransaction, TLC

CONSTANTS p, q, a, b, c, u

At1(d) == [data |-> d, time |-> 1]

Unsaved == (p :> At1(a)) @@ (q :> At1(b))
First   == (p :> At1(c)) @@ (q :> None)
Second  == (p :> None) @@ (q :> [data |-> b, time |-> 2])

(* From Unsaved, First replaces one file and deletes the other, Second     *)
(* deletes one and sets the time of the other; between First and Second    *)
(* one file is deleted and one restored.                                   *)
BothCheckpoints == {First, Second}
OneTree         == {Unsaved}
EveryTree       == {Unsaved, First, Second}

(* Deleting, writing something new, and touching a file. *)
EditedFiles == {None, At1(u), [data |-> b, time |-> 3]}

(* Deleting and writing something new. *)
SavedFiles == {None, At1(u)}
=============================================================================
