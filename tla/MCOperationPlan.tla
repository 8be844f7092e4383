-------------------------- MODULE MCOperationPlan --------------------------
(* Instances of OperationPlan for TLC. *)
EXTENDS OperationPlan

CONSTANTS d, m, f, g, a, b, u

File(x, t) == [data |-> x, time |-> t]

(* Assets/d, its .meta, and two levels of folders below it. *)
Nested     == << <<d>>, <<m>>, <<d, f>>, <<d, f, g>> >>
NestedMeta == [p \in {<<d>>} |-> <<m>>]

Saved    == {File(a, 1)}
Present  == {File(a, 1), File(a, 2), File(b, 1)}
(* Something new, and the content of the checkpoint at another time.       *)
Unity    == {File(u, 1), File(a, 3)}
=============================================================================
