-------------------------- MODULE CheckpointHistory --------------------------
(***************************************************************************)
(* What a CheckPo repository promises its user: a history of checkpoints,  *)
(* created one after the other, of which some have been deleted; the       *)
(* current one is always the youngest that is left.  Creating and deleting *)
(* are atomic here, whatever crash interrupts them in CheckpointRepo,      *)
(* which is shown to implement this module.                                *)
(***************************************************************************)
CONSTANTS Ckpts,  \* identifiers of checkpoints, each created at most once
          None    \* "no checkpoint"

VARIABLES created,  \* the checkpoints ever created
          older,    \* their order: <<c, d>> when c was created before d
          live,     \* those that have not been deleted
          current   \* the checkpoint the next one will have as its parent

vars == <<created, older, live, current>>

Init == /\ created = {}
        /\ older = {}
        /\ live = {}
        /\ current = None

(* A new checkpoint becomes the current one. *)
Create(c) == /\ c \in Ckpts \ created
             /\ created' = created \cup {c}
             /\ older' = older \cup (created \X {c})
             /\ live' = live \cup {c}
             /\ current' = c

(* The youngest checkpoint of a set, or None if there is none. *)
Youngest(S) == IF S = {} THEN {None}
               ELSE {c \in S : \A d \in S \ {c} : <<d, c>> \in older}

Delete(c) == /\ c \in live
             /\ live' = live \ {c}
             /\ current' \in Youngest(live')
             /\ UNCHANGED <<created, older>>

Next == \E c \in Ckpts : Create(c) \/ Delete(c)

Spec == Init /\ [][Next]_vars
=============================================================================
