---------------------- MODULE CheckpointRepoRefinement ----------------------
(***************************************************************************)
(* CheckpointRepo implements CheckpointHistory: whatever crashes, a        *)
(* creation happens at the publication of its root and a deletion at the   *)
(* write that marks its journal Staged, and the history is never in any    *)
(* other intermediate state.                                               *)
(***************************************************************************)
EXTENDS CheckpointRepo

(* A published checkpoint whose creation has not yet moved refs/latest.    *)
Arriving == {c \in roots : /\ cj[c] # None
                           /\ cj[c].state \in {"Prepared", "RootPublished",
                                               "InventoryUpdated"}}

(* A checkpoint whose deletion is decided but has not moved refs/latest.   *)
Leaving == {c \in Ckpts : /\ dj[c] # None
                          /\ dj[c].state \in {"Staged", "InventoryUpdated"}}

(* What the inventory says was created, and in which order. *)
Added(i) == i \in DOMAIN head /\ head[i].op = "Add"

Listed == {c \in Ckpts : \E i \in DOMAIN head : Added(i) /\ head[i].id = c}

ListedOrder ==
    {p \in Ckpts \X Ckpts :
        \E i, j \in DOMAIN head : /\ Added(i) /\ head[i].id = p[1]
                                  /\ Added(j) /\ head[j].id = p[2]
                                  /\ i < j}

(* An arriving checkpoint that is not listed yet is the youngest. *)
CreatedBar == Listed \cup Arriving

OlderBar == ListedOrder \cup (Listed \X (Arriving \ Listed))

LiveBar == roots \ Leaving

CurrentBar == IF Arriving # {} THEN CHOOSE c \in Arriving : TRUE
              ELSE IF Leaving # {} THEN dj[CHOOSE c \in Leaving : TRUE].newLatest
              ELSE latest

History == INSTANCE CheckpointHistory WITH created <- CreatedBar, older <- OlderBar,
                                           live <- LiveBar, current <- CurrentBar

(* Every behaviour of the repository is a behaviour of the history. *)
ImplementsHistory == History!Spec

-----------------------------------------------------------------------------
(* The inductive invariant of the refinement. *)

(* The current checkpoint is the youngest that is left. *)
CurrentIsYoungest == CurrentBar \in History!Youngest(LiveBar)

(* Of all the older checkpoints that are left, the youngest is the parent, *)
(* as long as it is left too.                                              *)
ParentIsYoungest ==
    \A c, d \in roots : <<d, c>> \in OlderBar =>
        d = snap[c].parent \/ <<d, snap[c].parent>> \in OlderBar

(* A deletion has chosen the youngest of those it leaves. *)
SuccessorIsYoungest ==
    \A c \in UnfinishedDeletions : dj[c].newLatest \in History!Youngest(roots \ {c})

(* What the inventory contains was added to it. *)
ListsWhatItAdded == InventorySet(head) \subseteq Listed

ParentIsOldLatest ==
    \A c \in UnfinishedCreations : snap[c].parent = cj[c].oldLatest

HistoryInv ==
    /\ CurrentIsYoungest
    /\ ParentIsYoungest
    /\ SuccessorIsYoungest
    /\ ListsWhatItAdded
    /\ ParentIsOldLatest
=============================================================================
