-------------------------- MODULE CheckpointIndex --------------------------
(***************************************************************************)
(* The SQLite index of the checkpoints and their display names: what       *)
(* creation, deletion and recovery do after the inventory has changed.     *)
(*                                                                         *)
(* The index is a cache.  It carries the id of the inventory state it was  *)
(* made from, and is used only while that id is the current one.  It is    *)
(* brought up to date row by row after each change, in two SQLite          *)
(* transactions, either of which may fail or be cut off by a crash; the    *)
(* change itself stands all the same.                                      *)
(*                                                                         *)
(* Each inventory transition, and each move of refs/latest, is one step    *)
(* together with the journal state that follows it: CheckpointRepo shows   *)
(* that repeating either is harmless.  All of these run under the          *)
(* exclusive lock, and the readers of the index under the shared one.      *)
(***************************************************************************)
EXTENDS Integers, FiniteSets

CONSTANTS
    Ckpts,              \* checkpoint ids
    Objects,            \* object ids
    Occurrences,        \* how often each checkpoint names each object
    None,
    Missing, Unreadable,  \* an index file that is not there, or cannot be opened
    RecoveryMayNotFinalize  \* whether the last journal write of a deletion may fail in
                            \* a recovery too

ASSUME IndexAssumption ==
    /\ IsFiniteSet(Ckpts) /\ IsFiniteSet(Objects)
    /\ Occurrences \in [Ckpts -> [Objects -> Nat]]
    /\ None \notin Ckpts
    /\ Missing # Unreadable
    /\ RecoveryMayNotFinalize \in BOOLEAN

VARIABLES
    (* the repository *)
    inventory,    \* the checkpoints
    born,         \* every checkpoint there ever was, with its number
    parent,       \* the latest checkpoint when each one was made
    head,         \* id of the inventory state: no id is used twice
    latest,       \* refs/latest
    cj,           \* the create journal
    dj,           \* the delete journals
    renamed,      \* checkpoints with an entry in checkpoint_names.json
    readable,     \* whether that file can be read
    (* the index *)
    db,           \* Missing, Unreadable, or its rows, counts and head
    (* the operation under way *)
    op, pc, cur,
    todo,         \* journals the recovery has still to resolve
    recovered,    \* whether it resolved any
    conn,         \* whether creation opened the index before it published
    (* for the properties *)
    impaired,     \* an index write failed, the file was damaged, or a recovery
                  \* was cut short
    unnamed       \* the removal of a name failed, and no pruning succeeded since

repository == <<inventory, born, parent, head, latest>>
journals == <<cj, dj>>
names == <<renamed, readable, unnamed>>
index == <<db, impaired>>
control == <<op, pc, cur, todo, recovered, conn>>
vars == <<repository, journals, names, index, control>>

-----------------------------------------------------------------------------
(* Types. *)

Database == [rows : SUBSET Ckpts, refs : [Objects -> Nat], head : Nat]

CreateState == {"Prepared", "RootPublished", "InventoryUpdated", "LatestUpdated"}
DeleteState == {"Staged", "InventoryUpdated"}

Steps == {"idle", "recoverCreate", "recoverDelete", "afterRecovery",
          "build", "prune", "publishIndex", "start",
          "openIndex", "publishRoot", "addInventory", "writeLatest", "indexRows", "indexHead",
          "commitCreate", "removeInventory", "moveLatest", "unindexRows", "unindexHead",
          "dropName", "commitDelete"}

CreateJournal == [id : Ckpts, state : CreateState]
DeleteJournal == [state : DeleteState, update_index : BOOLEAN, new_latest : Ckpts \cup {None}]

ASSUME NoneAssumption ==
    /\ None \notin CreateJournal /\ None \notin DeleteJournal
    /\ Missing \notin Database /\ Unreadable \notin Database

TypeOK ==
    /\ inventory \subseteq Ckpts /\ head \in Nat
    /\ born \in [Ckpts -> Nat]
    /\ parent \in [Ckpts -> Ckpts \cup {None}]
    /\ latest \in Ckpts \cup {None}
    /\ cj \in CreateJournal \cup {None}
    /\ dj \in [Ckpts -> DeleteJournal \cup {None}]
    /\ renamed \subseteq Ckpts /\ readable \in BOOLEAN /\ unnamed \in BOOLEAN
    /\ db \in Database \cup {Missing, Unreadable}
    /\ op \in {"none", "create", "delete", "rename", "rebuild"}
    /\ pc \in Steps /\ cur \in Ckpts \cup {None}
    /\ todo \subseteq Ckpts /\ recovered \in BOOLEAN /\ conn \in BOOLEAN
    /\ impaired \in BOOLEAN

-----------------------------------------------------------------------------
(* The index file. *)

(* How often the checkpoints of a set name each object, all in all. *)
RefsOf(S) ==
    [o \in Objects |-> Cardinality(UNION {{c} \X (1..Occurrences[c][o]) : c \in S})]

Rebuilt == [rows |-> inventory, refs |-> RefsOf(inventory), head |-> head]

(* checkpoint_index_status_unlocked *)
Status ==
    CASE db = Missing    -> "Missing"
      [] db = Unreadable -> "Corrupt"
      [] OTHER             -> IF db.head = head THEN "Current" ELSE "Stale"

(* Something damages or removes the index file, or the names file, or      *)
(* repairs the latter.                                                     *)
DamageIndex ==
    /\ pc = "idle"
    /\ db' \in {Missing, Unreadable} /\ impaired' = TRUE
    /\ UNCHANGED <<repository, journals, names, control>>

DamageNames ==
    /\ readable' = ~readable
    /\ UNCHANGED <<repository, journals, index, control, renamed, unnamed>>

Init ==
    /\ inventory = {} /\ born = [c \in Ckpts |-> 0] /\ parent = [c \in Ckpts |-> None]
    /\ head = 0 /\ latest = None
    /\ cj = None /\ dj = [c \in Ckpts |-> None]
    /\ renamed = {} /\ readable = TRUE /\ unnamed = FALSE
    (* finalize_project_initialization builds the index, or only warns.    *)
    /\ \/ db = Rebuilt /\ impaired = FALSE
       \/ db = Missing /\ impaired = TRUE
    /\ op = "none" /\ pc = "idle" /\ cur = None
    /\ todo = {} /\ recovered = FALSE /\ conn = FALSE

-----------------------------------------------------------------------------
(* Control. *)

Goto(step) == pc' = step /\ UNCHANGED <<op, cur, todo, recovered, conn>>

Finish ==
    /\ op' = "none" /\ pc' = "idle" /\ cur' = None
    /\ todo' = {} /\ recovered' = FALSE /\ conn' = FALSE

(* acquire_project_repository_lock *)
Acquire(o) ==
    /\ pc = "idle"
    /\ op' = o /\ cur' = None /\ pc' = "recoverCreate"
    /\ todo' = {d \in Ckpts : dj[d] # None}
    /\ recovered' = FALSE /\ conn' = FALSE
    /\ UNCHANGED <<repository, journals, names, index>>

(* The process ends, or gives up: what it wrote stays. *)
Crash ==
    /\ pc # "idle"
    /\ Finish
    /\ impaired' = (impaired \/ recovered)
    /\ UNCHANGED <<repository, journals, names, db>>

Resolving(c) == c \in todo

-----------------------------------------------------------------------------
(* Recovery. *)

(* recover_checkpoint_creations_unlocked: an unpublished creation is       *)
(* dropped, any other completed.  It leaves the index alone.               *)
RecoverCreation ==
    /\ pc = "recoverCreate"
    /\ IF cj = None
       THEN /\ Goto("recoverDelete")
            /\ UNCHANGED <<repository, cj>>
       ELSE /\ pc' = "recoverDelete" /\ recovered' = TRUE
            /\ UNCHANGED <<op, cur, todo, conn>>
            /\ cj' = None
            /\ IF cj.state = "Prepared"
               THEN UNCHANGED repository
               ELSE /\ IF cj.state = "RootPublished"
                       THEN inventory' = inventory \cup {cj.id} /\ head' = head + 1
                       ELSE UNCHANGED <<inventory, head>>
                    /\ latest' = IF cj.state # "LatestUpdated" /\ latest = parent[cj.id]
                                 THEN cj.id ELSE latest
                    /\ UNCHANGED <<born, parent>>
    /\ UNCHANGED <<dj, names, index>>

(* The fault: a deletion past its inventory transition is taken for done. *)
RecoverDeletionToCommit ==
    /\ pc = "recoverDelete"
    /\ IF todo = {}
       THEN Goto("afterRecovery")
       ELSE \E c \in todo :
              /\ pc' = IF dj[c].state = "Staged" THEN "removeInventory" ELSE "commitDelete"
              /\ cur' = c /\ recovered' = TRUE
              /\ UNCHANGED <<op, todo, conn>>
    /\ UNCHANGED <<repository, journals, names, index>>

(* recover_checkpoint_deletions_unlocked takes them one after the other,   *)
(* each through the steps of a deletion from where its journal stands.     *)
RecoverDeletion ==
    /\ pc = "recoverDelete"
    /\ IF todo = {}
       THEN Goto("afterRecovery")
       ELSE \E c \in todo :
              /\ pc' = IF dj[c].state = "Staged" THEN "removeInventory" ELSE "moveLatest"
              /\ cur' = c /\ recovered' = TRUE
              /\ UNCHANGED <<op, todo, conn>>
    /\ UNCHANGED <<repository, journals, names, index>>

Granted == pc' = "start" /\ recovered' = FALSE /\ UNCHANGED <<op, cur, todo, conn>>

(* The fault: the index is left as the recovery found it. *)
AfterRecoveryNoRebuild ==
    /\ pc = "afterRecovery"
    /\ Granted
    /\ UNCHANGED <<repository, journals, names, index>>

(* If anything was recovered, an index that is not current is rebuilt. *)
AfterRecovery ==
    /\ pc = "afterRecovery"
    /\ IF recovered /\ Status # "Current" THEN Goto("build") ELSE Granted
    /\ UNCHANGED <<repository, journals, names, index>>

-----------------------------------------------------------------------------
(* The rebuild: from the validated inventory into a temporary file, then   *)
(* over the old index.  During a recovery, and in the middle of a          *)
(* creation, its failure is only warned of.                                *)

EndRebuild ==
    CASE cj # None -> Goto("commitCreate")
      [] recovered -> Granted
      [] OTHER     -> Finish

build_snapshot_index ==
    /\ pc = "build"
    /\ \/ Goto("prune") /\ UNCHANGED index
       \/ EndRebuild /\ impaired' = TRUE /\ UNCHANGED db
    /\ UNCHANGED <<repository, journals, names>>

(* A names file that cannot be read or written is only warned of. *)
prune_checkpoint_name_overrides ==
    /\ pc = "prune"
    /\ \/ readable /\ renamed' = renamed \cap inventory /\ unnamed' = FALSE
       \/ UNCHANGED <<renamed, unnamed>>
    /\ Goto("publishIndex")
    /\ UNCHANGED <<repository, journals, readable, index>>

publish_snapshot_index ==
    /\ pc = "publishIndex"
    /\ \/ db' = Rebuilt /\ impaired' = FALSE
       \/ UNCHANGED db /\ impaired' = TRUE
    /\ EndRebuild
    /\ UNCHANGED <<repository, journals, names>>

-----------------------------------------------------------------------------
(* The operation itself begins. *)

Newest(S) == CHOOSE c \in S : \A d \in S : born[d] <= born[c]

NewLatest(c) ==
    LET remaining == inventory \ {c}
    IN  CASE latest # c              -> latest
          [] remaining = {}          -> None
          [] parent[c] \in remaining -> parent[c]
          [] OTHER                   -> Newest(remaining)

StartRebuild ==
    /\ pc = "start" /\ op = "rebuild"
    /\ Goto("build")
    /\ UNCHANGED <<repository, journals, names, index>>

(* rename_checkpoint to another name, or back to the name it was made with *)
rename_checkpoint(c) ==
    /\ pc = "start" /\ op = "rename"
    /\ IF c \in inventory /\ readable
       THEN renamed' \in {renamed \cup {c}, renamed \ {c}}
       ELSE UNCHANGED renamed
    /\ Finish
    /\ UNCHANGED <<repository, journals, readable, unnamed, index>>

(* A creation opens the index before the checkpoint is visible: afterwards *)
(* the index counts as stale.                                              *)
open_index_connection(c) ==
    /\ pc = "start" /\ op = "create"
    /\ born[c] = 0
    /\ cur' = c
    /\ conn' \in {Status = "Current", FALSE}
    /\ impaired' = (impaired \/ (Status = "Current" /\ ~conn'))
    /\ pc' = "publishRoot"
    /\ born' = [born EXCEPT ![c] = Cardinality({d \in Ckpts : born[d] # 0}) + 1]
    /\ parent' = [parent EXCEPT ![c] = latest]
    /\ cj' = [id |-> c, state |-> "Prepared"]
    /\ UNCHANGED <<inventory, head, latest, dj, names, db, op, todo, recovered>>

PublishRoot ==
    /\ pc = "publishRoot"
    /\ cj' = [cj EXCEPT !.state = "RootPublished"]
    /\ Goto("addInventory")
    /\ UNCHANGED <<repository, dj, names, index>>

AddInventory ==
    /\ pc = "addInventory"
    /\ inventory' = inventory \cup {cur} /\ head' = head + 1
    /\ cj' = [cj EXCEPT !.state = "InventoryUpdated"]
    /\ Goto("writeLatest")
    /\ UNCHANGED <<born, parent, latest, dj, names, index>>

(* Then the index is brought up to date.  When it could not be opened it   *)
(* is rebuilt if this is the first checkpoint, and otherwise left alone.   *)
WriteLatest ==
    /\ pc = "writeLatest"
    /\ latest' = cur
    /\ cj' = [cj EXCEPT !.state = "LatestUpdated"]
    /\ Goto(CASE conn                       -> "indexRows"
              [] Cardinality(inventory) = 1 -> "build"
              [] OTHER                      -> "commitCreate")
    /\ UNCHANGED <<inventory, born, parent, head, dj, names, index>>

-----------------------------------------------------------------------------
(* Index updates: the rows in one transaction, the head in another.  A     *)
(* failure of either leaves the rest undone, and is only warned of.        *)

IndexFails(step) ==
    /\ impaired' = TRUE /\ UNCHANGED db
    /\ Goto(step)

index_snapshot_with_connection ==
    /\ pc = "indexRows"
    /\ \/ /\ db' = IF cur \in db.rows THEN db
                   ELSE [db EXCEPT !.rows = @ \cup {cur},
                                   !.refs = [o \in Objects |-> @[o] + Occurrences[cur][o]]]
          /\ UNCHANGED impaired
          /\ Goto("indexHead")
       \/ IndexFails("commitCreate")
    /\ UNCHANGED <<repository, journals, names>>

HeadWritten == db' = [db EXCEPT !.head = head] /\ UNCHANGED impaired

write_snapshot_inventory_head ==
    /\ pc \in {"indexHead", "unindexHead"}
    /\ LET then == IF pc = "indexHead" THEN "commitCreate" ELSE "dropName"
       IN \/ HeadWritten /\ Goto(then)
          \/ IndexFails(then)
    /\ UNCHANGED <<repository, journals, names>>

(* CreateJournalHandle::commit; when the last write fails the journal is   *)
(* met again by the next recovery.                                         *)
CommitCreate ==
    /\ pc = "commitCreate"
    /\ cj' \in {None, cj}
    /\ Finish
    /\ UNCHANGED <<repository, dj, names, index>>

-----------------------------------------------------------------------------
(* Deletion. *)

(* Whether the index will be updated is settled here, and is kept in the   *)
(* journal.                                                                *)
UpdateIndexAlways == TRUE     \* the fault: a stale index is updated too
UpdateIndex == Status = "Current"

delete_checkpoint(c) ==
    /\ pc = "start" /\ op = "delete"
    /\ IF c \in inventory /\ readable
       THEN /\ dj' = [dj EXCEPT ![c] = [state        |-> "Staged",
                                        update_index |-> UpdateIndex,
                                        new_latest   |-> NewLatest(c)]]
            /\ pc' = "removeInventory" /\ cur' = c
            /\ UNCHANGED <<op, todo, recovered, conn>>
       ELSE UNCHANGED dj /\ Finish
    /\ UNCHANGED <<repository, cj, names, index>>

RemoveInventory ==
    /\ pc = "removeInventory"
    /\ inventory' = inventory \ {cur} /\ head' = head + 1
    /\ dj' = [dj EXCEPT ![cur].state = "InventoryUpdated"]
    /\ Goto("moveLatest")
    /\ UNCHANGED <<born, parent, latest, cj, names, index>>

update_latest_for_checkpoint_deletion ==
    /\ pc = "moveLatest"
    /\ latest' = dj[cur].new_latest
    /\ Goto(IF dj[cur].update_index THEN "unindexRows" ELSE "dropName")
    /\ UNCHANGED <<inventory, born, parent, head, journals, names, index>>

(* The counts are lowered first; when the row turns out to be missing, or  *)
(* a count too small, the transaction is rolled back.                      *)
(* The fault: neither the row nor the counts are looked at. *)
CanUnindexAnyway(c) == db \notin {Missing, Unreadable}

CanUnindex(c) ==
    /\ db \notin {Missing, Unreadable}
    /\ c \in db.rows
    /\ \A o \in Objects : db.refs[o] >= Occurrences[c][o]

delete_snapshot_from_index ==
    /\ pc = "unindexRows"
    /\ \/ /\ CanUnindex(cur)
          /\ db' = [db EXCEPT !.rows = @ \ {cur},
                              !.refs = [o \in Objects |-> @[o] - Occurrences[cur][o]]]
          /\ UNCHANGED impaired
          /\ Goto("unindexHead")
       \/ IF CanUnindex(cur) THEN IndexFails("dropName")
          ELSE Goto("dropName") /\ UNCHANGED index
    /\ UNCHANGED <<repository, journals, names>>

(* So it is here, and the deletion goes on to its end. *)
remove_checkpoint_name_override ==
    /\ pc = "dropName"
    /\ \/ readable /\ renamed' = renamed \ {cur} /\ UNCHANGED unnamed
       \/ UNCHANGED renamed /\ unnamed' = TRUE
    /\ Goto("commitDelete")
    /\ UNCHANGED <<repository, journals, readable, index>>

(* The last write of the journal.  When it fails the deletion is reported  *)
(* as done, and recovery will meet the journal again.                      *)
CommitDelete ==
    /\ pc = "commitDelete"
    /\ \/ dj' = [dj EXCEPT ![cur] = None]
       \/ UNCHANGED dj /\ (Resolving(cur) => RecoveryMayNotFinalize)
    /\ IF Resolving(cur)
       THEN /\ pc' = "recoverDelete" /\ todo' = todo \ {cur}
            /\ UNCHANGED <<op, cur, recovered, conn>>
       ELSE Finish
    /\ UNCHANGED <<repository, cj, names, index>>

Next ==
    \/ DamageIndex
    \/ DamageNames
    \/ \E o \in {"create", "delete", "rename", "rebuild"} : Acquire(o)
    \/ Crash
    \/ RecoverCreation \/ RecoverDeletion \/ AfterRecovery
    \/ build_snapshot_index \/ prune_checkpoint_name_overrides \/ publish_snapshot_index
    \/ StartRebuild
    \/ \E c \in Ckpts : \/ rename_checkpoint(c)
                        \/ open_index_connection(c)
                        \/ delete_checkpoint(c)
    \/ PublishRoot \/ AddInventory \/ WriteLatest
    \/ index_snapshot_with_connection \/ write_snapshot_inventory_head \/ CommitCreate
    \/ RemoveInventory \/ update_latest_for_checkpoint_deletion
    \/ delete_snapshot_from_index \/ remove_checkpoint_name_override \/ CommitDelete

Spec == Init /\ [][Next]_vars

-----------------------------------------------------------------------------
(* Properties. *)

AtRest == pc = "idle" /\ cj = None /\ \A c \in Ckpts : dj[c] = None

(* An index that reports itself as current (checkpoint_index_status) lists *)
(* exactly the checkpoints there are and counts each object exactly as     *)
(* often as they name it: at every moment, after a crash between the two   *)
(* transactions of an update, and after a recovery that repeats one.       *)
CurrentIndexIsExact ==
    Status = "Current" => db.rows = inventory /\ db.refs = RefsOf(inventory)

(* With every journal resolved the index is current, unless an index write *)
(* failed, the file was damaged, or a recovery was cut short, since it was *)
(* last rebuilt.  A crash alone never leaves a stale index behind.         *)
CrashLeavesIndexCurrent == AtRest /\ ~impaired => Status = "Current"

(* A display name outlives its checkpoint only if the file could not be    *)
(* read or written when finish_checkpoint_deletion wanted to remove it,    *)
(* and no rebuild of the index could prune it since: a crash on either     *)
(* side of the removal leaves none behind.                                 *)
NamesAreOfCheckpoints == AtRest /\ ~unnamed => renamed \subseteq inventory

=============================================================================
