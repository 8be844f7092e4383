--------------------------- MODULE CheckpointRepo ---------------------------
(***************************************************************************)
(* The on-disk repository of CheckPo: content-addressed objects and        *)
(* manifest chunks, published snapshot roots, the snapshot inventory,      *)
(* refs/latest, and the two journals (checkpoint-create, checkpoint-delete)*)
(* that make a creation or a deletion atomic across crashes.               *)
(*                                                                         *)
(* One operation at a time holds the repository's exclusive lock, so the   *)
(* control of that operation is one program counter.  Every durable write  *)
(* is a step of its own, and the operation can end after any of them       *)
(* (Release: an error, a cancellation, a killed process) or lose what was  *)
(* not yet synchronised (PowerLoss).  The next operation to take the lock  *)
(* first replays what the journals say.                                    *)
(***************************************************************************)
EXTENDS Integers, Sequences, FiniteSets

CONSTANTS
    Ckpts,          \* snapshot ids; an id is the hash of its root and is used once
    Objects,        \* ids of file contents
    Contents,       \* the file sets a scan can find; each is one manifest chunk
    None,           \* "no checkpoint", "no journal", "no plan"
    CleanupMayFail, \* whether removing a finished journal can fail
    RecoveryMayNotFinalize  \* whether the last journal write of a deletion may fail in
                            \* a recovery too

ASSUME RepoAssumption ==
    /\ Contents \subseteq SUBSET Objects
    /\ CleanupMayFail \in BOOLEAN /\ RecoveryMayNotFinalize \in BOOLEAN

VARIABLES
    (* durable state *)
    roots,    \* ids with a published snapshot root
    snap,     \* the bytes an id stands for: its files and its parent
    objs,     \* loose objects: absent, volatile (entry not synced) or durable
    chunks,   \* manifest chunks, likewise
    head,     \* the inventory: the lineage of states that ends in the head
    latest,   \* refs/latest
    cj,       \* checkpoint-create journals, by checkpoint
    dj,       \* checkpoint-delete journals, by checkpoint
    restore,  \* target of a restore or discard transaction that is not terminal
    (* the operation that holds the exclusive lock *)
    pc,       \* its next step; "idle": the lock is free
    mode,     \* "recover" while replaying journals, "run" in its own work
    todo,     \* journals recovery still has to look at
    cur,      \* checkpoint whose journal is being driven
    files,    \* what the scan found
    base,     \* refs/latest as read when the creation began
    batch,    \* objects whose directory entries wait for the barrier
    mbatch,   \* manifest chunks that wait for the barrier
    (* outside the lock *)
    gcPlan    \* the last storage GC preview

disk    == <<roots, snap, objs, chunks, head, latest, cj, dj, restore>>
control == <<pc, mode, todo, cur>>
scan    == <<files, base, batch, mbatch>>
vars    == <<disk, control, scan, gcPlan>>

-----------------------------------------------------------------------------
(* Types. *)

Disk == {"absent", "volatile", "durable"}

CreateJournalState ==
    {"Prepared", "RootPublished", "InventoryUpdated", "LatestUpdated", "Committed"}

CheckpointDeletionState == {"Prepared", "Staged", "InventoryUpdated", "Committed"}

InventoryOperation == {"Initialize", "Add", "Remove"}

InventoryState ==
    [op : InventoryOperation, id : Ckpts \cup {None}, set : SUBSET Ckpts]

(* A head is identified with the lineage it hashes; there is always one. *)
Lineage == Seq(InventoryState) \ {<< >>}

CreateJournal ==
    [state : CreateJournalState, oldLatest : Ckpts \cup {None},
     headBefore : Lineage]

CheckpointDeletionJournal ==
    [state : CheckpointDeletionState, staged : BOOLEAN,
     newLatest : Ckpts \cup {None}, headBefore : Lineage]

Snapshot == [files : Contents, parent : Ckpts \cup {None}]

GcPlan == [head : Lineage, objs : SUBSET Objects,
           chunks : SUBSET Contents]

(* None is told apart from everything that can be there instead of it. *)
ASSUME NoneAssumption ==
    /\ None \notin Ckpts
    /\ None \notin Snapshot
    /\ None \notin CreateJournal
    /\ None \notin CheckpointDeletionJournal
    /\ None \notin GcPlan

(* A creation before its journal exists, and after. *)
ScanSteps == {"preload", "store", "flushObjects", "flushManifest", "prepare"}

CreateSteps ==
    {"publish", "markRoot", "addInventory", "markAdded", "writeLatest",
     "markLatest", "commitCreate", "cleanupCreate"}

DeleteSteps ==
    {"stageRoot", "markStaged", "unlinkRoot", "removeInventory", "markRemoved",
     "moveLatest", "commitDelete", "cleanupDelete"}

Steps == {"idle", "recoverCreations", "recoverDeletions", "locked", "gc",
          "restoring"} \cup ScanSteps \cup CreateSteps \cup DeleteSteps

TypeOK ==
    /\ roots \subseteq Ckpts
    /\ snap \in [Ckpts -> Snapshot \cup {None}]
    /\ objs \in [Objects -> Disk]
    /\ chunks \in [Contents -> Disk]
    /\ head \in Lineage
    /\ latest \in Ckpts \cup {None}
    /\ cj \in [Ckpts -> CreateJournal \cup {None}]
    /\ dj \in [Ckpts -> CheckpointDeletionJournal \cup {None}]
    /\ restore \in Ckpts \cup {None}
    /\ pc \in Steps
    /\ mode \in {"run", "recover"}
    /\ todo \subseteq Ckpts
    /\ cur \in Ckpts \cup {None}
    /\ files \in SUBSET Objects
    /\ base \in Ckpts \cup {None}
    /\ batch \subseteq Objects
    /\ mbatch \subseteq Contents
    /\ gcPlan \in GcPlan \cup {None}

Init ==
    /\ roots = {}
    /\ snap = [c \in Ckpts |-> None]
    /\ objs = [o \in Objects |-> "absent"]
    /\ chunks = [k \in Contents |-> "absent"]
    /\ head = <<[op |-> "Initialize", id |-> None, set |-> {}]>>
    /\ latest = None
    /\ cj = [c \in Ckpts |-> None]
    /\ dj = [c \in Ckpts |-> None]
    /\ restore = None
    /\ pc = "idle" /\ mode = "run" /\ todo = {} /\ cur = None
    /\ files = {} /\ base = None /\ batch = {} /\ mbatch = {}
    /\ gcPlan = None

-----------------------------------------------------------------------------
(* Helpers. *)

(* The set an inventory lineage stands for: the set of its last state. *)
InventorySet(h) == h[Len(h)].set

(* mutate_set accepts an Add of an unknown id and a Remove of a known one. *)
MutationAllowed(h, op, c) ==
    IF op = "Add" THEN c \notin InventorySet(h) ELSE c \in InventorySet(h)

(* The state transition_inventory would store on top of lineage h. *)
Extended(h, op, c) ==
    Append(h, [op  |-> op,
               id  |-> c,
               set |-> IF op = "Add" THEN InventorySet(h) \cup {c}
                                     ELSE InventorySet(h) \ {c}])

(* The compare-and-swap of transition_inventory: it succeeds when the head *)
(* is still the expected one, and as a replay when the head already is     *)
(* the state it would have written.                                        *)
TransitionAllowedOnce(expected, op, c) ==
    MutationAllowed(expected, op, c) /\ head = expected

TransitionAllowed(expected, op, c) ==
    /\ MutationAllowed(expected, op, c)
    /\ head \in {expected, Extended(expected, op, c)}

(* A snapshot can be loaded when its root and its manifest are readable. *)
Loadable(c) == c \in roots /\ chunks[snap[c].files] # "absent"

FilesOf(c) == IF c = None THEN {} ELSE snap[c].files

ReferencedObjects == UNION {snap[c].files : c \in roots}
ReferencedChunks  == {snap[c].files : c \in roots}

(* project_snapshot_removal: where refs/latest goes when c is deleted.  The *)
(* parent of c is preferred; the walk back through the lineage finds the   *)
(* youngest checkpoint left, or nothing, and then the deletion fails.      *)
NewestSurvivor(S) ==
    LET adds == {i \in DOMAIN head : head[i].op = "Add" /\ head[i].id \in S}
    IN  {head[i].id : i \in {k \in adds : \A j \in adds : j <= k}}

ProjectSnapshotRemovalParentFirst(c) ==
    LET remaining == InventorySet(head) \ {c}
    IN  IF latest # c THEN {latest}
        ELSE IF remaining = {} THEN {None}
        ELSE IF snap[c].parent # None THEN {snap[c].parent}
        ELSE NewestSurvivor(remaining)

ProjectSnapshotRemoval(c) ==
    LET remaining == InventorySet(head) \ {c}
    IN  IF latest # c THEN {latest}
        ELSE IF remaining = {} THEN {None}
        ELSE IF snap[c].parent \in remaining THEN {snap[c].parent}
        ELSE NewestSurvivor(remaining)

(* Giving up the lock forgets the operation, not what it has written. *)
Forget ==
    /\ pc' = "idle" /\ mode' = "run" /\ todo' = {} /\ cur' = None
    /\ files' = {} /\ base' = None /\ batch' = {} /\ mbatch' = {}

Goto(step) == pc' = step /\ UNCHANGED <<mode, todo, cur>>

-----------------------------------------------------------------------------
(* Taking the exclusive lock, and the recovery it begins with. *)

Lock ==
    /\ pc = "idle"
    /\ pc' = "recoverCreations"
    /\ mode' = "recover"
    /\ todo' = {c \in Ckpts : cj[c] # None}
    /\ UNCHANGED <<disk, cur, scan, gcPlan>>

(* recover_one, checkpoint-create: nothing was published, so the intent is *)
(* dropped.                                                                *)
CreationAborts(c) == cj[c].state = "Prepared" /\ c \notin roots

(* ... and the cases in which it refuses to go on. *)
CreationRejected(c) == ~CreationAborts(c) /\ ~Loadable(c)

AbortCreation(c) ==
    /\ pc = "recoverCreations"
    /\ c \in todo
    /\ CreationAborts(c)
    /\ cj' = [cj EXCEPT ![c] = None]
    /\ todo' = todo \ {c}
    /\ UNCHANGED <<roots, snap, objs, chunks, head, latest, dj, restore,
                   pc, mode, cur, scan, gcPlan>>

ResumeCreation(c) ==
    /\ pc = "recoverCreations"
    /\ c \in todo
    /\ ~CreationAborts(c) /\ ~CreationRejected(c)
    /\ cur' = c
    /\ pc' = CASE cj[c].state \in {"Prepared", "RootPublished"} -> "addInventory"
               [] cj[c].state = "InventoryUpdated" -> "writeLatest"
               [] cj[c].state = "LatestUpdated" -> "commitCreate"
               [] cj[c].state = "Committed" -> "cleanupCreate"
    /\ UNCHANGED <<disk, mode, todo, scan, gcPlan>>

CreationsRecovered ==
    /\ pc = "recoverCreations"
    /\ todo = {}
    /\ pc' = "recoverDeletions"
    /\ todo' = {c \in Ckpts : dj[c] # None}
    /\ UNCHANGED <<disk, mode, cur, scan, gcPlan>>

(* recover_checkpoint_deletions_unlocked: a Prepared deletion whose root   *)
(* still exists is dropped.                                                *)
DeletionAbortsIfStaged(c) == dj[c].state = "Prepared" /\ c \in roots /\ dj[c].staged

DeletionAborts(c) == dj[c].state = "Prepared" /\ c \in roots

(* A finished journal without its staged root only waits to be removed;    *)
(* any other needs the staged root, and the manifest to decode it.         *)
DeletionRejected(c) ==
    /\ ~DeletionAborts(c)
    /\ ~(c \notin roots /\ ~dj[c].staged /\ dj[c].state = "Committed")
    /\ \/ ~dj[c].staged
       \/ chunks[snap[c].files] = "absent"
       \/ c \in roots /\ dj[c].state # "Staged"

AbortDeletion(c) ==
    /\ pc = "recoverDeletions"
    /\ c \in todo
    /\ DeletionAborts(c)
    /\ dj' = [dj EXCEPT ![c] = None]
    /\ todo' = todo \ {c}
    /\ UNCHANGED <<roots, snap, objs, chunks, head, latest, cj, restore,
                   pc, mode, cur, scan, gcPlan>>

ResumeDeletionPastInventory(c) ==
    /\ pc = "recoverDeletions"
    /\ c \in todo
    /\ ~DeletionAborts(c) /\ ~DeletionRejected(c)
    /\ cur' = c
    /\ pc' = CASE dj[c].state = "Prepared" -> "markStaged"
               [] dj[c].state = "Staged" ->
                    IF c \in roots THEN "unlinkRoot" ELSE "markRemoved"
               [] dj[c].state = "InventoryUpdated" -> "moveLatest"
               [] dj[c].state = "Committed" -> "cleanupDelete"
    /\ UNCHANGED <<disk, mode, todo, scan, gcPlan>>

ResumeDeletion(c) ==
    /\ pc = "recoverDeletions"
    /\ c \in todo
    /\ ~DeletionAborts(c) /\ ~DeletionRejected(c)
    /\ cur' = c
    /\ pc' = CASE dj[c].state = "Prepared" -> "markStaged"
               [] dj[c].state = "Staged" ->
                    IF c \in roots THEN "unlinkRoot" ELSE "removeInventory"
               [] dj[c].state = "InventoryUpdated" -> "moveLatest"
               [] dj[c].state = "Committed" -> "cleanupDelete"
    /\ UNCHANGED <<disk, mode, todo, scan, gcPlan>>

DeletionsRecovered ==
    /\ pc = "recoverDeletions"
    /\ todo = {}
    /\ pc' = "locked"
    /\ mode' = "run"
    /\ UNCHANGED <<disk, todo, cur, scan, gcPlan>>

(* Every step below is also taken during recovery, which then returns to   *)
(* the next journal.                                                       *)
NextJournal(family) ==
    IF mode = "recover"
    THEN /\ pc' = family
         /\ todo' = todo \ {cur}
         /\ cur' = None
         /\ UNCHANGED <<mode, scan>>
    ELSE Forget

-----------------------------------------------------------------------------
(* Creating a checkpoint: create_checkpoint_internal. *)

(* The guards of a mutating operation, and the baseline: refs/latest may   *)
(* be missing only while the inventory is empty, and must be loadable.     *)
BeginCreate(S) ==
    /\ pc = "locked"
    /\ restore = None
    /\ IF latest = None THEN InventorySet(head) = {} ELSE Loadable(latest)
    /\ files' = S
    /\ base' = latest
    /\ Goto("preload")
    /\ UNCHANGED <<disk, batch, mbatch, gcPlan>>

(* Objects found in the store are taken as they are; those the parent does *)
(* not hold may be the leftovers of a crash and join the barrier.          *)
PreloadObjectsUnsynced ==
    /\ pc = "preload"
    /\ batch' = {}
    /\ Goto("store")
    /\ UNCHANGED <<disk, files, base, mbatch, gcPlan>>

PreloadObjects ==
    /\ pc = "preload"
    /\ batch' = {o \in files : objs[o] # "absent" /\ o \notin FilesOf(base)}
    /\ Goto("store")
    /\ UNCHANGED <<disk, files, base, mbatch, gcPlan>>

StoreObject(o) ==
    /\ pc = "store"
    /\ o \in files
    /\ objs[o] = "absent"
    /\ objs' = [objs EXCEPT ![o] = "volatile"]
    /\ batch' = batch \cup {o}
    /\ UNCHANGED <<roots, snap, chunks, head, latest, cj, dj, restore,
                   control, files, base, mbatch, gcPlan>>

(* The manifest chunk, which the parent may already hold. *)
StoreManifestSwapped ==
    /\ pc = "store"
    /\ \A o \in files : objs[o] # "absent"
    /\ chunks' = [chunks EXCEPT ![files] = IF @ = "absent" THEN "volatile" ELSE @]
    /\ mbatch' = batch
    /\ Goto("flushObjects")
    /\ UNCHANGED <<roots, snap, objs, head, latest, cj, dj, restore,
                   files, base, batch, gcPlan>>

StoreManifest ==
    /\ pc = "store"
    /\ \A o \in files : objs[o] # "absent"
    /\ chunks' = [chunks EXCEPT ![files] = IF @ = "absent" THEN "volatile" ELSE @]
    /\ mbatch' = IF chunks[files] # "absent" /\ base # None /\ FilesOf(base) = files
                 THEN {} ELSE {files}
    /\ Goto("flushObjects")
    /\ UNCHANGED <<roots, snap, objs, head, latest, cj, dj, restore,
                   files, base, batch, gcPlan>>

FlushObjects ==
    /\ pc = "flushObjects"
    /\ objs' = [o \in Objects |-> IF o \in batch THEN "durable" ELSE objs[o]]
    /\ Goto("flushManifest")
    /\ UNCHANGED <<roots, snap, chunks, head, latest, cj, dj, restore, scan, gcPlan>>

FlushManifest ==
    /\ pc = "flushManifest"
    /\ chunks' = [k \in Contents |-> IF k \in mbatch THEN "durable" ELSE chunks[k]]
    /\ Goto("prepare")
    /\ UNCHANGED <<roots, snap, objs, head, latest, cj, dj, restore, scan, gcPlan>>

(* CreateJournalHandle::prepare. *)
PrepareCreate(c) ==
    /\ pc = "prepare"
    /\ snap[c] = None
    /\ snap' = [snap EXCEPT ![c] = [files |-> files, parent |-> base]]
    /\ cj' = [cj EXCEPT ![c] = [state |-> "Prepared", oldLatest |-> base,
                                headBefore |-> head]]
    /\ cur' = c
    /\ pc' = "publish"
    /\ UNCHANGED <<roots, objs, chunks, head, latest, dj, restore,
                   mode, todo, scan, gcPlan>>

PublishRoot ==
    /\ pc = "publish"
    /\ roots' = roots \cup {cur}
    /\ Goto("markRoot")
    /\ UNCHANGED <<snap, objs, chunks, head, latest, cj, dj, restore, scan, gcPlan>>

MarkCreate(at, state, next) ==
    /\ pc = at
    /\ cj' = [cj EXCEPT ![cur].state = state]
    /\ Goto(next)
    /\ UNCHANGED <<roots, snap, objs, chunks, head, latest, dj, restore, scan, gcPlan>>

MarkRootPublished == MarkCreate("markRoot", "RootPublished", "addInventory")

(* add_snapshot_to_inventory_if_head: the root must be there, the swap     *)
(* must be allowed; otherwise the operation fails.                         *)
AddToInventoryBlindly ==
    /\ pc = "addInventory"
    /\ cur \in roots
    /\ head' = Extended(head, "Add", cur)
    /\ Goto("markAdded")
    /\ UNCHANGED <<roots, snap, objs, chunks, latest, cj, dj, restore, scan, gcPlan>>

AddToInventory ==
    /\ pc = "addInventory"
    /\ cur \in roots
    /\ TransitionAllowed(cj[cur].headBefore, "Add", cur)
    /\ head' = Extended(cj[cur].headBefore, "Add", cur)
    /\ Goto("markAdded")
    /\ UNCHANGED <<roots, snap, objs, chunks, latest, cj, dj, restore, scan, gcPlan>>

MarkAdded == MarkCreate("markAdded", "InventoryUpdated", "writeLatest")

(* A running creation overwrites refs/latest; recovery only moves it if    *)
(* it still is what the creation started from.                             *)
WriteLatest ==
    /\ pc = "writeLatest"
    /\ latest' = IF mode = "run" \/ latest = cj[cur].oldLatest THEN cur ELSE latest
    /\ Goto("markLatest")
    /\ UNCHANGED <<roots, snap, objs, chunks, head, cj, dj, restore, scan, gcPlan>>

MarkLatestUpdated == MarkCreate("markLatest", "LatestUpdated", "commitCreate")

CommitCreate == MarkCreate("commitCreate", "Committed", "cleanupCreate")

(* Renaming the journal directory away ends the transaction; a failure is  *)
(* reported as a warning and the journal stays.                            *)
CleanupCreate ==
    /\ pc = "cleanupCreate"
    /\ \/ cj' = [cj EXCEPT ![cur] = None]
       \/ CleanupMayFail /\ cj' = cj
    /\ NextJournal("recoverCreations")
    /\ UNCHANGED <<roots, snap, objs, chunks, head, latest, dj, restore, gcPlan>>

-----------------------------------------------------------------------------
(* Deleting a checkpoint: delete_checkpoint, finish_checkpoint_deletion. *)

BeginDeleteWhilePending(c) ==
    /\ pc = "locked"
    /\ Loadable(c)
    /\ c \in InventorySet(head)
    /\ latest \in InventorySet(head) \cup {None}
    /\ \E d \in ProjectSnapshotRemoval(c) :
          dj' = [dj EXCEPT ![c] = [state |-> "Prepared", staged |-> FALSE,
                                   newLatest |-> d, headBefore |-> head]]
    /\ cur' = c
    /\ pc' = "stageRoot"
    /\ UNCHANGED <<roots, snap, objs, chunks, head, latest, cj, restore,
                   mode, todo, scan, gcPlan>>

BeginDelete(c) ==
    /\ pc = "locked"
    /\ restore = None
    /\ Loadable(c)
    /\ c \in InventorySet(head)
    /\ latest \in InventorySet(head) \cup {None}
    /\ \E d \in ProjectSnapshotRemoval(c) :
          dj' = [dj EXCEPT ![c] = [state |-> "Prepared", staged |-> FALSE,
                                   newLatest |-> d, headBefore |-> head]]
    /\ cur' = c
    /\ pc' = "stageRoot"
    /\ UNCHANGED <<roots, snap, objs, chunks, head, latest, cj, restore,
                   mode, todo, scan, gcPlan>>

(* A synced and read-back copy of the root in the journal directory. *)
StageRoot ==
    /\ pc = "stageRoot"
    /\ dj' = [dj EXCEPT ![cur].staged = TRUE]
    /\ Goto("markStaged")
    /\ UNCHANGED <<roots, snap, objs, chunks, head, latest, cj, restore, scan, gcPlan>>

MarkDelete(at, state, next) ==
    /\ pc = at
    /\ dj' = [dj EXCEPT ![cur].state = state]
    /\ Goto(next)
    /\ UNCHANGED <<roots, snap, objs, chunks, head, latest, cj, restore, scan, gcPlan>>

MarkStaged == MarkDelete("markStaged", "Staged", "unlinkRoot")

UnlinkRoot ==
    /\ pc = "unlinkRoot"
    /\ roots' = roots \ {cur}
    /\ Goto("removeInventory")
    /\ UNCHANGED <<snap, objs, chunks, head, latest, cj, dj, restore, scan, gcPlan>>

RemoveFromInventory ==
    /\ pc = "removeInventory"
    /\ cur \notin roots
    /\ TransitionAllowed(dj[cur].headBefore, "Remove", cur)
    /\ head' = Extended(dj[cur].headBefore, "Remove", cur)
    /\ Goto("markRemoved")
    /\ UNCHANGED <<roots, snap, objs, chunks, latest, cj, dj, restore, scan, gcPlan>>

MarkRemoved == MarkDelete("markRemoved", "InventoryUpdated", "moveLatest")

MoveLatest ==
    /\ pc = "moveLatest"
    /\ latest' = dj[cur].newLatest
    /\ Goto("commitDelete")
    /\ UNCHANGED <<roots, snap, objs, chunks, head, cj, dj, restore, scan, gcPlan>>

CommitDelete == MarkDelete("commitDelete", "Committed", "cleanupDelete")

(* When that write fails the deletion is reported as done all the same,    *)
(* and a recovery goes on to the next journal and grants the lock.         *)
CommitDeleteFails ==
    /\ pc = "commitDelete"
    /\ mode = "recover" => RecoveryMayNotFinalize
    /\ NextJournal("recoverDeletions")
    /\ UNCHANGED <<disk, gcPlan>>

CleanupDelete ==
    /\ pc = "cleanupDelete"
    /\ \/ dj' = [dj EXCEPT ![cur] = None]
       \/ CleanupMayFail /\ dj' = dj
    /\ NextJournal("recoverDeletions")
    /\ UNCHANGED <<roots, snap, objs, chunks, head, latest, cj, restore, gcPlan>>

-----------------------------------------------------------------------------
(* Storage GC: a preview under the shared lock, an apply bound to it. *)

CurrentGcPlan ==
    [head   |-> head,
     objs   |-> {o \in Objects : objs[o] # "absent"} \ ReferencedObjects,
     chunks |-> {k \in Contents : chunks[k] # "absent"} \ ReferencedChunks]

(* validate_physical_snapshot_inventory. *)
PhysicalMatchesInventory == InventorySet(head) = roots

AnalyzeGc ==
    /\ pc = "idle"
    /\ PhysicalMatchesInventory
    /\ gcPlan' = CurrentGcPlan
    /\ UNCHANGED <<disk, control, scan>>

BeginGc ==
    /\ pc = "locked"
    /\ restore = None
    /\ PhysicalMatchesInventory
    /\ gcPlan = CurrentGcPlan
    /\ \A o \in ReferencedObjects : objs[o] # "absent"
    /\ \A k \in ReferencedChunks : chunks[k] # "absent"
    /\ Goto("gc")
    /\ UNCHANGED <<disk, scan, gcPlan>>

GcDeleteObject(o) ==
    /\ pc = "gc"
    /\ o \in gcPlan.objs
    /\ objs[o] # "absent"
    /\ objs' = [objs EXCEPT ![o] = "absent"]
    /\ UNCHANGED <<roots, snap, chunks, head, latest, cj, dj, restore,
                   control, scan, gcPlan>>

(* Chunks go after all the objects. *)
GcDeleteChunk(k) ==
    /\ pc = "gc"
    /\ \A o \in gcPlan.objs : objs[o] = "absent"
    /\ k \in gcPlan.chunks
    /\ chunks[k] # "absent"
    /\ chunks' = [chunks EXCEPT ![k] = "absent"]
    /\ UNCHANGED <<roots, snap, objs, head, latest, cj, dj, restore,
                   control, scan, gcPlan>>

-----------------------------------------------------------------------------
(* Restore and discard transactions, as far as the repository sees them:   *)
(* one may be left pending, and while it is nothing else may change the    *)
(* repository.                                                             *)

BeginRestore(c) ==
    /\ pc = "locked"
    /\ restore = None
    /\ Loadable(c)
    /\ restore' = c
    /\ Goto("restoring")
    /\ UNCHANGED <<roots, snap, objs, chunks, head, latest, cj, dj, scan, gcPlan>>

(* The transaction reaches a terminal state: committed by the operation    *)
(* that began it, or rolled back or quarantined by a later recovery.       *)
EndRestore ==
    /\ pc \in {"restoring", "locked"}
    /\ restore # None
    /\ restore' = None
    /\ Forget
    /\ UNCHANGED <<roots, snap, objs, chunks, head, latest, cj, dj, gcPlan>>

-----------------------------------------------------------------------------
(* The operation ends: it is done, fails, is cancelled or is killed. *)

Release ==
    /\ pc # "idle"
    /\ Forget
    /\ UNCHANGED <<disk, gcPlan>>

(* The machine stops; any directory entry that was not synced may be gone. *)
PowerLoss ==
    /\ \E lost \in SUBSET {o \in Objects : objs[o] = "volatile"},
          lostChunks \in SUBSET {k \in Contents : chunks[k] = "volatile"} :
          /\ objs' = [o \in Objects |->
                        IF objs[o] # "volatile" THEN objs[o]
                        ELSE IF o \in lost THEN "absent" ELSE "durable"]
          /\ chunks' = [k \in Contents |->
                          IF chunks[k] # "volatile" THEN chunks[k]
                          ELSE IF k \in lostChunks THEN "absent" ELSE "durable"]
    /\ Forget
    /\ UNCHANGED <<roots, snap, head, latest, cj, dj, restore, gcPlan>>

-----------------------------------------------------------------------------
Recovery ==
    \/ Lock
    \/ \E c \in Ckpts : AbortCreation(c) \/ ResumeCreation(c)
    \/ CreationsRecovered
    \/ \E c \in Ckpts : AbortDeletion(c) \/ ResumeDeletion(c)
    \/ DeletionsRecovered

Create ==
    \/ \E S \in Contents : BeginCreate(S)
    \/ PreloadObjects
    \/ \E o \in Objects : StoreObject(o)
    \/ StoreManifest
    \/ FlushObjects
    \/ FlushManifest
    \/ \E c \in Ckpts : PrepareCreate(c)
    \/ PublishRoot
    \/ MarkRootPublished
    \/ AddToInventory
    \/ MarkAdded
    \/ WriteLatest
    \/ MarkLatestUpdated
    \/ CommitCreate
    \/ CleanupCreate

Delete ==
    \/ \E c \in Ckpts : BeginDelete(c)
    \/ StageRoot
    \/ MarkStaged
    \/ UnlinkRoot
    \/ RemoveFromInventory
    \/ MarkRemoved
    \/ MoveLatest
    \/ CommitDelete
    \/ CommitDeleteFails
    \/ CleanupDelete

Gc ==
    \/ AnalyzeGc
    \/ BeginGc
    \/ \E o \in Objects : GcDeleteObject(o)
    \/ \E k \in Contents : GcDeleteChunk(k)

Restore == (\E c \in Ckpts : BeginRestore(c)) \/ EndRestore

Next == Recovery \/ Create \/ Delete \/ Gc \/ Restore \/ Release \/ PowerLoss

Spec == Init /\ [][Next]_vars

(* An operation ends in the middle of its work. *)
Interruption ==
    /\ pc \notin {"idle", "locked", "gc", "restoring"}
    /\ pc' = "idle"
    /\ UNCHANGED <<cj, dj>>

(* The tool keeps being used, so the lock keeps being taken; the operation *)
(* that holds it goes on; and interruptions do not go on for ever.         *)
Fairness ==
    /\ WF_vars(Lock)
    /\ WF_vars((Recovery \/ Create \/ Delete) /\ pc \notin {"idle", "locked"})
    /\ <>[][~Interruption]_vars

FairSpec == Spec /\ Fairness

-----------------------------------------------------------------------------
(* Properties. *)

(* Everything a published checkpoint names is durable, whatever crashed,   *)
(* was reused from an earlier attempt, or was collected by storage GC.     *)
PublishedIsDurable ==
    \A c \in roots :
        /\ chunks[snap[c].files] = "durable"
        /\ \A o \in snap[c].files : objs[o] = "durable"

UnfinishedCreations == {c \in Ckpts : cj[c] # None /\ cj[c].state # "Committed"}
UnfinishedDeletions == {c \in Ckpts : dj[c] # None /\ dj[c].state # "Committed"}

Unfinished == ({"create"} \X UnfinishedCreations)
              \cup ({"delete"} \X UnfinishedDeletions)

(* refs/latest is right for a set of checkpoints: one of them, or none.    *)
LatestFits(l, S) == IF S = {} THEN l = None ELSE l \in S

(* At most one journal is unfinished, and when none is, the inventory, the *)
(* published roots and refs/latest agree, wherever the last operation and  *)
(* its recoveries were cut short.                                          *)
QuiescentConsistency ==
    /\ \A x, y \in Unfinished : x = y
    /\ Unfinished = {} => InventorySet(head) = roots /\ LatestFits(latest, roots)

(* Recovery never meets a journal it refuses, and replaying an inventory   *)
(* transition is always accepted.                                          *)
RecoveryNeverRefuses ==
    /\ pc = "recoverCreations" => \A c \in todo : ~CreationRejected(c)
    /\ pc = "recoverDeletions" => \A c \in todo : ~DeletionRejected(c)
    /\ pc = "addInventory" => TransitionAllowed(cj[cur].headBefore, "Add", cur)
    /\ pc = "removeInventory" => TransitionAllowed(dj[cur].headBefore, "Remove", cur)

(* A pending restore can still read the checkpoint it was made for. *)
RestoreTargetSurvives ==
    restore # None =>
        /\ Loadable(restore)
        /\ \A o \in snap[restore].files : objs[o] # "absent"

(* Every journal is eventually replayed or dropped: no interrupted         *)
(* creation or deletion stays unfinished for ever.                         *)
JournalsDrain ==
    \A c \in Ckpts : /\ cj[c] # None ~> cj[c] = None
                     /\ dj[c] # None ~> dj[c] = None

(* The inventory records each creation and each deletion exactly once. *)
RecordedOnce ==
    \A i, j \in DOMAIN head :
        head[i].op = head[j].op /\ head[i].id = head[j].id => i = j

=============================================================================
