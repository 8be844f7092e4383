---------------------- MODULE CheckpointRepoInvariants ----------------------
(***************************************************************************)
(* The inductive invariants behind the safety properties of CheckpointRepo:*)
(* what holds between any two durable writes of an operation.              *)
(***************************************************************************)
EXTENDS CheckpointRepo

-----------------------------------------------------------------------------
(* Durability.  Between the scan and the publication, what the new         *)
(* checkpoint names is held by the parent, waits for the barrier, or is    *)
(* already synced; a GC that runs only holds names nothing refers to.      *)

FilesDurable(S) == \A o \in S : objs[o] = "durable"

ParentPublished == pc \in ScanSteps => base \in roots \cup {None}

ObjectsOnTheWay ==
    /\ pc \in {"store", "flushObjects"} =>
         \A o \in files : objs[o] \in {"absent", "durable"} \/ o \in batch
    /\ pc = "flushObjects" => \A o \in files : objs[o] = "durable" \/ o \in batch
    /\ pc \in {"flushManifest", "prepare"} => FilesDurable(files)

ManifestOnTheWay ==
    /\ pc \in {"flushObjects", "flushManifest"} =>
         chunks[files] = "durable" \/ files \in mbatch
    /\ pc = "prepare" => chunks[files] = "durable"

AboutToPublish ==
    pc = "publish" => /\ FilesDurable(snap[cur].files)
                      /\ chunks[snap[cur].files] = "durable"

CollectsUnreferenced ==
    pc = "gc" => /\ gcPlan.objs \cap ReferencedObjects = {}
                 /\ gcPlan.chunks \cap ReferencedChunks = {}

DurableInv ==
    /\ PublishedIsDurable
    /\ ParentPublished
    /\ ObjectsOnTheWay
    /\ ManifestOnTheWay
    /\ AboutToPublish
    /\ CollectsUnreferenced

-----------------------------------------------------------------------------
(* Agreement of roots, inventory and refs/latest, when a recovery finishes *)
(* every journal it meets.  Each journal state says how far the durable    *)
(* state can have got.                                                     *)

CreationProgress(c) ==
    LET j == cj[c]
        before == roots \ {c}
    IN  /\ j.state \in {"Prepared", "RootPublished", "InventoryUpdated"} =>
             /\ InventorySet(j.headBefore) = before
             /\ LatestFits(j.oldLatest, before)
        /\ j.state \in {"Prepared", "RootPublished"} =>
             /\ head \in {j.headBefore, Extended(j.headBefore, "Add", c)}
             /\ latest = j.oldLatest
        /\ j.state = "Prepared" /\ c \notin roots => head = j.headBefore
        /\ j.state # "Prepared" => c \in roots
        /\ j.state = "InventoryUpdated" =>
             /\ head = Extended(j.headBefore, "Add", c)
             /\ latest \in {j.oldLatest, c}
        /\ j.state = "LatestUpdated" => InventorySet(head) = roots /\ latest = c

DeletionProgress(c) ==
    LET j == dj[c]
    IN  /\ LatestFits(j.newLatest, roots \ {c})
        /\ j.state \in {"Prepared", "Staged"} =>
             /\ InventorySet(j.headBefore) = roots \cup {c}
             /\ head \in {j.headBefore, Extended(j.headBefore, "Remove", c)}
        /\ j.state = "Prepared" =>
             c \in roots /\ head = j.headBefore /\ LatestFits(latest, roots)
        /\ j.state = "Staged" /\ c \in roots => head = j.headBefore
        /\ j.state = "InventoryUpdated" => c \notin roots /\ InventorySet(head) = roots

(* Where the operation is agrees with what its journal says. *)
CreateStep ==
    /\ pc \in {"publish", "markRoot"} => cj[cur].state = "Prepared"
    /\ pc \in {"markRoot", "addInventory"} => cur \in roots
    /\ pc \in {"addInventory", "markAdded"} =>
         cj[cur].state \in {"Prepared", "RootPublished"}
    /\ pc = "markAdded" => /\ cur \in roots
                           /\ head = Extended(cj[cur].headBefore, "Add", cur)
    /\ pc \in {"writeLatest", "markLatest"} => cj[cur].state = "InventoryUpdated"
    /\ pc = "markLatest" => latest = cur
    /\ pc = "commitCreate" => cj[cur].state = "LatestUpdated"
    /\ pc = "cleanupCreate" => cj[cur].state = "Committed"

DeleteStep ==
    /\ pc \in {"stageRoot", "markStaged"} => dj[cur].state = "Prepared"
    /\ pc \in {"unlinkRoot", "removeInventory", "markRemoved"} => dj[cur].state = "Staged"
    /\ pc \in {"removeInventory", "markRemoved"} => cur \notin roots
    /\ pc = "markRemoved" => head = Extended(dj[cur].headBefore, "Remove", cur)
    /\ pc \in {"moveLatest", "commitDelete"} => dj[cur].state = "InventoryUpdated"
    /\ pc = "commitDelete" => latest = dj[cur].newLatest
    /\ pc = "cleanupDelete" => dj[cur].state = "Committed"

(* Which journals can be unfinished at each phase, and that the parent a   *)
(* creation has read stays the latest checkpoint.                          *)
OneUnfinished ==
    /\ \A c, d \in UnfinishedCreations : c = d
    /\ \A c, d \in UnfinishedDeletions : c = d
    /\ UnfinishedCreations = {} \/ UnfinishedDeletions = {}

Phase ==
    /\ pc \in ScanSteps \cup {"locked", "gc", "restoring"} =>
         UnfinishedCreations = {} /\ UnfinishedDeletions = {}
    /\ pc \in ScanSteps => base = latest
    /\ pc = "recoverCreations" \/ (pc \in CreateSteps /\ mode = "recover") =>
         UnfinishedCreations \subseteq todo
    /\ pc \in CreateSteps /\ mode = "recover" => cur \in todo
    /\ pc \in CreateSteps /\ mode = "run" =>
         UnfinishedCreations \subseteq {cur} /\ UnfinishedDeletions = {}
    /\ pc \in {"recoverDeletions"} \cup DeleteSteps => UnfinishedCreations = {}
    /\ pc = "recoverDeletions" \/ (pc \in DeleteSteps /\ mode = "recover") =>
         UnfinishedDeletions \subseteq todo
    /\ pc \in DeleteSteps /\ mode = "run" => UnfinishedDeletions \subseteq {cur}

Agreement ==
    UnfinishedCreations = {} /\ UnfinishedDeletions = {} =>
        InventorySet(head) = roots /\ LatestFits(latest, roots)

ConsistencyInv ==
    /\ OneUnfinished
    /\ Phase
    /\ Agreement
    /\ \A c \in UnfinishedCreations : CreationProgress(c)
    /\ \A c \in UnfinishedDeletions : DeletionProgress(c)
    /\ CreateStep
    /\ DeleteStep

-----------------------------------------------------------------------------
(* What stays true even where a recovery leaves a deletion behind: such a  *)
(* journal is past its inventory transition.  A step finds its journal in  *)
(* the state it was written for, and no earlier deletion is left when the  *)
(* lock is granted.                                                        *)

EarlyDeletions == {c \in Ckpts : dj[c] # None /\ dj[c].state \in {"Prepared", "Staged"}}

JournalAtStep ==
    /\ pc \in {"publish", "markRoot"} => cj[cur].state = "Prepared"
    /\ pc \in {"addInventory", "markAdded"} => cj[cur].state \in {"Prepared", "RootPublished"}
    /\ pc \in {"stageRoot", "markStaged"} => dj[cur].state = "Prepared"
    /\ pc \in {"unlinkRoot", "removeInventory", "markRemoved"} => dj[cur].state = "Staged"
    /\ pc \in {"moveLatest", "commitDelete"} => dj[cur].state = "InventoryUpdated"
    /\ pc = "cleanupDelete" => dj[cur].state = "Committed"

EarlyAreSeen ==
    /\ pc = "locked" => EarlyDeletions = {}
    /\ pc = "recoverDeletions" \/ (pc \in DeleteSteps /\ mode = "recover") =>
         EarlyDeletions \subseteq todo

DriveInv == JournalAtStep /\ EarlyAreSeen

(* A pending restore: its checkpoint stays published, because no deletion  *)
(* that could still unlink a root is under way while one is pending.       *)
RestoreInv == restore # None => restore \in roots /\ EarlyDeletions = {}

-----------------------------------------------------------------------------
(* The lineage: its ids have known bytes, so a new checkpoint is not among *)
(* them, and what was removed is not listed any more.                      *)

ListedIsKnown ==
    \A i \in DOMAIN head : head[i].id \in Ckpts => snap[head[i].id] # None

RemovedIsGone ==
    \A i \in DOMAIN head : head[i].op = "Remove" => head[i].id \notin InventorySet(head)

NewToTheLineage ==
    \A c \in UnfinishedCreations :
        cj[c].state \in {"Prepared", "RootPublished"} =>
            \A i \in DOMAIN cj[c].headBefore : cj[c].headBefore[i].id # c

LineageInv == RecordedOnce /\ ListedIsKnown /\ RemovedIsGone /\ NewToTheLineage

-----------------------------------------------------------------------------
(* Recovery, when removing a finished journal does not fail: which journals *)
(* there are at each step, finished ones included, and what a recovery      *)
(* needs of them.                                                           *)

Creations == {c \in Ckpts : cj[c] # None}
Deletions == {c \in Ckpts : dj[c] # None}

JournalsLeft ==
    /\ pc = "recoverCreations" \/ (pc \in CreateSteps /\ mode = "recover") =>
         Creations \subseteq todo
    /\ pc \in {"publish", "markRoot"} => mode = "run"
    /\ pc \in CreateSteps /\ mode = "run" => Creations \subseteq {cur} /\ Deletions = {}
    /\ pc \in {"recoverDeletions", "locked", "gc", "restoring"} \cup ScanSteps \cup DeleteSteps =>
         Creations = {}
    /\ pc = "recoverDeletions" \/ (pc \in DeleteSteps /\ mode = "recover") =>
         Deletions \subseteq todo
    /\ pc \in DeleteSteps /\ mode = "run" => Deletions \subseteq {cur}
    /\ pc \in {"locked", "gc", "restoring"} \cup ScanSteps => Deletions = {}

CreationReadable == \A c \in Creations : cj[c].state = "Committed" => c \in roots

DeletionReadable ==
    /\ \A c \in Deletions :
         /\ chunks[snap[c].files] = "durable"
         /\ dj[c].state # "Prepared" => dj[c].staged
         /\ dj[c].state = "Committed" => c \notin roots
    /\ pc = "markStaged" => dj[cur].staged

RecoveryInv == JournalsLeft /\ CreationReadable /\ DeletionReadable

-----------------------------------------------------------------------------
(* Types need a little more than TypeOK: a step that writes the journal of *)
(* cur needs cur to have one, and publishing needs the scanned files to be *)
(* one of the contents.                                                    *)

JournalDriven ==
    /\ pc \in ScanSteps => files \in Contents
    /\ pc \in CreateSteps => cur \in Ckpts /\ cj[cur] # None
    /\ pc \in DeleteSteps => cur \in Ckpts /\ dj[cur] # None
    /\ pc = "gc" => gcPlan # None
    /\ pc \in ScanSteps \cup {"locked"} => mode = "run"
    /\ pc \in {"recoverCreations", "recoverDeletions"} => mode = "recover"
    /\ pc = "recoverCreations" \/ (pc \in CreateSteps /\ mode = "recover") =>
         \A c \in todo : cj[c] # None
    /\ pc = "recoverDeletions" \/ (pc \in DeleteSteps /\ mode = "recover") =>
         \A c \in todo : dj[c] # None

(* A checkpoint that is published or has a journal has known bytes. *)
BytesKnown ==
    \A c \in Ckpts : c \in roots \/ cj[c] # None \/ dj[c] # None => snap[c] # None

TypeInv == TypeOK /\ JournalDriven /\ BytesKnown

=============================================================================
