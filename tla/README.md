# CheckPo in TLA+

CheckPo keeps checkpoints of a project directory: a Rust core
(`src/CheckPo.Core`) with a content-addressed repository, restore and discard
transactions on the working tree, and a command line and a Tauri desktop
application around it. What it promises is that a checkpoint, once made, is
complete and stays readable, and that a crash at any moment loses neither a
checkpoint nor a file of the user. This directory models the parts of the core
that carry this promise, checks them with TLC on small instances and proves the
central invariants with TLAPS for all instances.

Paths below are relative to `src/CheckPo.Core/src/` unless they say otherwise.

## Inventory of the system

| component | state it keeps | operations |
|---|---|---|
| objects and manifest chunks (`storage/object_store.rs`, `chunk_store.rs`) | content-addressed files; deferred directory syncs (`anchored_fs/sync_batch.rs`) | put, publish manifest, flush barriers, publish root |
| snapshot inventory (`storage/snapshot_inventory.rs`) | a head that names a lineage of states, each with an operation and a set | initialise, add / remove if the head is the expected one (replay accepted), project a removal, compare with the physical roots |
| checkpoints (`checkpoint.rs`, `checkpoint_create_journal.rs`) | published roots, `refs/latest`, one journal per unfinished creation or deletion | create, delete, rename, recover creations, recover deletions |
| storage GC (`maintenance.rs`) | a plan id handed to the user | analyse (shared lock), apply the plan (exclusive lock) |
| restore and discard transactions (`transaction/`) | a journal per transaction, staged files, backups, held files, rescue and quarantine records, the user's working tree | apply, roll back, export conflicts, rescue and retry, quarantine, clean up |
| repository and location locks, registry, marker (`storage/lock.rs`, `project.rs`, `storage_root_setting.rs`) | lock files, registered project location and repository | initialise, open, move, change storage root |
| SQLite index, names, status, diff, scanner (`db.rs`, `checkpoint_names.rs`, `status.rs`, `diff.rs`, `scanner.rs`) | a rebuildable cache, fingerprints, display names | refresh, list, diff, invalidate |
| verification (`verify.rs`) | none | read-only audit |
| anchored file system, atomic writes (`storage/anchored_fs/`, `atomic_io.rs`, `windows_durability.rs`, `fs_safety.rs`) | open directory handles | create, replace, rename, unlink, sync relative to a handle |
| command line, Tauri backend, frontend | running-operation slots | call the core |

How they interact. Every mutating operation takes the exclusive repository lock
(`project.rs:847`), and taking it first replays every checkpoint-create journal
and then every checkpoint-delete journal. Restore and discard take the same
lock; a transaction that did not reach a terminal state makes creation,
deletion, GC and other transactions refuse until it is recovered or
quarantined. GC is split in two: a preview under the shared lock, and an apply
under the exclusive lock that recomputes the plan and compares its id.

What is hard: every one of these operations is a row of durable writes, any of
which can be the last before a crash; the recovery is itself interrupted and
repeated; content-addressed files outlive the operation that wrote them, so a
later one reuses what an earlier one never synced; the GC plan is computed
before the lock under which it is applied; and during a restore the user keeps
editing the files. `PROJECT.json` lists these hazards at their lines.

What makes each component correct:

* repository: published data is durable; inventory, roots and `refs/latest`
  agree at rest; recovery finishes from every prefix; deletion leaves the
  youngest survivor as the latest;
* GC: nothing a published checkpoint or a pending restore needs is collected;
* transactions: the working tree ends in the state before or the state after,
  durably; no content the user wrote is lost; recovery always has a way out;
* index: never answers from a snapshot set other than the inventory's head;
* registry: a project has one repository, through a crash of initialisation or
  of a storage-root change.

## Modules

| module | models |
|---|---|
| `CheckpointHistory` | the abstract promise: the checkpoints ever created and which is older, the live ones, the current one; atomic create and delete |
| `CheckpointRepo` | the repository: one action per durable write of creation, deletion, their recoveries, GC, and the two outside events |
| `CheckpointRepoRefinement` | the refinement mapping to `CheckpointHistory` |
| `MCCheckpointRepo` | instances for TLC |
| `CheckpointRepoInvariants` | the inductive invariants of the repository |
| `CheckpointRepoProofs` | the theorems about the repository: types, durability, consistency at rest, restore targets, the lineage, recovery and the refinement |
| `RestoreTransaction` | restore and discard on the working tree: apply, rollback, rescue, quarantine, with a user who edits at any time |
| `RestoreTransactionProofs` | its invariants and the theorems about it |
| `OperationPlan` | planning and applying a restore or discard when files and folders change places: selection, folder changes, the rules for `.meta` files, rollback |
| `OperationPlanProofs` | its invariants and the theorems about it |
| `WorkingTreeScan` | how a checkpoint or a diff reads the tree while it is edited, and the two caches of fingerprints |
| `WorkingTreeScanProofs` | its invariants and the theorems about it |
| `CheckpointIndex` | the SQLite index and the display names through creation, deletion, recovery and rebuild |
| `CheckpointIndexProofs` | its invariants and the theorems about it |
| `ProjectRegistry` | which folder owns which repository: marker, pending file, registry, claims, storage root |
| `ProjectRegistryInvariants` | its inductive invariants |
| `ProjectRegistryProofs`, `ProjectRegistryClaims` | the theorems about the registry: types and locks; claims, markers and separate initialisations |
| `AnchoredParent` | replacing and removing a directory entry on Unix and on Windows |
| `AnchoredParentProofs` | its invariants and the theorems about it |
| `MCRestoreTransaction`, `MCOperationPlan`, `MCWorkingTreeScan`, `MCCheckpointIndex`, `MCProjectRegistry`, `MCAnchoredParent` | instances for TLC |

How they fit together. `CheckpointRepo` is the core; the others each look into
one thing it takes for granted or leaves aside. `WorkingTreeScan` opens up the
steps before the manifest is stored: `CheckpointRepo` takes the file set of a
creation as given, this module says what it is. `CheckpointIndex` has the same
creations, deletions and journals with the inventory transition as one step
(that repeating it is harmless is what `CheckpointRepo` shows) and adds what
happens after it. `RestoreTransaction` and `OperationPlan` are two views of the
same transaction: the first has every sync and power loss over paths that are
only files, the second has folders and plans over steps that are durable at
once. `ProjectRegistry` is what happens before the repository lock is granted.
`AnchoredParent` opens up the durable replace and the bound unlink that all the
others use as one step.

### CheckpointRepo

State. `roots`, `snap`, `objs`, `chunks`, `head`, `latest`, `cj`, `dj` and
`restore` are on disk; `pc`, `mode`, `todo`, `cur`, `files`, `base`, `batch`
and `mbatch` belong to the operation that holds the exclusive lock; `gcPlan` is
the preview the user holds. There is a single program counter because the lock
admits a single writer, and shared-lock readers change nothing (`AnalyzeGc` is
kept because its result outlives the lock).

A snapshot id is the hash of its root, which holds the creation time and the
parent, so an id is created at most once (`PrepareCreate` takes an unused one).
Data is abstracted to what the properties tell apart: an object id is its
content; a manifest tree is one chunk, named by the file set it encodes; an
inventory state is the set it encodes, and a head is identified with the
lineage it hashes.

Objects and chunks are `absent`, `volatile` (renamed into place, the directory
entry not synced) or `durable`. Roots, journals, the head and `refs/latest` are
written by durable replaces in the code, so their writes are durable steps.
`PowerLoss` makes every volatile entry vanish or survive, independently.
`Release` ends the operation after any step: success, an error return, a
cancellation, a killed process. A killed process leaves volatile entries in the
page cache, still volatile, and this is what the next creation may reuse.

Actions follow the code's order of writes. Creation: `BeginCreate`,
`PreloadObjects`, `StoreObject`, `StoreManifest`, `FlushObjects`,
`FlushManifest`, `PrepareCreate`, `PublishRoot`, `MarkRootPublished`,
`AddToInventory`, `MarkAdded`, `WriteLatest`, `MarkLatestUpdated`,
`CommitCreate`, `CleanupCreate`. Deletion: `BeginDelete`, `StageRoot`,
`MarkStaged`, `UnlinkRoot`, `RemoveFromInventory`, `MarkRemoved`, `MoveLatest`,
`CommitDelete`, `CleanupDelete`. Recovery enters these rows at the step the
journal names (`ResumeCreation`, `ResumeDeletion`) or drops the journal
(`AbortCreation`, `AbortDeletion`), and an error (`CreationRejected`,
`DeletionRejected`) leaves only `Release`. A pending restore is a target that
refuses other work until `EndRestore`. When the last journal write of a deletion
fails, the code reports the deletion as done (`CommitDeleteFails`): the operation
ends, and a recovery goes on to the next journal and grants the lock. The second
case is under the constant `RecoveryMayNotFinalize`, because *Findings* and
*Observations* show what it breaks; the first is in every run.

Abstractions to keep in mind: messages and statistics are left out, names and
the SQLite index are in `CheckpointIndex`, the scan and the object integrity
cache in `WorkingTreeScan`, and collecting inventory nodes is not part of `Gc`.

### RestoreTransaction

State. A file is its content and its modification time, a tree gives each
tracked path a file or `None`. `tree` is what a process sees, `disk` what a
power loss may leave; `held` and `heldDisk` are the same for files that rollback
has set aside under a recovery name. The transaction directory is `state`,
`kind`, `before`, `after` (the journal, whose operations follow from the two
trees), `staged`, `backup` and `copies` (the private copies, named by content,
of `recovery-after` and `recovery-rescues`); `rescue` is the rescue record and
`unresolved` says whether a quarantine record still asks for a restore. Journals
and records are written by durable replaces, so those writes are durable steps.
`remembered` is what a step keeps in mind for the next: that the target of a
quarantine was verified, or that the file just copied back is still the copy, whose
identity an error path compares before it unlinks it.
`mine`, `touched`, `goal` and `kept` only serve the properties: what the user
last left at each path, the paths the transaction no longer answers for, the
tree it should leave, and the contents that have a durable private copy.

Actions, in the order of the code. Apply (`transaction/apply.rs`):
`BeginRestore` or `BeginDiscard`, `WriteJournal`, `StageOperations`,
`MarkStaged`, `RecheckPreconditions`, `MarkApplying` (an error up to here is
`AbortPrepare`); for each batch `BackupProjectFile`, `FlushBackups`,
`RemoveBackupSource`, `FlushBackupSources`; then `PublishStagedFile` and
`SetProjectFileMtime`, `FlushPublished`, `VerifyQuarantineTarget`, `Commit`,
`FinishApply`. Rollback (`recovery/rollback.rs`): `Recover`; for each published
file `PreserveAfterFile`, `SyncAfterCopy`, `HoldAfterFile`, `SyncHold`,
`DropHeld`, `SyncDrop`, or `NotPublished`; for each removed one
`KeepBeforeFile`, or `CopyBackupFile` and `SyncBackupCopy`;
`RecoverProjectFileMtime`, `EnsureBeforeStateRestored`, `DropStaged`,
`MarkRecovered`, `CloseRescue`. A copy whose sync fails is removed again
(`DiscardFreshCopy`, `DiscardBackupCopy`). Rescue (`recovery/rescue.rs`):
`BeginRescue`, `PreserveConflict`, `SyncRescueCopy`, `WriteRescueRecord`,
`StartResolve`; for each entry `RemoveConflict` and `SyncConflictRemoval`,
`ResetConflictTime`, or `EntryResolved`, then `CompleteEntry`;
`ConflictsResolved` enters rollback. Quarantine (`recovery/quarantine.rs`):
`QuarantineTransaction`, `QuarantineUnknownTransaction`, `MoveJournal`,
`MoveJournalFails`. A step the code refuses (a precondition that no longer
holds) is disabled, and `Release` ends the operation there as an error return
does.

Abstractions to keep in mind. A check and the system call it guards are one
step, and a save by the user is one step that is durable at once: saves inside
that window, or through a handle that was open before the file was renamed, are
outside the model (the error path of `copy_backup_file_to_project` unlinks by
identity only, so an in-place save in that window would go with it). Staging is
one step up to its barrier. Batches are of any size. The plan a rescue confirms
is the one of the moment, as the code compares plan ids. Left out:
materialisation temporaries, fingerprints, exports to a directory of the user,
unreadable journals, and journal cleanup; folders are in `OperationPlan`.

### OperationPlan

A path is the sequence of its names, a tree gives each path a file, `Dir` or
`None`. `Preview` computes what `transaction/plan.rs` freezes: for a discard the
closure of the request under asset/`.meta` companions and topology
(`normalize_discard_selection`), the operations, `DirectoriesToRemove` and
`DirectoriesToCreate`, or an error (`Undiscardable`, `TopologyUnplannable`).
Applying goes through `validate_discard_request_scope` (which derives the
authorised set again, `Authorized`), `validate_expected_plan`, `BeginApplying`
(the check repeated after staging), `BackupFile`, `RemoveSource`,
`RemoveDirectory`, `CreateDirectory`, `PublishFile`, `SetMtime`. A check that
fails leaves the transaction pending, `Kill` can happen at any step, and
recovery is `RecoverOne`, `RemoveAfter`, `RemoveCreated`, `RecreateRemoved`,
`RestoreBefore`, `RestoreMtime`, `EnsureBeforeStateRestored`; any of them may
refuse, and the recovery is tried again. `todo` holds the paths a step still has to
handle; it takes them in path order, and folders to remove the deepest first
(`Earlier`). The user saves, makes folders and
deletes at any moment after the preview.

The preview is one step (the scan's own races are in `WorkingTreeScan`), power
loss is in `RestoreTransaction`, all paths lie under `Assets/`, and the signature
of the plan, the free-space check and the scan's warnings are left out.

### WorkingTreeScan

A file has two halves, so that a torn read is visible, a modification time, and
a version that stands for the rest of the fingerprint (device, inode, length,
change time): every write gives a new one. A creation or diff walks
(`collect_project_files`), assesses each path against cache and baseline
(`Assess`, `Reusable`), hashes in two reads with the checks before and after
(`StartHash`, `FinishHash`, `HashAccepted`). A folder or an entry that the walk
cannot read makes the scan incomplete, as a file does that vanished or changed; a
creation then ends (`RefuseIncomplete`) and a diff calls nothing deleted. A creation
preloads objects under the integrity cache (`preload_available_current_objects`,
`CacheMatches`), copies (`PutObject`, `RefuseObject`), reads back (`Readback`,
`ReadbackFails`), publishes and refreshes the cache (`Fingerprint`,
`refresh_file_fingerprints`). The fingerprint of an object that was read is taken in a
step after the reading, in the preload (`FingerprintPreloaded`) and in the readback
(`RecordFingerprints`), and compared with nothing; `hashed` holds the objects in
between. Others edit files and damage objects between any two steps. For the
properties, `seen` records what each path held since the scan began, `harmed` the
objects damaged since a creation looked, and `missed` those damaged before their
fingerprint was taken.

Assumed: a write changes the fingerprint. On a file system with coarse change
times two writes within a tick could leave it as it is, and damage that leaves
an object's fingerprint alone is outside what the integrity cache can notice.

### CheckpointIndex

`db` is `Missing`, `Unreadable` or rows, reference counts and the inventory head
they were made from; `Status` compares that head with the current one. Rows and
head are written by two transactions (`index_snapshot_with_connection` or
`delete_snapshot_from_index`, then `write_snapshot_inventory_head`), each of
which may fail. A deletion notes in its journal whether it will update the index
(`UpdateIndex`); recovery repeats the update; a recovery that resolved something
rebuilds an index that is not current (`AfterRecovery`); a creation opens its
connection before it publishes. Names: `rename_checkpoint`,
`remove_checkpoint_name_override`, `prune_checkpoint_name_overrides`, and a names
file that may be unreadable. The last two may also fail to write the file, which is
only a warning in the code: the deletion is committed all the same. `impaired`
remembers that an index write failed since the last rebuild, `unnamed` that a name
could not be removed and no pruning succeeded since.

### ProjectRegistry

`folders` holds the marker and the pending file of each project folder,
`registry` the registered root and storage root of each id, `repos` the
repositories there are. Each process runs one call at a time, and a call is a
row of steps with what it has read (`marker`, `pending`, `seen`) and the locks it
holds. `init_project`: `InitRead`, `InitClaim`, `InitReserve`, `InitLayout`,
`InitPhase`, `InitRegister`, `InitRegistered`, `InitCommit`, `InitFinalize`;
loading and confirming: `LoadRead`, `RefreshClaim`, `RefreshRead`,
`RefreshWrite`; a mutation: `MutateLock`, `MutateValidate`, `MutateDone`;
`set_project_storage_root`: `SetRead`, `SetClaim`, `SetWrite`. `Fails` ends a call
at any step. Locks are tried, never waited for, so a call that meets one ends,
and there is no deadlock to look for; locks taken one after the other with
nothing read in between are one step. Loads without a side effect are not steps.
An initialisation that finds its marker written loads the project (`FinishLoad`) and
goes on only if that is still the project of its pending file (`ToBeFinished`).
Users copy, move and delete folders and repositories while no call holds a lock.

`SetWrite` leaves out what `set_project_storage_root` does in the two repositories
before it writes the registry (`storage_root_setting.rs:84`): it recovers their
checkpoint journals, refuses while a transaction is pending or a quarantine is
unresolved, and rebuilds the index. None of this is state of this module; the model
switches in more states than the code, so what it proves covers the code.

Two races that the code does not exclude are named constants: `SeparateRaces`,
two separate initialisations of one folder at a time, and `MarkerRaces`, a
marker that another call replaces between the two times a call reads it (before
and under the location lock). Both are `FALSE` in the passing run, and
*Observations* and *Findings* say what they break.

### AnchoredParent

Four names of one directory (the destination, the temporary file, the private
name, the Windows record) and the identities behind them. `entries` is what
processes see, `disks` the set of directories a power loss can leave: a change is
added to every member with and without it, and `sync_all` leaves one. On Unix a
replacement is an exchange, a check and an unlink; on Windows a record, a
detach, a publication, and recovery from the record after a failure
(`recover_windows_replace_record_at`), itself cut short and repeated. The record is
created under its name, written and synced in three steps (`CreateRecord`,
`WriteRecord`, `RecordFileSynced`); `content` says how far it is, and a recovery that
finds a torn one ends with an error (`RefuseTornRecord`). Removals
detach to a private name, check, remove or roll back. Another program replaces
or writes the destination at any time, except for what Windows holds open.

## Runs

| run | constants | what it checks |
|---|---|---|
| `repo_crashes` | two checkpoints, contents `{}` and `{a}`, cleanups succeed, a recovery finishes the deletions it replays, fair specification | `TypeOK`, `PublishedIsDurable`, `RecoveryNeverRefuses`, `RestoreTargetSurvives`, `RecordedOnce`, `JournalsDrain` |
| `repo_history` | three checkpoints of one content, removing a finished journal may fail, a recovery finishes the deletions it replays | `QuiescentConsistency`, `ImplementsHistory` |
| `restore_edits` | three starting trees, two edits, one transaction | `TypeOK`, `NoUserDataLost`, `RollbackNeverRefuses` |
| `restore_outcome` | one starting tree, one edit, two transactions, different volumes, fair specification | `UnflaggedTreeIsWhole`, `RecoveryCompletes` |
| `plan` | a folder, its `.meta`, and two levels below it; every checkpoint, tree and request; one edit | `TypeOK`, `OutsideScopeUntouched`, `NoFileLost`, `CommittedAsPreviewed`, `PairsStayTogether`, `RolledBackWhole`, `UndisturbedRestoreGoesOn` |
| `scan` | two files, two contents, two times, two writes by others, two checkpoints, three scans | `TypeOK`, `ReadingsAreTrue`, `DiffsAreTrue`, `CacheIsTrue`, `PublishesIntactObjects` |
| `index` | three checkpoints sharing two objects | `TypeOK`, `CurrentIndexIsExact`, `CrashLeavesIndexCurrent`, `NamesAreOfCheckpoints` |
| `registry` | two processes, three folders, two ids, two storage roots, three calls, one act of a user | `TypeOK`, `ClaimHoldsWhileWorking`, `RegistryMatchesRepositories`, `SeparateInitCanResume`, `ClaimsAreTakenKnowingly`, `MarkersAreReplacedKnowingly`, `SeparateInitGoesOn` |
| `anchored` | both platforms, six operations, two foreign files, one foreign write | `TypeOK`, `ReplacementIsAtomic`, `RecoveryUnderstands`, `OthersSurvive` |
| `registry_marker` | as `registry`, one storage root, four calls, `MarkerRaces` | `CopiesAreNotChanged`, violated |
| `plan_discard` | as `plan`, without edits | `UndisturbedDiscardRollsBack`, violated |
| `anchored_shard` | as `anchored` | `LiveDirectoryStaysVisible`, violated |

Bounds of the repository, and why they are enough. The only bound is the number
of checkpoint ids: each is used once, so the number of creations is bounded
while crashes, recoveries, scans that fail, GC rounds and restores are not. Two
contents, one inside the other, are the smallest in which a creation reuses an
object of its parent, reuses an object left by a failed creation, and in which
GC collects what another checkpoint nearly shares (the safety properties are
proved for all contents). Three checkpoints of one content are the smallest in
which a deleted latest checkpoint has a deleted parent and a living older one,
so that the walk through the lineage has to choose, and in which a finished
journal is met again after an unrelated creation and an unrelated deletion.
Checkpoint ids are symmetric; `repo_crashes` checks liveness and uses no
symmetry.

Bounds of the transaction. Two paths, so that one can be ahead of the other,
with trees between which every type of operation occurs (replace, delete,
restore, set the time). `MaxEdits` bounds the user and `MaxTransactions` the
transactions; interruptions, power losses, recoveries, rescues and quarantines
are unbounded. Two edits let the user interfere with the apply and again with
the rescue; a second transaction is needed for a quarantine to be resolved or
to stay flagged. `KilledBeforeSync` allows an operation to end between a rename
or unlink and the directory sync right after it in the same helper. It is
`FALSE` in both runs, because the observations below would break
`UnflaggedTreeIsWhole` and `NoUserDataLost`; power can be lost in that window in
every run.

Bounds of the others. `plan` enumerates every pair of checkpoint and tree over its
four paths, so a folder stands where a file goes and the reverse, at two depths;
the file times let a file differ in time alone. Interruptions and recoveries are
unbounded. The run ends when the transaction does, as do `registry` and `anchored`
(hence no deadlock check). In `scan` the second write lets a file change and
change back, the second checkpoint reads a cache the first one filled and the
third scan is a diff against it. In `index` one object is named twice by a
checkpoint and another is shared, so that a wrong count shows. In `registry`
three calls are an interrupted one, its retry and one in between, three folders a
project, its copy and the place it is moved to. `anchored` is one operation, with
any number of interrupted recoveries.

Fairness. `WF(Lock)`: the tool keeps being used. Weak fairness of the steps of
recovery, creation and deletion: the process that holds the lock runs on.
Finally, interruptions stop at some point: `Release` and `PowerLoss` in the
middle of an operation happen only finitely often. Nothing is assumed of GC or of
restores, and a pending restore does not stop the journals from draining, as
recovery comes before that guard. In `RestoreTransaction` likewise: recovery
keeps being tried (the application offers it whenever a transaction is pending),
an operation that has begun runs on, and from some point on no recovery is cut
short. The user is not assumed to quarantine anything.

### Findings

* `plan_discard`. A folder and its `.meta` were deleted (or a file took the
  folder's place), and the user discards the `.meta` together with a file inside.
  The preview accepts this. Applying it makes the folder, and publishing the
  `.meta` then fails, as `ensure_discard_folder_meta_operation_is_safe` finds a
  folder beside it. The rollback makes the same check (`recovery/rollback.rs:350`)
  before it removes the folder that the transaction itself created, so it refuses
  every time, although nobody touched the project. `README.md:104` says that a
  transaction interrupted before `Committed` is rolled back. For a restore the
  opposite is checked: `UndisturbedRestoreGoesOn`.
* `anchored_shard`. On Unix `unlink_dir_if_bound_inner` renames a directory to a
  private name, tries to remove it, and renames it back when it is not empty. GC
  calls it on shards that usually are not (`maintenance.rs:1639`). Between the two
  renames a kill or a power loss leaves the shard, with live objects, under the
  private name, and nothing looks for it there. The comment in that function says
  a failed removal must not "leave the live shard hidden under a tombstone name";
  without a crash it does not (`OthersSurvive`).
* `registry_marker`. `confirm_project_location` (`project.rs:157`) reads the marker,
  takes the location lock of the id it found and reads the marker again, without
  comparing the two ids; `load_project` and `set_project_storage_root` do the same.
  A separate initialisation replaces the marker in between and the folder is
  copied: the call then gives the second project to its folder although it holds
  only the lock of the first, while a mutation that holds the lock of the second
  works on in the other folder. `README.md:31` says that a project that may be a
  copy is not changed; the comment at `project.rs:126` that the second read is
  there "so two moved/copied locations cannot both win from stale registry
  state". With the two ids compared (`MarkerRaces = FALSE`) it is a theorem.

### Observations

Met while modelling and left out of the passing runs by a named constant, or
outside their properties.

* A finished journal that cannot be removed (`CleanupMayFail`). A create journal
  stays `Committed`; if its checkpoint is deleted, the removal failing once more
  when the deletion takes the lock, the next recovery finds no published root and
  stops with a corruption error before it looks at the state
  (`checkpoint_create_journal.rs:180`). A delete journal stays `Committed` with its
  staged root; GC may collect the manifest, and the next recovery decodes the
  staged root first and fails (`checkpoint.rs:1226`). Every later exclusive
  operation then fails at the same place, where `アーキテクチャ.md:208` says that the
  cleanup is retried. `RecoveryNeverRefuses` shows both with `CleanupMayFail = TRUE`.
  `QuiescentConsistency` holds all the same: nothing is damaged.
* A recovery that cannot write the last state of a deletion journal
  (`RecoveryMayNotFinalize`): `finish_checkpoint_deletion` returns `Ok` with a warning
  that the journal "will be recovered later" (`checkpoint.rs:1064`), and the lock is
  granted with the journal at `InventoryUpdated`. In the deletion itself the same return
  is harmless: the next operation recovers the journal before it does anything else.
  After a recovery, however, a creation or another deletion begins with that journal
  unfinished, so two journals are, and the next recovery replays it: `refs/latest` goes
  back over a newer checkpoint (`QuiescentConsistency` and `ImplementsHistory` fail), or
  names one that was deleted meanwhile, with no journal left to correct it, where
  `アーキテクチャ.md:257` asks that `refs/latest`, where it exists, points to a valid
  snapshot. A GC in between may collect the manifest that the staged root names, and
  then every later recovery refuses (`RecoveryNeverRefuses`) and the journal never goes
  (`JournalsDrain`); and the head written to the index can be one whose checkpoints it
  does not list (`CurrentIndexIsExact`). `PublishedIsDurable`, `RestoreTargetSurvives`
  and `RecordedOnce` need no such premise.
* An object is hashed and its fingerprint taken afterwards, without a comparison
  (`checkpoint.rs:664`, `storage/object_store.rs:560`). Damage in between (`missed`) is
  recorded under the fingerprint of the damaged file, and the next checkpoint takes the
  object unread and publishes a root that names it, where `README.md:84` says that a
  damaged object is repaired from the working tree or no root is published. For all
  other damage that a fingerprint shows it is a theorem (`PublishesIntactObjects`).
* The Windows recovery record is created under its final name, written and synced
  (`storage/anchored_fs/parent.rs:114`). A kill or a power loss in between leaves an empty
  or partial record, which every later replacement of that name fails to parse
  (`parent.rs:231`) and nothing removes. `アーキテクチャ.md:164` says that metadata is
  made as a temporary file, synced and renamed, and that the guarantee covers process
  crash, OS crash and loss of power. The old file itself is safe (`RecoveryUnderstands`,
  `ReplacementIsAtomic`): it is moved only after the record is on disk.
* A kill between a rename and its directory sync (`KilledBeforeSync`).
  `copy_backup_file_to_project` is killed there, the next recovery finds the file,
  syncs the file but not the directory and marks the transaction `Recovered`; a
  power loss can then remove it (`project_file_ops.rs:825`; `アーキテクチャ.md:164`
  says a journal advances only after the directory barrier). The same in
  `preserve_after_file_for_recovery` (`recovery/rollback.rs:543`): a retry takes the
  private copy for durable and the user's file is removed, where
  `recovery/rescue.rs:333` relies on "the durable rescue copy".
* A transaction interrupted before `Applying` changed nothing. If the user then
  edits one of its files, a rescue moves that file away, no rollback is needed, and
  the transaction ends as `Recovered` with the file missing from the project
  (`recovery/rollback.rs:282`). The content survives in the private copy.
* Separate initialisations of one folder that overlap (`SeparateRaces`, with three
  ids): the pending file is read before the locks and not again under them
  (`project.rs:433`, `664`), so one call can replace the other's pending file and
  its repository is left behind; `SeparateInitGoesOn` fails.
* A folder that is copied or moved with its pending file: the retry is refused for
  good, as the pending file names a project registered elsewhere
  (`project.rs:517`). The properties exclude folders a user has moved.
* A discard that turns a file back into a folder is always refused at apply when
  the folder's `.meta` changed too; and one whose companion `.meta` path is a folder
  with files is refused as changed after the preview although nothing changed
  (`validate_discard_request_scope` does not count those files as authorised).
* A file edited while `Applying` before its backup was taken can be rescued, but
  rollback then stops with "backup missing" and only a quarantine is left; a
  `Staged` transaction with an operation that sets only a time is rolled back
  although nothing was applied, which is harmless; a quarantine may leave changes
  that no one has synced.

## Proofs

| theorem | module | states | under |
|---|---|---|---|
| `TypeCorrect` | `CheckpointRepoProofs` | `Spec => []TypeOK` | |
| `PublishedStaysDurable` | `CheckpointRepoProofs` | `Spec => []PublishedIsDurable` | |
| `ConsistentAtRest` | `CheckpointRepoProofs` | `Spec => []QuiescentConsistency` | `RecoveryMayNotFinalize = FALSE` |
| `RestoreTargetIsKept` | `CheckpointRepoProofs` | `Spec => []RestoreTargetSurvives` | |
| `InventoryRecordsOnce` | `CheckpointRepoProofs` | `Spec => []RecordedOnce` | |
| `RecoveryGoesThrough` | `CheckpointRepoProofs` | `Spec => []RecoveryNeverRefuses` | `CleanupMayFail = FALSE`, `RecoveryMayNotFinalize = FALSE` |
| `RepositoryImplementsHistory` | `CheckpointRepoProofs` | `Spec => ImplementsHistory` | `RecoveryMayNotFinalize = FALSE` |
| `RegistryTypeCorrect` | `ProjectRegistryProofs` | `Spec => []TypeOK` | |
| `ClaimsAreHeld` | `ProjectRegistryClaims` | `Spec => []ClaimHoldsWhileWorking` | `MarkerRaces = FALSE` |
| `ClaimsChangeKnowingly` | `ProjectRegistryClaims` | `Spec => ClaimsAreTakenKnowingly` | `MarkerRaces = FALSE` |
| `MarkersChangeKnowingly` | `ProjectRegistryClaims` | `Spec => MarkersAreReplacedKnowingly` | |
| `RegistryIsMatched` | `ProjectRegistryClaims` | `Spec => []RegistryMatchesRepositories` | `SeparateRaces = FALSE` |
| `SeparateInitResumes` | `ProjectRegistryClaims` | `Spec => []SeparateInitCanResume` | `SeparateRaces = FALSE` |
| `SeparateInitAdvances` | `ProjectRegistryClaims` | `Spec => SeparateInitGoesOn` | `SeparateRaces = FALSE` |
| `ScanTypeCorrect` | `WorkingTreeScanProofs` | `Spec => []TypeOK` | |
| `CacheStaysTrue` | `WorkingTreeScanProofs` | `Spec => []CacheIsTrue` | |
| `ScansReadTrue` | `WorkingTreeScanProofs` | `Spec => []ReadingsAreTrue` | |
| `DiffsReportTrue` | `WorkingTreeScanProofs` | `Spec => []DiffsAreTrue` | |
| `ObjectsPublishIntact` | `WorkingTreeScanProofs` | `Spec => []PublishesIntactObjects` | |
| `IndexTypeCorrect` | `CheckpointIndexProofs` | `Spec => []TypeOK` | |
| `NamesBelongToCheckpoints` | `CheckpointIndexProofs` | `Spec => []NamesAreOfCheckpoints` | |
| `IndexStaysExact` | `CheckpointIndexProofs` | `Spec => []CurrentIndexIsExact` | `RecoveryMayNotFinalize = FALSE` |
| `CrashesLeaveIndexCurrent` | `CheckpointIndexProofs` | `Spec => []CrashLeavesIndexCurrent` | `RecoveryMayNotFinalize = FALSE` |
| `AnchoredTypeCorrect` | `AnchoredParentProofs` | `Spec => []TypeOK` | |
| `ReplacementStaysAtomic` | `AnchoredParentProofs` | `Spec => []ReplacementIsAtomic` | |
| `RecoveryAlwaysUnderstands` | `AnchoredParentProofs` | `Spec => []RecoveryUnderstands` | |
| `OthersAlwaysSurvive` | `AnchoredParentProofs` | `Spec => []OthersSurvive` | |
| `TransactionTypeCorrect` | `RestoreTransactionProofs` | `Spec => []TypeOK` | |
| `UserDataIsKept` | `RestoreTransactionProofs` | `Spec => []NoUserDataLost` | `KilledBeforeSync = FALSE` |
| `RollbackIsNeverRefused` | `RestoreTransactionProofs` | `Spec => []RollbackNeverRefuses` | |
| `UnflaggedIsWhole` | `RestoreTransactionProofs` | `Spec => []UnflaggedTreeIsWhole` | `KilledBeforeSync = FALSE` |
| `PlanTypeCorrect` | `OperationPlanProofs` | `Spec => []TypeOK` | |
| `NoFileIsLost` | `OperationPlanProofs` | `Spec => []NoFileLost` | |
| `OutsideScopeIsUntouched` | `OperationPlanProofs` | `Spec => []OutsideScopeUntouched` | |
| `CommitsAsPreviewed` | `OperationPlanProofs` | `Spec => []CommittedAsPreviewed` | |
| `PairsAreKeptTogether` | `OperationPlanProofs` | `Spec => []PairsStayTogether` | |
| `RollsBackWhole` | `OperationPlanProofs` | `Spec => []RolledBackWhole` | |
| `RestoreGoesOn` | `OperationPlanProofs` | `Spec => []UndisturbedRestoreGoesOn` | |

They hold for every value of the constants: any sets of checkpoints, objects and
contents, of processes, folders, ids and storage roots, of paths, times and files of
other programs, and any bounds on calls, edits, scans, writes and users. What is
assumed of the constants: contents are sets of objects (for the scan, pairs of
halves), `None`, `Missing` and `Unreadable` are none of the values they stand
beside, the three files of a replacement are different ones, a project has finitely many
paths and the index finitely many checkpoints and objects, the paths of a plan are
listed in an order in which a folder comes before what is in it, and the bounds are
natural numbers. The last column names a premise where the property is false
without it: each is a race or a failure that the code does not exclude, and the
sections above show what it leads to. Every safety and action property that a passing
run checks is a theorem here.

### The repository

* `TypeInv` adds to `TypeOK` that a journal being driven exists
  (`JournalDriven`) and that an id with a root or a journal has known bytes
  (`BytesKnown`); without these, `[cj EXCEPT ![cur].state = ...]` could be
  applied to `None`.
* `DurableInv` adds to `PublishedIsDurable` where the files of a creation are on
  their way from the scan to the publication (held by the parent, in the
  barrier's batch, or durable), and that a running GC holds only unreferenced
  names. It is needed because the publication step looks at no object: what
  makes it safe happened several steps before. The reuse of objects the parent
  holds without a new sync is safe only because the parent is published, which
  is the invariant itself.
* `ConsistencyInv` says, for each journal state, how far the disk can have got
  (`CreationProgress`, `DeletionProgress`), that the program counter agrees with
  the journal (`CreateStep`, `DeleteStep`), and which journals can be unfinished
  in each phase (`Phase`). `QuiescentConsistency` is its consequence. It needs the
  premise that a recovery finishes what it replays: otherwise two journals can be
  unfinished, and neither says how far the disk has got.
* `DriveInv` is what remains without that premise: a step finds its journal in the
  state it was written for (`JournalAtStep`), and a deletion that a recovery leaves
  behind is past its inventory transition (`EarlyAreSeen`).
* `RestoreInv`: while a restore is pending its target is published and no deletion
  is left that could still unlink a root. The second half is what makes the first
  inductive, since recovery comes before the guard that refuses other work.
* `LineageInv`: who is in the lineage has known bytes, who was removed is gone, and
  what a creation is about to add is new. With the head of the journal compared,
  a replay finds its own record and adds none.
* `RecoveryInv`: which finished journals can be left at which point (`JournalsLeft`),
  and that each can still be decoded: a committed creation's root is there
  (`CreationReadable`), and a deletion's manifest has not been collected
  (`DeletionReadable`). Both fail when a journal may outlive the recovery that met it,
  hence the two premises.
* The refinement maps a creation to the publication of its root and a deletion to
  the write that marks its journal `Staged`. `created` and `older` are read off the
  lineage, with an arriving checkpoint as the youngest. `HistoryInv` says that the
  current checkpoint is the youngest left, that a deletion has chosen the youngest of
  those it leaves, and why its short cut through the parent finds it: among the older
  checkpoints that are left the parent is the youngest (`ParentIsYoungest`). The order
  is a relation in `CheckpointHistory` and not a sequence: a step then adds pairs, and
  no fact about subsequences, which would need induction, comes up.

### The registry

* `RegTypeInv`: types, that ids in markers and pending files have been handed out, and
  `Shape`: what a call has read and chosen by the time it takes a step.
* `LockInv`: locks exclude each other; which of them a call holds at each step; and
  what they protect: the registry read under its lock is the registry
  (`SeenIsCurrent`), the repository about to be named is there (`RepositoryThere`), the
  marker is the one that was compared (`MarkerAsRead`).
* `ClaimInv` adds to `ClaimHoldsWhileWorking` that a call about to name its folder takes
  the project from no folder that has the marker (`TakesFromNoOne`). With the lock of
  the id this is stable from the check to the write, which are steps apart.
* `SeparateInv`, for folders no user has moved: a call knows the pending file as it is
  (`PendingAsKnown`), an id not written anywhere belongs to one call (`FreshIsUnused`),
  and one in a pending file to that folder (`PendingIdIsOwn`). Its conjuncts are mutually
  dependent and have a lemma each, over `CallsAct`, which sums up what any step writes.

### The scan

* `ScanInv`: no version has been given out that is not yet there (`VersionsGiven`), so
  that an edit makes every fingerprint that is kept or cached a stranger to the file;
  and what is read of a file is its content as long as the fingerprint taken before
  still is the file's (`FoundIsTrue`). That is why a second look at the fingerprint is
  enough after two reads, and it makes `CacheIsTrue` inductive.
* `SeenInv`: what is known of a path in each state of its scan was there since the scan
  began. A time seen by the walk and a content seen by the hashing are steps apart;
  that they belong together comes from the second look.
* `ObjectsInv`: an object whose fingerprint is recorded, or about to be, is intact, and
  so is what a creation need not store any more, unless it was damaged since or between
  its reading and its fingerprint.

The steps that read a file share a lemma (`ReadsLearn`): whatever a step learns of a
path, it relates to the file as `Learned` says.

### The index

* `TypeInv` adds to `TypeOK` that a step that writes a journal or the index finds one.
* `NamesInv`: a name without a checkpoint belongs to one whose deletion goes on, as long
  as no removal of a name has failed since the last pruning.
* `ControlInv`: there is at most one journal, none once recovery is over, and its state
  agrees with the step and with the inventory.
* `IndexInv`: the index is never ahead of the inventory, exact when it claims to be
  current (`Claims`), and between its two transactions the rows are those of the set
  before or of the set after (`Creating`, `Deleting`). An update that a recovery
  repeats finds one of the two; this is what makes repeating it harmless, and what
  `RecoveryMayNotFinalize` breaks.
* `KnownStale`: an index that is behind has a journal or a recovery that will see to it.

Reference counts are cardinalities, so that a checkpoint that arrives or goes changes
them by its own occurrences (a fact about disjoint unions). That a set of checkpoints
has a newest one is shown by a minimal counterexample over its finite subsets, as
induction is not available.

### Directory entries

* `PlacesInv`: which platform and operation each step belongs to (`Routes`), what can be
  under the private names in every directory that a power loss may leave (`Places`),
  and what a step finds at its names (`Finds`); on Windows, at the destination too where
  the handle keeps others away.
* `AtomicInv`, while nobody else touches the name: every directory that a power loss may
  leave is one that recovery understands (`AllGood`: the old file and no private one,
  the old file where the record says, or the new file). It is inductive because the
  changes that would mix up are kept apart by a sync (`AfterSync`): before the detach
  the record, before the publication the detach, before the private file goes the
  publication, before the record goes the private file. The same holds for each
  recovery, interrupted or not. `Shielded` adds that the old file is where it was, in
  every such directory, as long as the content of the record is not on disk: so a torn
  record is only found where it is not needed.
* `SurvivalInv`: what others placed is present, and for the removal of a directory, that
  every directory on disk still has it (`OnDisk`) and where it is at each step (`Back`).

What each change of a directory does to the entries and to all that may be on disk is a
lemma of its own (`RenameDoes`, `RemoveDoes`, `CreateDoes`, `SyncDoes`, `ExchangeDoes`).

### Transactions

* `TypeInv` adds to `TypeOK` what the paths a step works on are (`StepsKnow`): those
  still to handle have the operation that the step is for.
* `KeptInv` adds to `NoUserDataLost` that a content has a durable private copy before
  the step that removes it, whichever of the three it is (`RemovalsKept`: the source
  that was backed up, the published file that is set aside, the conflicting file that
  is rescued), and that a copy counts as durable only once its directory was synced
  (`CopiesKept`). That last part is what a kill between the rename and the sync
  breaks, hence the premise. A conflict in the time alone is never removed
  (`TimesOnly`).
* `RollbackInv`, for the paths the user left alone: in the tree and on the disk is the
  file before, the file after, or, for a replacement, nothing, and whatever is not
  before has a durable backup (`InPlace`); then how far the apply and the rollback have
  got with each path (`Applied`, `RolledBack`). The backup is durable because its batch
  is synced before the first source goes (`Batched`). The premise is not needed: what is
  missing from the tree is still in the backup.
* `WholeInv` adds what a power loss could do to it: what is back in place is so on disk
  too, but for the one path whose sync is the next step (`OnDisk`). So when the journal
  says that the transaction ended, disk and tree agree with its goal.

### Plans

* `TypeInv` says of the plan what the preview froze, in terms of the tree it saw
  (`OpsPlanned`, `FoldersPlanned`); from then on no argument looks at how the selection
  was grown. `Kinds` reads off the type of an operation what was there before. That the
  tree stays whole needs only what each change does to a whole tree (`WellFormedPut`,
  `WellFormedEmptied`, `WellFormedMade`, `WellFormedWithout`).
* `FilesInv` adds to `NoFileLost` that a file is backed up once, and that up to the first
  removal, and outside the operations, files are as the user left them.
* `Applied`: how far the apply has got with a path that the user left alone. Only files
  above or below could be in its way, and publishing never replaces one.
* `UndisturbedInv`, while the user does nothing: where anything can be at all (`Placed`),
  which tree each step of the apply makes of the one before (`Forward`), and what each
  step of the rollback leaves for the next (`Backward`). A rollback starts from any tree
  that the first allows, so that a second kill changes nothing.
* `RestoreGoesOn` goes through the checks one by one. `FoldersFit` says why they pass: no
  operation writes a file above another, and a folder in the way holds only what goes with
  it. Folders are removed after those in them and made before them because of the
  order in which the plan lists them (`Folders`: a folder comes before its content in path
  order and after it in deepest-first order). For a discard the argument stops at the
  checks on `.meta` files of folders, where `plan_discard` has its counterexample.

TLC checked each of these invariants on the instances of the runs before it was
proved.

### Only model-checked

Liveness (`JournalsDrain`, `RecoveryCompletes`), which the prover cannot do under
fairness, as nothing with `ENABLED`. Induction over data is out of its reach too, and
so is every module with a `RECURSIVE` operator, which is why the modules here have
none: the closure of a discard's selection is the least set that growing keeps
(`Closure`), and a step takes its next path from a set by its place in the order
(`Item`, `Earlier`).

## Plan

In order of importance:

1. The frozen scope of a discard: that `validate_discard_request_scope` accepts every
   selection that `normalize_discard_selection` makes, but for the cases under
   *Observations*; both are closures, so this needs no induction.
2. A common abstract specification of a transaction, with `RestoreTransaction` and
   `OperationPlan` as two implementations of it.
3. The inventory's set as a path-copied trie, its equality with the set it
   encodes, and the collection of its nodes by GC.
4. Transaction and temporary-file cleanup, with the plan-id protocol of GC.

## Not modelled

Argument parsing and formatting (command line); the frontend and the Tauri
commands, which pass calls and progress on and whose operation slots only repeat
in one window what the core's locks enforce; SQL; the binary codecs of manifests
and snapshots (an id determines its bytes, which is all the properties use);
opening a root and walking to a parent without following links; transaction and
temporary-file cleanup, which remove what ended transactions left;
`storage/atomic_io.rs`, which only tests use. `verify.rs` is a read-only audit of
what the invariants state, and the export of conflicting files copies them
elsewhere before a rescue.
