------------------------- MODULE RestoreTransaction -------------------------
(***************************************************************************)
(* Restore and discard: the transaction that takes a working tree from the *)
(* state it is in to the state of a checkpoint while the user goes on      *)
(* editing, and its recovery: rollback, rescue of conflicting files, and   *)
(* quarantine.                                                             *)
(*                                                                         *)
(* A transaction runs under the repository's exclusive lock, so there is   *)
(* one program counter.  It can end after any step, and the machine can    *)
(* lose power: tree is what a process sees, disk what a power loss leaves. *)
(* The user needs no lock.                                                 *)
(***************************************************************************)
EXTENDS Integers, FiniteSets

CONSTANTS
    Paths,             \* tracked file paths
    Data,              \* file contents
    Times,             \* modification times
    None,              \* "no file", "no path", "no record"
    InitialTrees,      \* the working trees to start from
    Checkpoints,       \* the trees that were checkpointed
    UserFiles,         \* what a user can leave at a path; None deletes
    MaxEdits,          \* bound on the number of edits
    MaxTransactions,   \* bound on the number of transactions
    SameVolume,        \* whether project and repository share a volume
    KilledBeforeSync   \* whether an operation can end, with nothing undone,
                       \* between a rename or unlink and the directory sync
                       \* that follows it in the same helper

File == [data : Data, time : Times]
Tree == [Paths -> File \cup {None}]

ASSUME TransactionAssumption ==
    /\ None \notin Paths
    /\ None \notin File
    /\ InitialTrees \subseteq Tree
    /\ Checkpoints \subseteq Tree
    /\ UserFiles \subseteq File \cup {None}
    /\ MaxEdits \in Nat /\ MaxTransactions \in Nat
    /\ SameVolume \in BOOLEAN
    /\ KilledBeforeSync \in BOOLEAN

VARIABLES
    (* the project directory *)
    tree,       \* the tracked files
    disk,       \* the tracked files a power loss leaves
    held,       \* paths with a file set aside under its recovery name
    heldDisk,   \* ... and what a power loss leaves of them
    (* the repository *)
    state,      \* state of the last transaction's journal
    kind,       \* restore (the whole tree) or discard (chosen paths)
    before,     \* the tree it started from
    after,      \* the tree it leads to
    staged,     \* paths with a staged file
    backup,     \* paths with a backup: absent, volatile or durable
    copies,     \* private copies of files that recovery removes, likewise
    rescue,     \* the active rescue record
    kept,       \* contents with a durable private copy in any transaction
    unresolved, \* whether an unverified quarantine waits for a restore
    (* the operation that holds the lock *)
    pc, work, batch, cur, conflicts,
    remembered, \* the target was verified, the file copied back is still the
                \* copy, or a quarantine was unresolved before
    (* for the properties *)
    mine,       \* what the user last left at each path
    touched,    \* paths that others than the transaction may have changed
    goal,       \* the tree the transaction should leave
    edits,      \* number of edits so far
    begun       \* number of transactions so far

project == <<tree, disk, held, heldDisk>>
journal == <<state, kind, before, after>>
payload == <<staged, backup, copies, rescue, kept>>
control == <<pc, work, batch, cur, conflicts, remembered>>
ghost   == <<mine, touched, goal, edits, begun>>
vars    == <<project, journal, payload, unresolved, control, ghost>>

-----------------------------------------------------------------------------
(* Types. *)

Disk == {"absent", "volatile", "durable"}

(* "Missing" is a transaction directory without a journal. *)
JournalState ==
    {"None", "Missing", "Created", "Staged", "Applying", "Committed", "Recovered"}

(* A private copy is named by its directory and its content. *)
Copy == {"recovery-after", "rescue"} \X Data

RecoveryRescueRecord ==
    [state : {"Prepared", "Resolving", "Recovered"}, entries : Tree,
     done : SUBSET Paths]

ASSUME NoRecordAssumption == None \notin RecoveryRescueRecord

ApplySteps == {"journal", "stage", "markStaged", "recheck", "markApplying",
               "backup", "unlink", "publish", "verify", "commit", "finish"}

(* The window between a rename or unlink and its directory sync. *)
SyncSteps == {"syncAfterCopy", "syncHold", "syncDrop", "syncLeftover", "syncBack",
              "syncRescueCopy", "syncRescue"}

RollbackSteps == {"removeAfter", "hold", "dropHeld", "dropLeftover",
                  "restoreBefore", "recoverTimes",
                  "dropStaged", "markRecovered", "closeRescue"}

RescueSteps == {"rescueCopy", "startResolve", "resolve", "completeEntry"}

Steps == {"idle", "moveJournal"} \cup ApplySteps \cup SyncSteps
         \cup RollbackSteps \cup RescueSteps

TypeOK ==
    /\ tree \in Tree /\ disk \in Tree
    /\ held \subseteq Paths /\ heldDisk \subseteq Paths
    /\ state \in JournalState
    /\ kind \in {"restore", "discard"}
    /\ before \in Tree /\ after \in Tree
    /\ staged \subseteq Paths
    /\ backup \in [Paths -> Disk]
    /\ copies \in [Copy -> Disk]
    /\ rescue \in RecoveryRescueRecord \cup {None}
    /\ kept \subseteq Data
    /\ unresolved \in BOOLEAN
    /\ pc \in Steps
    /\ work \subseteq Paths /\ batch \subseteq Paths
    /\ cur \in Paths \cup {None}
    /\ conflicts \in Tree
    /\ remembered \in BOOLEAN
    /\ mine \in [Paths -> Data \cup {None}]
    /\ touched \subseteq Paths
    /\ goal \in Tree
    /\ edits \in 0..MaxEdits /\ begun \in 0..MaxTransactions

NoFiles == [p \in Paths |-> None]

Init ==
    /\ tree \in InitialTrees /\ disk = tree /\ held = {} /\ heldDisk = {}
    /\ state = "None" /\ kind = "restore" /\ before = tree /\ after = tree
    /\ staged = {} /\ backup = [p \in Paths |-> "absent"]
    /\ copies = [c \in Copy |-> "absent"]
    /\ rescue = None /\ kept = {} /\ unresolved = FALSE
    /\ pc = "idle" /\ work = {} /\ batch = {} /\ cur = None
    /\ conflicts = NoFiles /\ remembered = FALSE
    /\ mine = [p \in Paths |-> IF tree[p] = None THEN None ELSE tree[p].data]
    /\ touched = {} /\ goal = tree /\ edits = 0 /\ begun = 0

-----------------------------------------------------------------------------
(* Helpers. *)

Ops == {p \in Paths : before[p] # after[p]}

SameData(f, g) == f # None /\ g # None /\ f.data = g.data

(* The type of an operation follows from the two states of its path. *)
RestoreOps == {p \in Ops : before[p] = None}
DeleteOps  == {p \in Ops : after[p] = None}
MetaOps    == {p \in Ops : SameData(before[p], after[p])}
ReplaceOps == Ops \ (RestoreOps \cup DeleteOps \cup MetaOps)

StagedOps == RestoreOps \cup ReplaceOps
BackupOps == DeleteOps \cup ReplaceOps

Pending == state \notin {"None", "Committed", "Recovered"}

Goto(step) == pc' = step /\ UNCHANGED <<work, batch, cur, conflicts, remembered>>

GotoWith(step, todo) ==
    /\ pc' = step /\ work' = todo /\ cur' = None
    /\ UNCHANGED <<batch, conflicts, remembered>>

(* One path of the phase is done. *)
Done(p) == work' = work \ {p} /\ UNCHANGED <<pc, batch, cur, conflicts, remembered>>

Forget ==
    /\ pc' = "idle" /\ work' = {} /\ batch' = {} /\ cur' = None
    /\ conflicts' = NoFiles /\ remembered' = FALSE

(* Paths at which a quarantined transaction left a change that no one has  *)
(* synced: a power loss may still undo it.                                 *)
Unsettled == {p \in Paths : tree[p] # disk[p]}

(* A directory sync: what a process sees at these paths is on disk. *)
Settle(P) == disk' = [p \in Paths |-> IF p \in P THEN tree[p] ELSE disk[p]]

(* Setting a time syncs the file, not the directory entry that names it.   *)
SetMtime(p, f) ==
    /\ tree' = [tree EXCEPT ![p] = f]
    /\ disk' = [disk EXCEPT ![p] = IF SameData(@, f) THEN f ELSE @]
    /\ UNCHANGED <<held, heldDisk>>

-----------------------------------------------------------------------------
(* Applying a plan: apply_plan_once. *)

(* The plan is computed under the lock, so it starts from the tree there   *)
(* is; the directories of the transaction exist before its journal does.   *)
Begin(k, target) ==
    /\ pc = "idle"
    /\ ~Pending
    /\ begun < MaxTransactions
    /\ k = "discard" => ~unresolved
    /\ target # tree
    /\ state' = "Missing" /\ kind' = k /\ before' = tree /\ after' = target
    /\ staged' = {} /\ backup' = [p \in Paths |-> "absent"]
    /\ copies' = [c \in Copy |-> "absent"] /\ rescue' = None
    /\ goal' = tree /\ touched' = Unsettled /\ begun' = begun + 1
    /\ Goto("journal")
    /\ UNCHANGED <<project, kept, unresolved, mine, edits>>

BeginRestore == \E target \in Checkpoints : Begin("restore", target)

BeginDiscard ==
    \E target \in Checkpoints, chosen \in SUBSET Paths :
        Begin("discard", [p \in Paths |-> IF p \in chosen THEN target[p] ELSE tree[p]])

(* A restore of a checkpoint the tree already equals only resolves         *)
(* quarantines.                                                            *)
RestoreWithoutChange ==
    /\ pc = "idle"
    /\ ~Pending
    /\ unresolved
    /\ tree \in Checkpoints
    /\ unresolved' = FALSE
    /\ goal' = tree /\ touched' = Unsettled
    /\ UNCHANGED <<project, journal, payload, control, mine, edits, begun>>

MarkJournal(at, s, next) ==
    /\ pc = at
    /\ state' = s
    /\ Goto(next)
    /\ UNCHANGED <<project, kind, before, after, payload, unresolved, ghost>>

WriteJournal == MarkJournal("journal", "Created", "stage")

(* Staging is private to the transaction until the barrier that ends it.   *)
StageOperations ==
    /\ pc = "stage"
    /\ staged' = StagedOps
    /\ Goto("markStaged")
    /\ UNCHANGED <<project, journal, backup, copies, rescue, kept, unresolved, ghost>>

MarkStaged == MarkJournal("markStaged", "Staged", "recheck")

RecheckPreconditions ==
    /\ pc = "recheck"
    /\ \A p \in Ops : tree[p] = before[p]
    /\ Goto("markApplying")
    /\ UNCHANGED <<project, journal, payload, unresolved, ghost>>

MarkApplying ==
    /\ pc = "markApplying"
    /\ state' = "Applying"
    /\ IF BackupOps = {} THEN GotoWith("publish", StagedOps \cup MetaOps)
                         ELSE GotoWith("backup", BackupOps)
    /\ UNCHANGED <<project, kind, before, after, payload, unresolved, ghost>>

(* Any error or cancellation up to here ends the transaction: nothing of   *)
(* the project was changed.                                                *)
AbortPrepare ==
    /\ pc \in {"stage", "markStaged", "recheck", "markApplying"}
    /\ state' = "Recovered"
    /\ staged' \in {staged, {}}
    /\ Forget
    /\ UNCHANGED <<project, kind, before, after, backup, copies, rescue, kept,
                   unresolved, ghost>>

(* A batch of files is backed up, the backups are synced, and only then    *)
(* are the sources removed.                                                *)
BackupProjectFile(p) ==
    /\ pc = "backup"
    /\ p \in work
    /\ tree[p] = before[p]
    /\ backup' = [backup EXCEPT ![p] = "volatile"]
    /\ work' = work \ {p} /\ batch' = batch \cup {p}
    /\ UNCHANGED <<project, journal, staged, copies, rescue, kept, unresolved,
                   pc, cur, conflicts, remembered, ghost>>

(* As FlushBackups, but the batch is never synced. *)
FlushBackupsSkipped ==
    /\ pc = "backup"
    /\ batch # {}
    /\ kept' = kept \cup {before[p].data : p \in batch}
    /\ Goto("unlink")
    /\ UNCHANGED <<project, journal, staged, backup, copies, rescue, unresolved, ghost>>

FlushBackups ==
    /\ pc = "backup"
    /\ batch # {}
    /\ backup' = [p \in Paths |-> IF p \in batch THEN "durable" ELSE backup[p]]
    /\ kept' = kept \cup {before[p].data : p \in batch}
    /\ Goto("unlink")
    /\ UNCHANGED <<project, journal, staged, copies, rescue, unresolved, ghost>>

(* As RemoveBackupSource, but the version is not compared again. *)
RemoveBackupSourceUnchecked(p) ==
    /\ pc = "unlink"
    /\ p \in batch
    /\ tree' = [tree EXCEPT ![p] = None]
    /\ batch' = batch \ {p}
    /\ UNCHANGED <<disk, held, heldDisk, journal, payload, unresolved,
                   pc, work, cur, conflicts, remembered, ghost>>

(* The version taken when the file was hashed must still be the file's.    *)
RemoveBackupSource(p) ==
    /\ pc = "unlink"
    /\ p \in batch
    /\ tree[p] = before[p]
    /\ tree' = [tree EXCEPT ![p] = None]
    /\ batch' = batch \ {p}
    /\ UNCHANGED <<disk, held, heldDisk, journal, payload, unresolved,
                   pc, work, cur, conflicts, remembered, ghost>>

FlushBackupSources ==
    /\ pc = "unlink"
    /\ batch = {}
    /\ Settle(BackupOps \ work)
    /\ IF work = {} THEN GotoWith("publish", StagedOps \cup MetaOps) ELSE Goto("backup")
    /\ UNCHANGED <<tree, held, heldDisk, journal, payload, unresolved, ghost>>

(* As PublishStagedFile, but the time of the target is not set. *)
PublishWithoutMtime(p) ==
    /\ pc = "publish"
    /\ p \in work \cap StagedOps
    /\ p \in staged
    /\ tree[p] = None
    /\ tree' = [tree EXCEPT ![p] = [data |-> after[p].data, time |-> None]]
    /\ staged' = IF SameVolume THEN staged \ {p} ELSE staged
    /\ Done(p)
    /\ UNCHANGED <<disk, held, heldDisk, journal, backup, copies, rescue, kept,
                   unresolved, ghost>>

(* A staged file is renamed, never over a file that is there.  Across      *)
(* volumes it is copied, and the staged file stays until the commit.       *)
PublishStagedFile(p) ==
    /\ pc = "publish"
    /\ p \in work \cap StagedOps
    /\ p \in staged
    /\ tree[p] = None
    /\ tree' = [tree EXCEPT ![p] = after[p]]
    /\ staged' = IF SameVolume THEN staged \ {p} ELSE staged
    /\ Done(p)
    /\ UNCHANGED <<disk, held, heldDisk, journal, backup, copies, rescue, kept,
                   unresolved, ghost>>

SetProjectFileMtime(p) ==
    /\ pc = "publish"
    /\ p \in work \cap MetaOps
    /\ tree[p] = before[p]
    /\ SetMtime(p, after[p])
    /\ Done(p)
    /\ UNCHANGED <<journal, payload, unresolved, ghost>>

FlushPublished ==
    /\ pc = "publish"
    /\ work = {}
    /\ Settle(StagedOps)
    /\ Goto("verify")
    /\ UNCHANGED <<tree, held, heldDisk, journal, payload, unresolved, ghost>>

(* Only a restore can resolve quarantines, and only if the whole tree is   *)
(* the checkpoint's.                                                       *)
VerifyQuarantineTarget ==
    /\ pc = "verify"
    /\ pc' = "commit"
    /\ remembered' = (kind = "restore" /\ unresolved /\ tree = after)
    /\ UNCHANGED <<project, journal, payload, unresolved, work, batch, cur,
                   conflicts, ghost>>

Commit ==
    /\ pc = "commit"
    /\ state' = "Committed"
    /\ goal' = after
    /\ Goto("finish")
    /\ UNCHANGED <<project, kind, before, after, payload, unresolved, mine,
                   touched, edits, begun>>

(* Staged leftovers and quarantines: an error is only a warning.           *)
FinishApply ==
    /\ pc = "finish"
    /\ staged' \in {staged, {}}
    /\ unresolved' \in {unresolved, unresolved /\ ~remembered}
    /\ Forget
    /\ UNCHANGED <<project, journal, backup, copies, rescue, kept, ghost>>

-----------------------------------------------------------------------------
(* Rollback: recover_one. *)

(* In state Staged nothing was published yet, and only a file that already *)
(* has the content of its target without having been staged points to the  *)
(* contrary: this is so of every operation that sets only a time.          *)
TransactionNeedsRollback ==
    \/ state = "Applying"
    \/ \E p \in Paths : backup[p] # "absent"
    \/ state = "Staged" /\ \E p \in Ops \ staged : SameData(tree[p], after[p])

EnterRollback ==
    IF TransactionNeedsRollback THEN GotoWith("removeAfter", StagedOps)
                                ELSE GotoWith("dropStaged", {})

RescueActive == rescue # None /\ rescue.state # "Recovered"

Recover ==
    /\ pc = "idle"
    /\ Pending
    /\ state # "Missing"
    /\ IF RescueActive THEN Goto("startResolve") ELSE EnterRollback
    /\ UNCHANGED <<project, journal, payload, unresolved, ghost>>

(* Files the transaction published are removed, each after a private copy  *)
(* was made and under a recovery name first.                               *)
AfterConflict(p) ==
    /\ p \notin held
    /\ tree[p] # None
    /\ ~SameData(tree[p], after[p]) /\ ~SameData(tree[p], before[p])

NotPublished(p) ==
    /\ pc = "removeAfter"
    /\ p \in work \ held
    /\ tree[p] = None \/ (SameData(tree[p], before[p]) /\ ~SameData(tree[p], after[p]))
    /\ Done(p)
    /\ UNCHANGED <<project, journal, payload, unresolved, ghost>>

(* As PreserveAfterFile, but blind to the leftover of an earlier recovery. *)
PreserveAfterFileFresh(p) ==
    LET copy == <<"recovery-after", after[p].data>>
    IN  /\ pc = "removeAfter"
        /\ p \in work \ held
        /\ SameData(tree[p], after[p])
        /\ cur' = p
        /\ IF copies[copy] = "absent"
           THEN copies' = [copies EXCEPT ![copy] = "volatile"] /\ pc' = "syncAfterCopy"
           ELSE UNCHANGED copies /\ pc' = "hold"
        /\ UNCHANGED <<project, journal, staged, backup, rescue, kept, unresolved,
                       work, batch, conflicts, remembered, ghost>>

(* preserve_after_file_for_recovery takes an existing copy as it is.       *)
PreserveAfterFile(p) ==
    LET copy == <<"recovery-after", after[p].data>>
        next == IF p \in held THEN "dropLeftover" ELSE "hold"
    IN  /\ pc = "removeAfter"
        /\ p \in work
        /\ p \in held \/ SameData(tree[p], after[p])
        /\ cur' = p
        /\ IF copies[copy] = "absent"
           THEN copies' = [copies EXCEPT ![copy] = "volatile"] /\ pc' = "syncAfterCopy"
           ELSE UNCHANGED copies /\ pc' = next
        /\ UNCHANGED <<project, journal, staged, backup, rescue, kept, unresolved,
                       work, batch, conflicts, remembered, ghost>>

(* The private copy that was just renamed into place. *)
FreshCopy == IF pc = "syncAfterCopy" THEN <<"recovery-after", after[cur].data>>
                                     ELSE <<"rescue", conflicts[cur].data>>

SyncAfterCopy ==
    /\ pc = "syncAfterCopy"
    /\ copies' = [copies EXCEPT ![FreshCopy] = "durable"]
    /\ kept' = kept \cup {after[cur].data}
    /\ Goto(IF cur \in held THEN "dropLeftover" ELSE "hold")
    /\ UNCHANGED <<project, journal, staged, backup, rescue, unresolved, ghost>>

(* Its sync fails, for a rollback or a rescue: the copy is removed again.  *)
DiscardFreshCopy ==
    /\ pc \in {"syncAfterCopy", "syncRescueCopy"}
    /\ copies' = [copies EXCEPT ![FreshCopy] = "absent"]
    /\ Forget
    /\ UNCHANGED <<project, journal, staged, backup, rescue, kept, unresolved, ghost>>

HoldAfterFile ==
    /\ pc = "hold"
    /\ SameData(tree[cur], after[cur])
    /\ tree' = [tree EXCEPT ![cur] = None]
    /\ held' = held \cup {cur}
    /\ Goto("syncHold")
    /\ UNCHANGED <<disk, heldDisk, journal, payload, unresolved, ghost>>

SyncHold ==
    /\ pc = "syncHold"
    /\ Settle({cur})
    /\ heldDisk' = heldDisk \cup {cur}
    /\ Goto("dropHeld")
    /\ UNCHANGED <<tree, held, journal, payload, unresolved, ghost>>

DropHeld ==
    /\ pc \in {"dropHeld", "dropLeftover"}
    /\ held' = held \ {cur}
    /\ Goto(IF pc = "dropHeld" THEN "syncDrop" ELSE "syncLeftover")
    /\ UNCHANGED <<tree, disk, heldDisk, journal, payload, unresolved, ghost>>

(* After a leftover of an earlier recovery the path itself is looked at.   *)
SyncDrop ==
    /\ pc \in {"syncDrop", "syncLeftover"}
    /\ Settle({cur})
    /\ heldDisk' = heldDisk \ {cur}
    /\ GotoWith("removeAfter", IF pc = "syncDrop" THEN work \ {cur} ELSE work)
    /\ UNCHANGED <<tree, held, journal, payload, unresolved, ghost>>

AfterFilesRemoved ==
    /\ pc = "removeAfter"
    /\ work = {}
    /\ GotoWith("restoreBefore", BackupOps)
    /\ UNCHANGED <<project, journal, payload, unresolved, ghost>>

(* recover_before_file: the file is still there, or its backup is.         *)
BeforeUnavailable(p) ==
    IF tree[p] = None THEN backup[p] = "absent" ELSE ~SameData(tree[p], before[p])

KeepBeforeFile(p) ==
    /\ pc = "restoreBefore"
    /\ p \in work
    /\ SameData(tree[p], before[p])
    /\ SetMtime(p, before[p])
    /\ Done(p)
    /\ UNCHANGED <<journal, payload, unresolved, ghost>>

CopyBackupFile(p) ==
    /\ pc = "restoreBefore"
    /\ p \in work
    /\ tree[p] = None
    /\ backup[p] # "absent"
    /\ tree' = [tree EXCEPT ![p] = before[p]]
    /\ pc' = "syncBack" /\ cur' = p /\ remembered' = TRUE
    /\ UNCHANGED <<disk, held, heldDisk, journal, payload, unresolved,
                   work, batch, conflicts, ghost>>

SyncBackupCopy ==
    /\ pc = "syncBack"
    /\ Settle({cur})
    /\ pc' = "restoreBefore" /\ work' = work \ {cur} /\ cur' = None
    /\ remembered' = FALSE
    /\ UNCHANGED <<tree, held, heldDisk, journal, payload, unresolved,
                   batch, conflicts, ghost>>

(* The sync fails, before or after it reached the disk, and the file is    *)
(* removed again unless the user has replaced it.                          *)
DiscardBackupCopy ==
    /\ pc = "syncBack"
    /\ tree' = IF remembered THEN [tree EXCEPT ![cur] = None] ELSE tree
    /\ disk' \in {disk, [disk EXCEPT ![cur] = tree[cur]]}
    /\ Forget
    /\ UNCHANGED <<held, heldDisk, journal, payload, unresolved, ghost>>

BeforeFilesRestored ==
    /\ pc = "restoreBefore"
    /\ work = {}
    /\ GotoWith("recoverTimes", MetaOps)
    /\ UNCHANGED <<project, journal, payload, unresolved, ghost>>

TimeConflict(p) ==
    \/ ~SameData(tree[p], before[p])
    \/ tree[p].time \notin {before[p].time, after[p].time}

RecoverProjectFileMtime(p) ==
    /\ pc = "recoverTimes"
    /\ p \in work
    /\ ~TimeConflict(p)
    /\ SetMtime(p, before[p])
    /\ Done(p)
    /\ UNCHANGED <<journal, payload, unresolved, ghost>>

EnsureBeforeStateRestored ==
    /\ pc = "recoverTimes"
    /\ work = {}
    /\ \A p \in Ops : tree[p] = before[p]
    /\ Goto("dropStaged")
    /\ UNCHANGED <<project, journal, payload, unresolved, ghost>>

DropStaged ==
    /\ pc = "dropStaged"
    /\ staged' = {}
    /\ Goto("markRecovered")
    /\ UNCHANGED <<project, journal, backup, copies, rescue, kept, unresolved, ghost>>

MarkRecovered ==
    /\ pc = "markRecovered"
    /\ state' = "Recovered"
    /\ IF RescueActive THEN Goto("closeRescue") ELSE Forget
    /\ UNCHANGED <<project, kind, before, after, payload, unresolved, ghost>>

CloseRescue ==
    /\ pc = "closeRescue"
    /\ rescue' = [rescue EXCEPT !.state = "Recovered"]
    /\ Forget
    /\ UNCHANGED <<project, journal, staged, backup, copies, kept, unresolved, ghost>>

-----------------------------------------------------------------------------
(* Rescue: recover_transaction_with_conflict_export.  The plan the user    *)
(* confirmed must be the one of this moment, so the conflicts are those of *)
(* the tree.                                                               *)

Conflicting(p) ==
    /\ tree[p] # None
    /\ \/ p \in RestoreOps /\ ~SameData(tree[p], after[p])
       \/ p \in ReplaceOps /\ ~SameData(tree[p], before[p]) /\ ~SameData(tree[p], after[p])
       \/ p \in DeleteOps /\ ~SameData(tree[p], before[p])
       \/ p \in MetaOps /\ tree[p].time \notin {before[p].time, after[p].time}

AnalyzableConflicts == \A p \in MetaOps : SameData(tree[p], before[p])

BeginRescue ==
    LET found == {p \in Ops : Conflicting(p)}
    IN  /\ pc = "idle"
        /\ Pending
        /\ state # "Missing"
        /\ AnalyzableConflicts
        /\ found # {}
        /\ pc' = "rescueCopy"
        /\ work' = found \ MetaOps
        /\ conflicts' = [p \in Paths |-> IF p \in found THEN tree[p] ELSE None]
        /\ UNCHANGED <<project, journal, payload, unresolved, batch, cur, remembered, ghost>>

PreserveConflict(p) ==
    LET copy == <<"rescue", conflicts[p].data>>
    IN  /\ pc = "rescueCopy"
        /\ p \in work
        /\ tree[p] = conflicts[p]
        /\ IF copies[copy] = "absent"
           THEN /\ copies' = [copies EXCEPT ![copy] = "volatile"]
                /\ pc' = "syncRescueCopy" /\ cur' = p
                /\ UNCHANGED work
           ELSE /\ work' = work \ {p}
                /\ UNCHANGED <<copies, pc, cur>>
        /\ UNCHANGED <<project, journal, staged, backup, rescue, kept, unresolved,
                       batch, conflicts, remembered, ghost>>

SyncRescueCopy ==
    /\ pc = "syncRescueCopy"
    /\ copies' = [copies EXCEPT ![FreshCopy] = "durable"]
    /\ kept' = kept \cup {conflicts[cur].data}
    /\ GotoWith("rescueCopy", work \ {cur})
    /\ UNCHANGED <<project, journal, staged, backup, rescue, unresolved, ghost>>

WriteRescueRecord ==
    /\ pc = "rescueCopy"
    /\ work = {}
    /\ \A p \in Paths : conflicts[p] # None => tree[p] = conflicts[p]
    /\ rescue' = [state |-> "Prepared", entries |-> conflicts, done |-> {}]
    /\ Goto("startResolve")
    /\ UNCHANGED <<project, journal, staged, backup, copies, kept, unresolved, ghost>>

Entries == {p \in Paths : rescue.entries[p] # None}

(* verify_recovery_rescue_payload: every copy must be there. *)
StartResolve ==
    /\ pc = "startResolve"
    /\ \A p \in Entries \ MetaOps : copies[<<"rescue", rescue.entries[p].data>>] # "absent"
    /\ rescue' = [rescue EXCEPT !.state = "Resolving"]
    /\ GotoWith("resolve", Entries \ rescue.done)
    /\ UNCHANGED <<project, journal, staged, backup, copies, kept, unresolved, ghost>>

(* A file that is gone was removed by an earlier attempt.                  *)
EntryResolved(p) ==
    /\ pc = "resolve"
    /\ p \in work
    /\ tree[p] = before[p] \/ (p \notin MetaOps /\ tree[p] = None)
    /\ pc' = "completeEntry" /\ cur' = p
    /\ UNCHANGED <<project, journal, payload, unresolved, work, batch, conflicts,
                   remembered, ghost>>

ResetConflictTime(p) ==
    /\ pc = "resolve"
    /\ p \in work \cap MetaOps
    /\ tree[p] # before[p] /\ tree[p] = rescue.entries[p]
    /\ SetMtime(p, before[p])
    /\ pc' = "completeEntry" /\ cur' = p
    /\ UNCHANGED <<journal, payload, unresolved, work, batch, conflicts, remembered, ghost>>

RemoveConflict(p) ==
    /\ pc = "resolve"
    /\ p \in work \ MetaOps
    /\ tree[p] # before[p] /\ tree[p] = rescue.entries[p]
    /\ tree' = [tree EXCEPT ![p] = None]
    /\ pc' = "syncRescue" /\ cur' = p
    /\ UNCHANGED <<disk, held, heldDisk, journal, payload, unresolved, work, batch,
                   conflicts, remembered, ghost>>

SyncConflictRemoval ==
    /\ pc = "syncRescue"
    /\ Settle({cur})
    /\ Goto("completeEntry")
    /\ UNCHANGED <<tree, held, heldDisk, journal, payload, unresolved, ghost>>

CompleteEntry ==
    /\ pc = "completeEntry"
    /\ rescue' = [rescue EXCEPT !.done = @ \cup {cur}]
    /\ GotoWith("resolve", work \ {cur})
    /\ UNCHANGED <<project, journal, staged, backup, copies, kept, unresolved, ghost>>

ConflictsResolved ==
    /\ pc = "resolve"
    /\ work = {}
    /\ EnterRollback
    /\ UNCHANGED <<project, journal, payload, unresolved, ghost>>

-----------------------------------------------------------------------------
(* Quarantine: the record is written first, then the directory is moved.   *)

(* As VerifiedInBeforeState, but only files with a backup are compared. *)
VerifiedWhereBackedUp == state # "Missing" /\ \A p \in BackupOps : tree[p] = before[p]

VerifiedInBeforeState == state # "Missing" /\ \A p \in Ops : tree[p] = before[p]

WriteQuarantineRecord(flag) ==
    /\ unresolved' = (unresolved \/ flag)
    /\ pc' = "moveJournal" /\ remembered' = unresolved
    /\ UNCHANGED <<project, journal, payload, work, batch, cur, conflicts, ghost>>

QuarantineTransaction ==
    /\ pc = "idle"
    /\ Pending
    /\ WriteQuarantineRecord(~VerifiedInBeforeState)

(* A recovery does the same to a transaction without a journal.            *)
QuarantineUnknownTransaction ==
    /\ pc = "idle"
    /\ state = "Missing"
    /\ WriteQuarantineRecord(TRUE)

MoveJournal ==
    /\ pc = "moveJournal"
    /\ state' = "None"
    /\ Forget
    /\ UNCHANGED <<project, kind, before, after, payload, unresolved, ghost>>

(* The record is removed again, or it is not; a directory that was moved   *)
(* without a record counts as unresolved.                                  *)
MoveJournalFails ==
    /\ pc = "moveJournal"
    /\ \/ state' = state /\ unresolved' \in {unresolved, remembered}
       \/ state' = "None" /\ unresolved' = TRUE
    /\ Forget
    /\ UNCHANGED <<project, kind, before, after, payload, ghost>>

-----------------------------------------------------------------------------
(* The surroundings. *)

(* The user edits, touches or deletes a file; the edit itself is durable.  *)
UserEdit(p, f) ==
    /\ edits < MaxEdits
    /\ f # tree[p]
    /\ tree' = [tree EXCEPT ![p] = f]
    /\ disk' = [disk EXCEPT ![p] = f]
    /\ mine' = [mine EXCEPT ![p] = IF f = None THEN None ELSE f.data]
    /\ touched' = touched \cup {p}
    /\ edits' = edits + 1
    /\ remembered' = (remembered /\ ~(pc = "syncBack" /\ p = cur))
    /\ UNCHANGED <<held, heldDisk, journal, payload, unresolved, pc, work, batch, cur,
                   conflicts, goal, begun>>

(* The operation ends: it fails, is cancelled or is killed. *)
Release ==
    /\ pc # "idle"
    /\ pc \in SyncSteps => KilledBeforeSync
    /\ Forget
    /\ UNCHANGED <<project, journal, payload, unresolved, ghost>>

(* Of every change that was not synced, the old or the new state is left.  *)
LosePower(lost, lostBackups, lostCopies) ==
    /\ tree' = [p \in Paths |-> IF p \in lost THEN disk[p] ELSE tree[p]]
    /\ held' = {p \in Paths : IF p \in lost THEN p \in heldDisk ELSE p \in held}
    /\ disk' = tree' /\ heldDisk' = held'
    /\ backup' = [p \in Paths |-> IF backup[p] # "volatile" THEN backup[p]
                                  ELSE IF p \in lostBackups THEN "absent" ELSE "durable"]
    /\ copies' = [c \in Copy |-> IF copies[c] # "volatile" THEN copies[c]
                                 ELSE IF c \in lostCopies THEN "absent" ELSE "durable"]
    /\ kept' = kept \cup {before[p].data : p \in {q \in Paths : backup'[q] = "durable"}}
                    \cup {c[2] : c \in {d \in Copy : copies'[d] = "durable"}}
    /\ Forget
    /\ UNCHANGED <<journal, staged, rescue, unresolved, ghost>>

PowerLoss ==
    \E lost \in SUBSET {p \in Paths : tree[p] # disk[p] \/ (p \in held) # (p \in heldDisk)},
       lostBackups \in SUBSET {p \in Paths : backup[p] = "volatile"},
       lostCopies \in SUBSET {c \in Copy : copies[c] = "volatile"} :
        LosePower(lost, lostBackups, lostCopies)

-----------------------------------------------------------------------------
Prepare ==
    \/ BeginRestore \/ BeginDiscard \/ RestoreWithoutChange
    \/ WriteJournal \/ StageOperations \/ MarkStaged \/ RecheckPreconditions
    \/ MarkApplying \/ AbortPrepare

Apply ==
    \/ \E p \in Paths : BackupProjectFile(p) \/ RemoveBackupSource(p)
    \/ FlushBackups \/ FlushBackupSources
    \/ \E p \in Paths : PublishStagedFile(p) \/ SetProjectFileMtime(p)
    \/ FlushPublished \/ VerifyQuarantineTarget \/ Commit \/ FinishApply

Rollback ==
    \/ Recover
    \/ \E p \in Paths : NotPublished(p) \/ PreserveAfterFile(p)
    \/ SyncAfterCopy \/ DiscardFreshCopy
    \/ HoldAfterFile \/ SyncHold \/ DropHeld \/ SyncDrop
    \/ AfterFilesRemoved
    \/ \E p \in Paths : KeepBeforeFile(p) \/ CopyBackupFile(p)
    \/ SyncBackupCopy \/ DiscardBackupCopy \/ BeforeFilesRestored
    \/ \E p \in Paths : RecoverProjectFileMtime(p)
    \/ EnsureBeforeStateRestored \/ DropStaged \/ MarkRecovered \/ CloseRescue

Rescue ==
    \/ BeginRescue
    \/ \E p \in Paths : PreserveConflict(p)
    \/ SyncRescueCopy \/ WriteRescueRecord \/ StartResolve
    \/ \E p \in Paths : EntryResolved(p) \/ ResetConflictTime(p) \/ RemoveConflict(p)
    \/ SyncConflictRemoval \/ CompleteEntry \/ ConflictsResolved

Quarantine ==
    \/ QuarantineTransaction \/ QuarantineUnknownTransaction
    \/ MoveJournal \/ MoveJournalFails

User == \E p \in Paths, f \in UserFiles : UserEdit(p, f)

Next == Prepare \/ Apply \/ Rollback \/ Rescue \/ Quarantine \/ User \/ Release \/ PowerLoss

Spec == Init /\ [][Next]_vars

(* A recovery is cut short. *)
Interruption == Pending' /\ pc # "idle" /\ pc' = "idle"

(* Recovery keeps being tried, it runs on, and interruptions end.          *)
Fairness ==
    /\ WF_vars(Rollback \/ QuarantineUnknownTransaction \/ MoveJournal)
    /\ WF_vars((Prepare \/ Apply \/ Rescue) /\ pc # "idle")
    /\ <>[][~Interruption]_vars

FairSpec == Spec /\ Fairness

-----------------------------------------------------------------------------
(* Properties. *)

(* What the user last left at a path is still there, on disk as well, or   *)
(* has a durable private copy: no restore, rollback or rescue loses it,    *)
(* whatever the user does in between and wherever it is cut short.         *)
NoUserDataLost ==
    \A p \in Paths :
        mine[p] # None =>
            \/ mine[p] \in kept
            \/ /\ tree[p] # None /\ tree[p].data = mine[p]
               /\ disk[p] # None /\ disk[p].data = mine[p]

(* When no transaction is pending and no quarantine is flagged, the tree   *)
(* is the one before or the one after the last transaction, on disk as     *)
(* well, except where the user edited it.                                  *)
UnflaggedTreeIsWhole ==
    ~Pending /\ ~unresolved =>
        \A p \in Paths \ touched : tree[p] = goal[p] /\ disk[p] = goal[p]

(* Rollback refuses a path only if the user edited it. *)
RollbackNeverRefuses ==
    /\ pc = "removeAfter" => \A p \in work \ touched : ~AfterConflict(p)
    /\ pc = "hold" /\ cur \notin touched => SameData(tree[cur], after[cur])
    /\ pc = "restoreBefore" => \A p \in work \ touched : ~BeforeUnavailable(p)
    /\ pc = "recoverTimes" => \A p \in work \ touched : ~TimeConflict(p)
    /\ pc = "recoverTimes" /\ work = {} => \A p \in Ops \ touched : tree[p] = before[p]

(* An interrupted transaction the user did not interfere with is           *)
(* eventually rolled back, or quarantined if it never got its journal.     *)
RecoveryCompletes == Pending ~> (~Pending \/ touched # {})

=============================================================================
