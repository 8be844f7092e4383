---------------------- MODULE RestoreTransactionProofs ----------------------
(***************************************************************************)
(* Proofs about RestoreTransaction, for any project, any checkpoints, and  *)
(* any number of edits and transactions.                                   *)
(***************************************************************************)
EXTENDS RestoreTransaction, TLAPS

-----------------------------------------------------------------------------
(* The inductive invariants. *)

(* The steps that remove one file the transaction published. *)
RemovingOne == {"syncAfterCopy", "hold", "syncHold", "dropHeld", "syncDrop",
                "dropLeftover", "syncLeftover"}
Removing == {"removeAfter"} \cup RemovingOne

Resolving == {"startResolve", "resolve", "syncRescue", "completeEntry"}

(* A step finds the path, the files and the record it works on. *)
StepsKnow ==
    /\ \A p \in Paths : backup[p] # "absent" => p \in BackupOps
    /\ pc \in {"backup", "unlink", "restoreBefore", "syncBack"} => work \subseteq BackupOps
    /\ pc = "recoverTimes" => work \subseteq MetaOps
    /\ batch \subseteq BackupOps /\ (pc \notin {"backup", "unlink"} => batch = {})
    /\ pc \in Removing => work \subseteq StagedOps
    /\ pc \in RemovingOne \cup {"syncBack", "syncRescueCopy"} => cur \in work
    /\ pc \in {"syncRescue", "completeEntry"} => cur \in Paths
    /\ pc \in {"rescueCopy", "syncRescueCopy"} => \A p \in work : conflicts[p] # None
    /\ pc \in Resolving \cup {"closeRescue"} => rescue # None

(* The types, without and with those of the flags. *)
Values ==
    /\ tree \in Tree /\ disk \in Tree
    /\ held \subseteq Paths /\ heldDisk \subseteq Paths
    /\ state \in JournalState
    /\ kind \in {"restore", "discard"}
    /\ before \in Tree /\ after \in Tree
    /\ staged \subseteq Paths
    /\ backup \in [Paths -> Disk]
    /\ copies \in [Copy -> Disk]
    /\ rescue \in RecoveryRescueRecord \cup {None}
    /\ kept \subseteq Data
    /\ pc \in Steps
    /\ work \subseteq Paths /\ batch \subseteq Paths
    /\ cur \in Paths \cup {None}
    /\ conflicts \in Tree
    /\ mine \in [Paths -> Data \cup {None}]
    /\ touched \subseteq Paths
    /\ goal \in Tree
    /\ edits \in 0..MaxEdits /\ begun \in 0..MaxTransactions

Flags == unresolved \in BOOLEAN /\ remembered \in BOOLEAN

TypeInv == TypeOK /\ StepsKnow

(* What a step is about to remove has a durable private copy. *)
CopiesKept ==
    \A c \in Copy : /\ copies[c] = "durable" => c[2] \in kept
                    /\ copies[c] = "volatile" =>
                         pc \in {"syncAfterCopy", "syncRescueCopy"} /\ c = FreshCopy

RemovalsKept ==
    /\ pc = "unlink" => \A p \in batch : before[p].data \in kept
    /\ pc = "hold" => after[cur].data \in kept
    /\ pc = "syncBack" /\ remembered => mine[cur] \in kept \cup {None}
    /\ pc \in Resolving \ {"startResolve"} =>
         \A p \in Entries \ MetaOps : rescue.entries[p].data \in kept

(* A conflict in the time alone leaves the content as it is. *)
TimesOnly ==
    /\ pc \in {"rescueCopy", "syncRescueCopy"} =>
         \A p \in MetaOps : conflicts[p] # None => SameData(conflicts[p], before[p])
    /\ rescue # None =>
         \A p \in MetaOps : rescue.entries[p] # None => SameData(rescue.entries[p], before[p])

KeptInv == NoUserDataLost /\ CopiesKept /\ RemovalsKept /\ TimesOnly

(* The state of the journal at each step. *)
Journaled ==
    /\ pc \notin {"idle", "finish", "closeRescue"} => Pending
    /\ pc \in {"journal", "stage", "markStaged", "recheck", "markApplying"} => state # "Applying"
    /\ pc \in {"backup", "unlink", "publish", "verify", "commit"} => state = "Applying"
    /\ pc = "finish" => state = "Committed"

(* Sources are removed after their backups were synced. *)
Batched ==
    /\ pc \in {"backup", "unlink"} => work \cap batch = {}
    /\ pc = "unlink" => \A p \in batch : backup[p] = "durable"

(* While a transaction is pending, a path that the user left alone is      *)
(* where the transaction has put it, and what it removed has a backup.     *)
Alone == Paths \ touched

InPlace(p) ==
    \A f \in {tree[p], disk[p]} :
        /\ f \in {before[p], after[p]} \/ (p \in ReplaceOps /\ f = None)
        /\ p \in BackupOps /\ f # before[p] => backup[p] = "durable"
        /\ state # "Applying" => f = before[p]

(* How far the apply has got with it, ... *)
Applied(p) ==
    /\ pc \in {"backup", "unlink"} /\ p \in work => tree[p] = before[p] /\ disk[p] = before[p]
    /\ pc \in {"backup", "unlink"} /\ p \in BackupOps \ (work \cup batch) =>
         tree[p] = None /\ (pc = "backup" => disk[p] = None)
    /\ pc = "publish" /\ p \in Ops \ work =>
         tree[p] = after[p] /\ (p \notin StagedOps => disk[p] = after[p])
    /\ pc \in {"verify", "commit"} => tree[p] = after[p] /\ disk[p] = after[p]

(* ... and the rollback. *)
RolledBack(p) ==
    /\ pc \in Removing /\ p \in StagedOps \ work => tree[p] # after[p]
    /\ (pc = "hold" \/ (pc = "syncAfterCopy" /\ cur \notin held)) /\ p = cur =>
         tree[p] = after[p]
    /\ pc \in {"syncHold", "dropHeld", "syncDrop"} /\ p = cur => tree[p] = None
    /\ pc \in {"restoreBefore", "syncBack", "recoverTimes"} /\ p \in StagedOps =>
         tree[p] # after[p]
    /\ pc \in {"restoreBefore", "syncBack"} /\ p \in BackupOps \ work => tree[p] = before[p]
    /\ pc = "syncBack" /\ p = cur =>
         /\ tree[p] = before[p] /\ backup[p] = "durable"
         /\ state = "Applying" /\ remembered
    /\ pc = "recoverTimes" /\ p \in BackupOps => tree[p] = before[p]
    /\ pc = "recoverTimes" /\ p \in MetaOps \ work => tree[p] = before[p]
    /\ pc \in {"dropStaged", "markRecovered"} => tree[p] = before[p]

(* A rescue is about files of the user. *)
NotRescued(p) ==
    /\ pc \in {"rescueCopy", "syncRescueCopy"} => conflicts[p] = None
    /\ rescue # None => rescue.entries[p] = None

RollbackInv ==
    /\ Journaled
    /\ Batched
    /\ Pending =>
         \A p \in Alone : InPlace(p) /\ Applied(p) /\ RolledBack(p) /\ NotRescued(p)

(* What is back in place is so on disk. *)
OnDisk(p) ==
    tree[p] = before[p] /\ ~(pc \in {"syncBack", "syncHold"} /\ p = cur) => disk[p] = before[p]

(* A transaction that has ended, or was quarantined without a flag. *)
Settled == state \in {"Committed", "Recovered"} \/ (state = "None" /\ ~unresolved)

WholeInv ==
    /\ Pending => goal = before /\ \A p \in Alone : OnDisk(p)
    /\ Settled => \A p \in Alone : tree[p] = goal[p] /\ disk[p] = goal[p]
    /\ pc = "moveJournal" /\ ~unresolved => \A p \in Alone : tree[p] = before[p]

-----------------------------------------------------------------------------
(* Facts about operations. *)

(* The type of an operation tells which of its two files there are. *)
Kinds(p) ==
    /\ p \in Ops <=> before[p] # after[p]
    /\ p \in Ops <=> p \in StagedOps \cup BackupOps \cup MetaOps
    /\ p \in StagedOps => after[p] \in File /\ p \notin MetaOps
    /\ p \in BackupOps => before[p] \in File /\ p \notin MetaOps
    /\ p \in StagedOps \ BackupOps => before[p] = None
    /\ p \in BackupOps \ StagedOps => after[p] = None
    /\ p \in ReplaceOps <=> p \in StagedOps \cap BackupOps
    /\ p \in MetaOps => /\ before[p] \in File /\ after[p] \in File
                        /\ before[p].data = after[p].data
    /\ p \in StagedOps \cap BackupOps => before[p].data # after[p].data

(* Every operation is of one of these types. *)
LEMMA OpKinds ==
    ASSUME TypeOK, NEW p \in Paths
    PROVE  Kinds(p)
BY TransactionAssumption
   DEF TypeOK, Tree, Ops, StagedOps, BackupOps, RestoreOps, DeleteOps, MetaOps, ReplaceOps,
       SameData, Kinds

(* A step that leaves the journal's two trees alone leaves them so. *)
LEMMA SameOps ==
    ASSUME UNCHANGED <<before, after>>
    PROVE  /\ Ops' = Ops /\ StagedOps' = StagedOps /\ BackupOps' = BackupOps
           /\ MetaOps' = MetaOps /\ ReplaceOps' = ReplaceOps
BY DEF Ops, StagedOps, BackupOps, RestoreOps, DeleteOps, MetaOps, ReplaceOps, SameData

(* Operations are on paths. *)
LEMMA OpPaths ==
    /\ Ops \subseteq Paths /\ StagedOps \subseteq Paths /\ BackupOps \subseteq Paths
    /\ MetaOps \subseteq Ops
BY DEF Ops, StagedOps, BackupOps, RestoreOps, DeleteOps, MetaOps, ReplaceOps

(* A transaction begins with a plan that leads from the tree to a tree. *)
LEMMA Begins ==
    ASSUME TypeOK, BeginRestore \/ BeginDiscard
    PROVE  \E k \in {"restore", "discard"}, target \in Tree : Begin(k, target)
<1>1. CASE BeginRestore
  BY <1>1, TransactionAssumption DEF BeginRestore
<1>2. CASE BeginDiscard
  <2>1. PICK target \in Checkpoints, chosen \in SUBSET Paths :
          Begin("discard", [p \in Paths |-> IF p \in chosen THEN target[p] ELSE tree[p]])
    BY <1>2 DEF BeginDiscard
  <2>2. [p \in Paths |-> IF p \in chosen THEN target[p] ELSE tree[p]] \in Tree
    BY TransactionAssumption DEF TypeOK, Tree
  <2>3. QED
    BY <2>1, <2>2
<1>3. QED
  BY <1>1, <1>2

-----------------------------------------------------------------------------
(* Types. *)

(* Initially nothing is under way. *)
LEMMA TypeInit == Init => TypeInv
<1> SUFFICES ASSUME Init PROVE TypeInv
  OBVIOUS
<1>1. tree \in Tree
  BY TransactionAssumption DEF Init
<1>2. Values
  BY <1>1, TransactionAssumption
     DEF Init, Values, Tree, File, NoFiles, Disk, JournalState, Steps
<1>3. Flags
  BY DEF Init, Flags
<1>4. StepsKnow
  BY DEF Init, StepsKnow, Removing, RemovingOne, Resolving
<1>5. QED
  BY <1>2, <1>3, <1>4 DEF TypeInv, TypeOK, Values, Flags

(* Every step of the transaction, the user or the machine keeps it so. *)
LEMMA TypeStep == TypeInv /\ [Next]_vars => TypeInv'
<1> SUFFICES ASSUME TypeInv, [Next]_vars PROVE TypeInv'
  OBVIOUS
<1> USE TransactionAssumption, NoRecordAssumption
<1>0. TypeOK /\ Values /\ Flags /\ StepsKnow
  BY DEF TypeInv, TypeOK, Values, Flags
<1>1. ASSUME NEW k \in {"restore", "discard"}, NEW target \in Tree, Begin(k, target)
      PROVE  TypeInv'
  <2>1. Values'
    BY <1>0, <1>1, OpKinds DEF Kinds, Values, StepsKnow, Removing, RemovingOne, Resolving,
       Steps, ApplySteps, SyncSteps, RollbackSteps, RescueSteps, Tree, Disk, JournalState,
       Unsettled, Begin, Goto, project
  <2>2. Flags'
    BY <1>0, <1>1 DEF Flags, Begin, Goto, project
  <2>3. StepsKnow'
    BY <1>0, <1>1, SameOps, OpKinds DEF Kinds, Values, StepsKnow, Removing, RemovingOne,
       Resolving, Begin, Goto, project
  <2>4. QED
    BY <2>1, <2>2, <2>3 DEF TypeInv, TypeOK, Values, Flags
<1>2. CASE RestoreWithoutChange
  <2>1. Values'
    BY <1>0, <1>2, OpKinds DEF Kinds, Values, StepsKnow, Removing, RemovingOne, Resolving,
       Steps, ApplySteps, SyncSteps, RollbackSteps, RescueSteps, Unsettled,
       RestoreWithoutChange, project, journal, payload, control
  <2>2. Flags'
    BY <1>0, <1>2 DEF Flags, RestoreWithoutChange, project, journal, payload, control
  <2>3. StepsKnow'
    BY <1>0, <1>2, SameOps, OpKinds DEF Kinds, Values, StepsKnow, Removing, RemovingOne,
       Resolving, RestoreWithoutChange, project, journal, payload, control
  <2>4. QED
    BY <2>1, <2>2, <2>3 DEF TypeInv, TypeOK, Values, Flags
<1>3. CASE WriteJournal
  <2>1. Values'
    BY <1>0, <1>3, OpKinds DEF Kinds, Values, StepsKnow, Removing, RemovingOne, Resolving,
       Steps, ApplySteps, SyncSteps, RollbackSteps, RescueSteps, JournalState, WriteJournal,
       MarkJournal, Goto, project, payload, ghost
  <2>2. Flags'
    BY <1>0, <1>3 DEF Flags, WriteJournal, MarkJournal, Goto, project, payload, ghost
  <2>3. StepsKnow'
    BY <1>0, <1>3, SameOps, OpKinds DEF Kinds, Values, StepsKnow, Removing, RemovingOne,
       Resolving, WriteJournal, MarkJournal, Goto, project, payload, ghost
  <2>4. QED
    BY <2>1, <2>2, <2>3 DEF TypeInv, TypeOK, Values, Flags
<1>4. CASE StageOperations
  <2>1. Values'
    BY <1>0, <1>4, OpPaths DEF Values, Steps, ApplySteps, SyncSteps, RollbackSteps,
       RescueSteps, StageOperations, Goto, project, journal, ghost
  <2>2. Flags'
    BY <1>0, <1>4 DEF Flags, StageOperations, Goto, project, journal, ghost
  <2>3. StepsKnow'
    BY <1>0, <1>4, SameOps, OpKinds DEF Kinds, Values, StepsKnow, Removing, RemovingOne,
       Resolving, StageOperations, Goto, project, journal, ghost
  <2>4. QED
    BY <2>1, <2>2, <2>3 DEF TypeInv, TypeOK, Values, Flags
<1>5. CASE MarkStaged
  <2>1. Values'
    BY <1>0, <1>5, OpKinds DEF Kinds, Values, StepsKnow, Removing, RemovingOne, Resolving,
       Steps, ApplySteps, SyncSteps, RollbackSteps, RescueSteps, JournalState, MarkStaged,
       MarkJournal, Goto, project, payload, ghost
  <2>2. Flags'
    BY <1>0, <1>5 DEF Flags, MarkStaged, MarkJournal, Goto, project, payload, ghost
  <2>3. StepsKnow'
    BY <1>0, <1>5, SameOps, OpKinds DEF Kinds, Values, StepsKnow, Removing, RemovingOne,
       Resolving, MarkStaged, MarkJournal, Goto, project, payload, ghost
  <2>4. QED
    BY <2>1, <2>2, <2>3 DEF TypeInv, TypeOK, Values, Flags
<1>6. CASE RecheckPreconditions
  <2>1. Values'
    BY <1>0, <1>6, OpKinds DEF Kinds, Values, StepsKnow, Removing, RemovingOne, Resolving,
       Steps, ApplySteps, SyncSteps, RollbackSteps, RescueSteps, RecheckPreconditions, Goto,
       project, journal, payload, ghost
  <2>2. Flags'
    BY <1>0, <1>6 DEF Flags, RecheckPreconditions, Goto, project, journal, payload, ghost
  <2>3. StepsKnow'
    BY <1>0, <1>6, SameOps, OpKinds DEF Kinds, Values, StepsKnow, Removing, RemovingOne,
       Resolving, RecheckPreconditions, Goto, project, journal, payload, ghost
  <2>4. QED
    BY <2>1, <2>2, <2>3 DEF TypeInv, TypeOK, Values, Flags
<1>7. CASE MarkApplying
  <2>1. Values'
    BY <1>0, <1>7, OpPaths DEF Values, Steps, ApplySteps, SyncSteps, RollbackSteps,
       RescueSteps, MarkApplying, GotoWith, project, payload, ghost, JournalState
  <2>2. Flags'
    BY <1>0, <1>7 DEF Flags, MarkApplying, GotoWith, project, payload, ghost
  <2>3. StepsKnow'
    BY <1>0, <1>7, SameOps DEF StepsKnow, Removing, RemovingOne, Resolving, MarkApplying,
       GotoWith, project, payload, ghost
  <2>4. QED
    BY <2>1, <2>2, <2>3 DEF TypeInv, TypeOK, Values, Flags
<1>8. CASE AbortPrepare
  <2>1. Values'
    BY <1>0, <1>8, OpKinds DEF Kinds, Values, StepsKnow, Removing, RemovingOne, Resolving,
       Steps, ApplySteps, SyncSteps, RollbackSteps, RescueSteps, Tree, JournalState,
       AbortPrepare, Forget, project, ghost, NoFiles
  <2>2. Flags'
    BY <1>0, <1>8 DEF Flags, AbortPrepare, Forget, project, ghost, NoFiles
  <2>3. StepsKnow'
    BY <1>0, <1>8, SameOps, OpKinds DEF Kinds, Values, StepsKnow, Removing, RemovingOne,
       Resolving, AbortPrepare, Forget, project, ghost, NoFiles
  <2>4. QED
    BY <2>1, <2>2, <2>3 DEF TypeInv, TypeOK, Values, Flags
<1>9. ASSUME NEW p \in Paths, BackupProjectFile(p) PROVE TypeInv'
  <2>1. Values'
    BY <1>0, <1>9, OpKinds DEF Kinds, Values, StepsKnow, Removing, RemovingOne, Resolving,
       Steps, ApplySteps, SyncSteps, RollbackSteps, RescueSteps, Disk, BackupProjectFile,
       project, journal, ghost
  <2>2. Flags'
    BY <1>0, <1>9 DEF Flags, BackupProjectFile, project, journal, ghost
  <2>3. StepsKnow'
    BY <1>0, <1>9, SameOps, OpKinds DEF Kinds, Values, StepsKnow, Removing, RemovingOne,
       Resolving, BackupProjectFile, project, journal, ghost
  <2>4. QED
    BY <2>1, <2>2, <2>3 DEF TypeInv, TypeOK, Values, Flags
<1>10. ASSUME NEW p \in Paths, RemoveBackupSource(p) PROVE TypeInv'
  <2>1. Values'
    BY <1>0, <1>10, OpKinds DEF Kinds, Values, StepsKnow, Removing, RemovingOne, Resolving,
       Steps, ApplySteps, SyncSteps, RollbackSteps, RescueSteps, Tree, RemoveBackupSource,
       journal, payload, ghost
  <2>2. Flags'
    BY <1>0, <1>10 DEF Flags, RemoveBackupSource, journal, payload, ghost
  <2>3. StepsKnow'
    BY <1>0, <1>10, SameOps, OpKinds DEF Kinds, Values, StepsKnow, Removing, RemovingOne,
       Resolving, RemoveBackupSource, journal, payload, ghost
  <2>4. QED
    BY <2>1, <2>2, <2>3 DEF TypeInv, TypeOK, Values, Flags
<1>11. CASE FlushBackups
  <2>1. Values'
    BY <1>0, <1>11, OpKinds DEF Kinds, Values, StepsKnow, Removing, RemovingOne, Resolving,
       Steps, ApplySteps, SyncSteps, RollbackSteps, RescueSteps, Disk, File, FlushBackups,
       Goto, project, journal, ghost
  <2>2. Flags'
    BY <1>0, <1>11 DEF Flags, FlushBackups, Goto, project, journal, ghost
  <2>3. StepsKnow'
    BY <1>0, <1>11, SameOps, OpKinds DEF Kinds, Values, StepsKnow, Removing, RemovingOne,
       Resolving, FlushBackups, Goto, project, journal, ghost
  <2>4. QED
    BY <2>1, <2>2, <2>3 DEF TypeInv, TypeOK, Values, Flags
<1>12. CASE FlushBackupSources
  <2>1. Values'
    BY <1>0, <1>12, OpPaths DEF Values, Steps, ApplySteps, SyncSteps, RollbackSteps,
       RescueSteps, FlushBackupSources, Settle, GotoWith, Goto, journal, payload, ghost, Tree
  <2>2. Flags'
    BY <1>0, <1>12 DEF Flags, FlushBackupSources, Settle, GotoWith, Goto, journal, payload,
       ghost
  <2>3. StepsKnow'
    BY <1>0, <1>12, SameOps, OpKinds DEF Kinds, Values, StepsKnow, Removing, RemovingOne,
       Resolving, FlushBackupSources, Settle, GotoWith, Goto, journal, payload, ghost
  <2>4. QED
    BY <2>1, <2>2, <2>3 DEF TypeInv, TypeOK, Values, Flags
<1>13. ASSUME NEW p \in Paths, PublishStagedFile(p) PROVE TypeInv'
  <2>1. Values'
    BY <1>0, <1>13, OpKinds DEF Kinds, Values, StepsKnow, Removing, RemovingOne, Resolving,
       Steps, ApplySteps, SyncSteps, RollbackSteps, RescueSteps, Tree, PublishStagedFile,
       Done, journal, ghost
  <2>2. Flags'
    BY <1>0, <1>13 DEF Flags, PublishStagedFile, Done, journal, ghost
  <2>3. StepsKnow'
    BY <1>0, <1>13, SameOps, OpKinds DEF Kinds, Values, StepsKnow, Removing, RemovingOne,
       Resolving, PublishStagedFile, Done, journal, ghost
  <2>4. QED
    BY <2>1, <2>2, <2>3 DEF TypeInv, TypeOK, Values, Flags
<1>14. ASSUME NEW p \in Paths, SetProjectFileMtime(p) PROVE TypeInv'
  <2>1. Values'
    BY <1>0, <1>14, OpKinds DEF Kinds, Values, StepsKnow, Removing, RemovingOne, Resolving,
       Steps, ApplySteps, SyncSteps, RollbackSteps, RescueSteps, Tree, SetProjectFileMtime,
       SetMtime, Done, journal, payload, ghost
  <2>2. Flags'
    BY <1>0, <1>14 DEF Flags, SetProjectFileMtime, SetMtime, Done, journal, payload, ghost
  <2>3. StepsKnow'
    BY <1>0, <1>14, SameOps, OpKinds DEF Kinds, Values, StepsKnow, Removing, RemovingOne,
       Resolving, SetProjectFileMtime, SetMtime, Done, journal, payload, ghost
  <2>4. QED
    BY <2>1, <2>2, <2>3 DEF TypeInv, TypeOK, Values, Flags
<1>15. CASE FlushPublished
  <2>1. Values'
    BY <1>0, <1>15, OpKinds DEF Kinds, Values, StepsKnow, Removing, RemovingOne, Resolving,
       Steps, ApplySteps, SyncSteps, RollbackSteps, RescueSteps, Tree, FlushPublished, Settle,
       Goto, journal, payload, ghost
  <2>2. Flags'
    BY <1>0, <1>15 DEF Flags, FlushPublished, Settle, Goto, journal, payload, ghost
  <2>3. StepsKnow'
    BY <1>0, <1>15, SameOps, OpKinds DEF Kinds, Values, StepsKnow, Removing, RemovingOne,
       Resolving, FlushPublished, Settle, Goto, journal, payload, ghost
  <2>4. QED
    BY <2>1, <2>2, <2>3 DEF TypeInv, TypeOK, Values, Flags
<1>16. CASE VerifyQuarantineTarget
  <2>1. Values'
    BY <1>0, <1>16, OpKinds DEF Kinds, Values, StepsKnow, Removing, RemovingOne, Resolving,
       Steps, ApplySteps, SyncSteps, RollbackSteps, RescueSteps, VerifyQuarantineTarget,
       project, journal, payload, ghost
  <2>2. Flags'
    BY <1>0, <1>16 DEF Flags, VerifyQuarantineTarget, project, journal, payload, ghost
  <2>3. StepsKnow'
    BY <1>0, <1>16, SameOps, OpKinds DEF Kinds, Values, StepsKnow, Removing, RemovingOne,
       Resolving, VerifyQuarantineTarget, project, journal, payload, ghost
  <2>4. QED
    BY <2>1, <2>2, <2>3 DEF TypeInv, TypeOK, Values, Flags
<1>17. CASE Commit
  <2>1. Values'
    BY <1>0, <1>17, OpKinds DEF Kinds, Values, StepsKnow, Removing, RemovingOne, Resolving,
       Steps, ApplySteps, SyncSteps, RollbackSteps, RescueSteps, JournalState, Commit, Goto,
       project, payload
  <2>2. Flags'
    BY <1>0, <1>17 DEF Flags, Commit, Goto, project, payload
  <2>3. StepsKnow'
    BY <1>0, <1>17, SameOps, OpKinds DEF Kinds, Values, StepsKnow, Removing, RemovingOne,
       Resolving, Commit, Goto, project, payload
  <2>4. QED
    BY <2>1, <2>2, <2>3 DEF TypeInv, TypeOK, Values, Flags
<1>18. CASE FinishApply
  <2>1. Values'
    BY <1>0, <1>18, OpKinds DEF Kinds, Values, StepsKnow, Removing, RemovingOne, Resolving,
       Steps, ApplySteps, SyncSteps, RollbackSteps, RescueSteps, Tree, FinishApply, Forget,
       project, journal, ghost, NoFiles
  <2>2. Flags'
    BY <1>0, <1>18 DEF Flags, FinishApply, Forget, project, journal, ghost, NoFiles
  <2>3. StepsKnow'
    BY <1>0, <1>18, SameOps, OpKinds DEF Kinds, Values, StepsKnow, Removing, RemovingOne,
       Resolving, FinishApply, Forget, project, journal, ghost, NoFiles
  <2>4. QED
    BY <2>1, <2>2, <2>3 DEF TypeInv, TypeOK, Values, Flags
<1>19. CASE Recover
  <2>1. Values'
    BY <1>0, <1>19, OpPaths DEF Values, Steps, ApplySteps, SyncSteps, RollbackSteps,
       RescueSteps, Recover, Goto, EnterRollback, project, journal, payload, ghost, GotoWith
  <2>2. Flags'
    BY <1>0, <1>19 DEF Flags, Recover, Goto, EnterRollback, project, journal, payload, ghost,
       GotoWith
  <2>3. StepsKnow'
    BY <1>0, <1>19, SameOps DEF StepsKnow, Removing, RemovingOne, Resolving, RescueActive,
       Recover, Goto, EnterRollback, project, journal, payload, ghost, GotoWith
  <2>4. QED
    BY <2>1, <2>2, <2>3 DEF TypeInv, TypeOK, Values, Flags
<1>20. ASSUME NEW p \in Paths, NotPublished(p) PROVE TypeInv'
  <2>1. Values'
    BY <1>0, <1>20, OpKinds DEF Kinds, Values, StepsKnow, Removing, RemovingOne, Resolving,
       Steps, ApplySteps, SyncSteps, RollbackSteps, RescueSteps, NotPublished, Done, project,
       journal, payload, ghost
  <2>2. Flags'
    BY <1>0, <1>20 DEF Flags, NotPublished, Done, project, journal, payload, ghost
  <2>3. StepsKnow'
    BY <1>0, <1>20, SameOps, OpKinds DEF Kinds, Values, StepsKnow, Removing, RemovingOne,
       Resolving, NotPublished, Done, project, journal, payload, ghost
  <2>4. QED
    BY <2>1, <2>2, <2>3 DEF TypeInv, TypeOK, Values, Flags
<1>21. ASSUME NEW p \in Paths, PreserveAfterFile(p) PROVE TypeInv'
  <2>1. Values'
    BY <1>0, <1>21, OpKinds DEF Kinds, Values, StepsKnow, Removing, RemovingOne, Resolving,
       Steps, ApplySteps, SyncSteps, RollbackSteps, RescueSteps, Disk, PreserveAfterFile,
       project, journal, ghost
  <2>2. Flags'
    BY <1>0, <1>21 DEF Flags, PreserveAfterFile, project, journal, ghost
  <2>3. StepsKnow'
    BY <1>0, <1>21, SameOps, OpKinds DEF Kinds, Values, StepsKnow, Removing, RemovingOne,
       Resolving, PreserveAfterFile, project, journal, ghost
  <2>4. QED
    BY <2>1, <2>2, <2>3 DEF TypeInv, TypeOK, Values, Flags
<1>22. CASE SyncAfterCopy
  <2>1. Values'
    <3>1. cur \in Paths /\ cur \in StagedOps
      BY <1>0, <1>22 DEF Values, StepsKnow, Removing, RemovingOne, SyncAfterCopy
    <3>2. after[cur] \in File
      BY <1>0, <3>1, OpKinds DEF Kinds
    <3>3. QED
      BY <1>0, <1>22, <3>2 DEF Values, File, Disk, Steps, ApplySteps, SyncSteps,
         RollbackSteps, RescueSteps, SyncAfterCopy, Goto, project, journal, ghost
  <2>2. Flags'
    BY <1>0, <1>22 DEF Flags, SyncAfterCopy, Goto, project, journal, ghost
  <2>3. StepsKnow'
    BY <1>0, <1>22, SameOps, OpKinds DEF Kinds, Values, StepsKnow, Removing, RemovingOne,
       Resolving, SyncAfterCopy, Goto, project, journal, ghost
  <2>4. QED
    BY <2>1, <2>2, <2>3 DEF TypeInv, TypeOK, Values, Flags
<1>23. CASE DiscardFreshCopy
  <2>1. Values'
    BY <1>0, <1>23, OpKinds DEF Kinds, Values, StepsKnow, Removing, RemovingOne, Resolving,
       Steps, ApplySteps, SyncSteps, RollbackSteps, RescueSteps, Disk, Tree, DiscardFreshCopy,
       Forget, project, journal, ghost, NoFiles
  <2>2. Flags'
    BY <1>0, <1>23 DEF Flags, DiscardFreshCopy, Forget, project, journal, ghost, NoFiles
  <2>3. StepsKnow'
    BY <1>0, <1>23, SameOps, OpKinds DEF Kinds, Values, StepsKnow, Removing, RemovingOne,
       Resolving, DiscardFreshCopy, Forget, project, journal, ghost, NoFiles
  <2>4. QED
    BY <2>1, <2>2, <2>3 DEF TypeInv, TypeOK, Values, Flags
<1>24. CASE HoldAfterFile
  <2>1. Values'
    BY <1>0, <1>24, OpKinds DEF Kinds, Values, StepsKnow, Removing, RemovingOne, Resolving,
       Steps, ApplySteps, SyncSteps, RollbackSteps, RescueSteps, Tree, HoldAfterFile, Goto,
       journal, payload, ghost
  <2>2. Flags'
    BY <1>0, <1>24 DEF Flags, HoldAfterFile, Goto, journal, payload, ghost
  <2>3. StepsKnow'
    BY <1>0, <1>24, SameOps, OpKinds DEF Kinds, Values, StepsKnow, Removing, RemovingOne,
       Resolving, HoldAfterFile, Goto, journal, payload, ghost
  <2>4. QED
    BY <2>1, <2>2, <2>3 DEF TypeInv, TypeOK, Values, Flags
<1>25. CASE SyncHold
  <2>1. Values'
    BY <1>0, <1>25, OpKinds DEF Kinds, Values, StepsKnow, Removing, RemovingOne, Resolving,
       Steps, ApplySteps, SyncSteps, RollbackSteps, RescueSteps, Tree, SyncHold, Settle, Goto,
       journal, payload, ghost
  <2>2. Flags'
    BY <1>0, <1>25 DEF Flags, SyncHold, Settle, Goto, journal, payload, ghost
  <2>3. StepsKnow'
    BY <1>0, <1>25, SameOps, OpKinds DEF Kinds, Values, StepsKnow, Removing, RemovingOne,
       Resolving, SyncHold, Settle, Goto, journal, payload, ghost
  <2>4. QED
    BY <2>1, <2>2, <2>3 DEF TypeInv, TypeOK, Values, Flags
<1>26. CASE DropHeld
  <2>1. Values'
    BY <1>0, <1>26, OpKinds DEF Kinds, Values, StepsKnow, Removing, RemovingOne, Resolving,
       Steps, ApplySteps, SyncSteps, RollbackSteps, RescueSteps, DropHeld, Goto, journal,
       payload, ghost
  <2>2. Flags'
    BY <1>0, <1>26 DEF Flags, DropHeld, Goto, journal, payload, ghost
  <2>3. StepsKnow'
    BY <1>0, <1>26, SameOps, OpKinds DEF Kinds, Values, StepsKnow, Removing, RemovingOne,
       Resolving, DropHeld, Goto, journal, payload, ghost
  <2>4. QED
    BY <2>1, <2>2, <2>3 DEF TypeInv, TypeOK, Values, Flags
<1>27. CASE SyncDrop
  <2>1. Values'
    BY <1>0, <1>27, OpKinds DEF Kinds, Values, StepsKnow, Removing, RemovingOne, Resolving,
       Steps, ApplySteps, SyncSteps, RollbackSteps, RescueSteps, Tree, SyncDrop, Settle,
       GotoWith, journal, payload, ghost
  <2>2. Flags'
    BY <1>0, <1>27 DEF Flags, SyncDrop, Settle, GotoWith, journal, payload, ghost
  <2>3. StepsKnow'
    BY <1>0, <1>27, SameOps, OpKinds DEF Kinds, Values, StepsKnow, Removing, RemovingOne,
       Resolving, SyncDrop, Settle, GotoWith, journal, payload, ghost
  <2>4. QED
    BY <2>1, <2>2, <2>3 DEF TypeInv, TypeOK, Values, Flags
<1>28. CASE AfterFilesRemoved
  <2>1. Values'
    BY <1>0, <1>28, OpPaths DEF Values, Steps, ApplySteps, SyncSteps, RollbackSteps,
       RescueSteps, AfterFilesRemoved, GotoWith, project, journal, payload, ghost
  <2>2. Flags'
    BY <1>0, <1>28 DEF Flags, AfterFilesRemoved, GotoWith, project, journal, payload, ghost
  <2>3. StepsKnow'
    BY <1>0, <1>28, SameOps, OpKinds DEF Kinds, Values, StepsKnow, Removing, RemovingOne,
       Resolving, AfterFilesRemoved, GotoWith, project, journal, payload, ghost
  <2>4. QED
    BY <2>1, <2>2, <2>3 DEF TypeInv, TypeOK, Values, Flags
<1>29. ASSUME NEW p \in Paths, KeepBeforeFile(p) PROVE TypeInv'
  <2>1. Values'
    BY <1>0, <1>29, OpKinds DEF Kinds, Values, StepsKnow, Removing, RemovingOne, Resolving,
       Steps, ApplySteps, SyncSteps, RollbackSteps, RescueSteps, Tree, KeepBeforeFile,
       SetMtime, Done, journal, payload, ghost
  <2>2. Flags'
    BY <1>0, <1>29 DEF Flags, KeepBeforeFile, SetMtime, Done, journal, payload, ghost
  <2>3. StepsKnow'
    BY <1>0, <1>29, SameOps, OpKinds DEF Kinds, Values, StepsKnow, Removing, RemovingOne,
       Resolving, KeepBeforeFile, SetMtime, Done, journal, payload, ghost
  <2>4. QED
    BY <2>1, <2>2, <2>3 DEF TypeInv, TypeOK, Values, Flags
<1>30. ASSUME NEW p \in Paths, CopyBackupFile(p) PROVE TypeInv'
  <2>1. Values'
    BY <1>0, <1>30, OpKinds DEF Kinds, Values, StepsKnow, Removing, RemovingOne, Resolving,
       Steps, ApplySteps, SyncSteps, RollbackSteps, RescueSteps, Tree, CopyBackupFile,
       journal, payload, ghost
  <2>2. Flags'
    BY <1>0, <1>30 DEF Flags, CopyBackupFile, journal, payload, ghost
  <2>3. StepsKnow'
    BY <1>0, <1>30, SameOps, OpKinds DEF Kinds, Values, StepsKnow, Removing, RemovingOne,
       Resolving, CopyBackupFile, journal, payload, ghost
  <2>4. QED
    BY <2>1, <2>2, <2>3 DEF TypeInv, TypeOK, Values, Flags
<1>31. CASE SyncBackupCopy
  <2>1. Values'
    BY <1>0, <1>31, OpKinds DEF Kinds, Values, StepsKnow, Removing, RemovingOne, Resolving,
       Steps, ApplySteps, SyncSteps, RollbackSteps, RescueSteps, Tree, SyncBackupCopy, Settle,
       journal, payload, ghost
  <2>2. Flags'
    BY <1>0, <1>31 DEF Flags, SyncBackupCopy, Settle, journal, payload, ghost
  <2>3. StepsKnow'
    BY <1>0, <1>31, SameOps, OpKinds DEF Kinds, Values, StepsKnow, Removing, RemovingOne,
       Resolving, SyncBackupCopy, Settle, journal, payload, ghost
  <2>4. QED
    BY <2>1, <2>2, <2>3 DEF TypeInv, TypeOK, Values, Flags
<1>32. CASE DiscardBackupCopy
  <2>1. Values'
    BY <1>0, <1>32, OpKinds DEF Kinds, Values, StepsKnow, Removing, RemovingOne, Resolving,
       Steps, ApplySteps, SyncSteps, RollbackSteps, RescueSteps, Tree, DiscardBackupCopy,
       Forget, journal, payload, ghost, NoFiles
  <2>2. Flags'
    BY <1>0, <1>32 DEF Flags, DiscardBackupCopy, Forget, journal, payload, ghost, NoFiles
  <2>3. StepsKnow'
    BY <1>0, <1>32, SameOps, OpKinds DEF Kinds, Values, StepsKnow, Removing, RemovingOne,
       Resolving, DiscardBackupCopy, Forget, journal, payload, ghost, NoFiles
  <2>4. QED
    BY <2>1, <2>2, <2>3 DEF TypeInv, TypeOK, Values, Flags
<1>33. CASE BeforeFilesRestored
  <2>1. Values'
    BY <1>0, <1>33, OpPaths DEF Values, Steps, ApplySteps, SyncSteps, RollbackSteps,
       RescueSteps, BeforeFilesRestored, GotoWith, project, journal, payload, ghost
  <2>2. Flags'
    BY <1>0, <1>33 DEF Flags, BeforeFilesRestored, GotoWith, project, journal, payload, ghost
  <2>3. StepsKnow'
    BY <1>0, <1>33, SameOps, OpKinds DEF Kinds, Values, StepsKnow, Removing, RemovingOne,
       Resolving, BeforeFilesRestored, GotoWith, project, journal, payload, ghost
  <2>4. QED
    BY <2>1, <2>2, <2>3 DEF TypeInv, TypeOK, Values, Flags
<1>34. ASSUME NEW p \in Paths, RecoverProjectFileMtime(p) PROVE TypeInv'
  <2>1. Values'
    BY <1>0, <1>34, OpKinds DEF Kinds, Values, StepsKnow, Removing, RemovingOne, Resolving,
       Steps, ApplySteps, SyncSteps, RollbackSteps, RescueSteps, Tree,
       RecoverProjectFileMtime, SetMtime, Done, journal, payload, ghost
  <2>2. Flags'
    BY <1>0, <1>34 DEF Flags, RecoverProjectFileMtime, SetMtime, Done, journal, payload, ghost
  <2>3. StepsKnow'
    BY <1>0, <1>34, SameOps, OpKinds DEF Kinds, Values, StepsKnow, Removing, RemovingOne,
       Resolving, RecoverProjectFileMtime, SetMtime, Done, journal, payload, ghost
  <2>4. QED
    BY <2>1, <2>2, <2>3 DEF TypeInv, TypeOK, Values, Flags
<1>35. CASE EnsureBeforeStateRestored
  <2>1. Values'
    BY <1>0, <1>35, OpKinds DEF Kinds, Values, StepsKnow, Removing, RemovingOne, Resolving,
       Steps, ApplySteps, SyncSteps, RollbackSteps, RescueSteps, EnsureBeforeStateRestored,
       Goto, project, journal, payload, ghost
  <2>2. Flags'
    BY <1>0, <1>35 DEF Flags, EnsureBeforeStateRestored, Goto, project, journal, payload, ghost
  <2>3. StepsKnow'
    BY <1>0, <1>35, SameOps, OpKinds DEF Kinds, Values, StepsKnow, Removing, RemovingOne,
       Resolving, EnsureBeforeStateRestored, Goto, project, journal, payload, ghost
  <2>4. QED
    BY <2>1, <2>2, <2>3 DEF TypeInv, TypeOK, Values, Flags
<1>36. CASE DropStaged
  <2>1. Values'
    BY <1>0, <1>36, OpKinds DEF Kinds, Values, StepsKnow, Removing, RemovingOne, Resolving,
       Steps, ApplySteps, SyncSteps, RollbackSteps, RescueSteps, DropStaged, Goto, project,
       journal, ghost
  <2>2. Flags'
    BY <1>0, <1>36 DEF Flags, DropStaged, Goto, project, journal, ghost
  <2>3. StepsKnow'
    BY <1>0, <1>36, SameOps, OpKinds DEF Kinds, Values, StepsKnow, Removing, RemovingOne,
       Resolving, DropStaged, Goto, project, journal, ghost
  <2>4. QED
    BY <2>1, <2>2, <2>3 DEF TypeInv, TypeOK, Values, Flags
<1>37. CASE MarkRecovered
  <2>1. Values'
    BY <1>0, <1>37, OpKinds DEF Kinds, Values, StepsKnow, Removing, RemovingOne, Resolving,
       Steps, ApplySteps, SyncSteps, RollbackSteps, RescueSteps, Tree, JournalState,
       MarkRecovered, Goto, Forget, project, payload, ghost, NoFiles
  <2>2. Flags'
    BY <1>0, <1>37 DEF Flags, MarkRecovered, Goto, Forget, project, payload, ghost, NoFiles
  <2>3. StepsKnow'
    BY <1>0, <1>37, SameOps DEF StepsKnow, Removing, RemovingOne, Resolving, RescueActive,
       MarkRecovered, Goto, Forget, project, payload, ghost, NoFiles
  <2>4. QED
    BY <2>1, <2>2, <2>3 DEF TypeInv, TypeOK, Values, Flags
<1>38. CASE CloseRescue
  <2>1. Values'
    BY <1>0, <1>38, OpKinds DEF Kinds, Values, StepsKnow, Removing, RemovingOne, Resolving,
       Steps, ApplySteps, SyncSteps, RollbackSteps, RescueSteps, RecoveryRescueRecord, Tree,
       CloseRescue, Forget, project, journal, ghost, NoFiles
  <2>2. Flags'
    BY <1>0, <1>38 DEF Flags, CloseRescue, Forget, project, journal, ghost, NoFiles
  <2>3. StepsKnow'
    BY <1>0, <1>38, SameOps, OpKinds DEF Kinds, Values, StepsKnow, Removing, RemovingOne,
       Resolving, CloseRescue, Forget, project, journal, ghost, NoFiles
  <2>4. QED
    BY <2>1, <2>2, <2>3 DEF TypeInv, TypeOK, Values, Flags
<1>39. CASE BeginRescue
  <2>1. Values'
    BY <1>0, <1>39, OpPaths DEF Values, Tree, Steps, ApplySteps, SyncSteps, RollbackSteps,
       RescueSteps, BeginRescue, project, journal, payload, ghost
  <2>2. Flags'
    BY <1>0, <1>39 DEF Flags, BeginRescue, project, journal, payload, ghost
  <2>3. StepsKnow'
    BY <1>0, <1>39, OpPaths, SameOps DEF StepsKnow, Removing, RemovingOne, Resolving,
       Conflicting, BeginRescue, project, journal, payload, ghost
  <2>4. QED
    BY <2>1, <2>2, <2>3 DEF TypeInv, TypeOK, Values, Flags
<1>40. ASSUME NEW p \in Paths, PreserveConflict(p) PROVE TypeInv'
  <2>1. Values'
    BY <1>0, <1>40, OpKinds DEF Kinds, Values, StepsKnow, Removing, RemovingOne, Resolving,
       Steps, ApplySteps, SyncSteps, RollbackSteps, RescueSteps, Disk, PreserveConflict,
       project, journal, ghost
  <2>2. Flags'
    BY <1>0, <1>40 DEF Flags, PreserveConflict, project, journal, ghost
  <2>3. StepsKnow'
    BY <1>0, <1>40, SameOps, OpKinds DEF Kinds, Values, StepsKnow, Removing, RemovingOne,
       Resolving, PreserveConflict, project, journal, ghost
  <2>4. QED
    BY <2>1, <2>2, <2>3 DEF TypeInv, TypeOK, Values, Flags
<1>41. CASE SyncRescueCopy
  <2>1. Values'
    <3>1. cur \in Paths /\ conflicts[cur] # None
      BY <1>0, <1>41 DEF Values, StepsKnow, SyncRescueCopy
    <3>2. conflicts[cur] \in File
      BY <1>0, <3>1 DEF Values, Tree
    <3>3. QED
      BY <1>0, <1>41, <3>2 DEF Values, File, Disk, Steps, ApplySteps, SyncSteps,
         RollbackSteps, RescueSteps, SyncRescueCopy, GotoWith, project, journal, ghost
  <2>2. Flags'
    BY <1>0, <1>41 DEF Flags, SyncRescueCopy, GotoWith, project, journal, ghost
  <2>3. StepsKnow'
    BY <1>0, <1>41, SameOps, OpKinds DEF Kinds, Values, StepsKnow, Removing, RemovingOne,
       Resolving, SyncRescueCopy, GotoWith, project, journal, ghost
  <2>4. QED
    BY <2>1, <2>2, <2>3 DEF TypeInv, TypeOK, Values, Flags
<1>42. CASE WriteRescueRecord
  <2>1. Values'
    BY <1>0, <1>42, OpKinds DEF Kinds, Values, StepsKnow, Removing, RemovingOne, Resolving,
       Steps, ApplySteps, SyncSteps, RollbackSteps, RescueSteps, RecoveryRescueRecord,
       WriteRescueRecord, Goto, project, journal, ghost
  <2>2. Flags'
    BY <1>0, <1>42 DEF Flags, WriteRescueRecord, Goto, project, journal, ghost
  <2>3. StepsKnow'
    <3>1. rescue' \in RecoveryRescueRecord
      BY <1>0, <1>42 DEF Values, RecoveryRescueRecord, WriteRescueRecord
    <3>2. QED
      BY <1>0, <1>42, <3>1, SameOps DEF StepsKnow, Removing, RemovingOne, Resolving,
         WriteRescueRecord, Goto, project, journal, ghost
  <2>4. QED
    BY <2>1, <2>2, <2>3 DEF TypeInv, TypeOK, Values, Flags
<1>43. CASE StartResolve
  <2>1. Values'
    <3>1. rescue \in RecoveryRescueRecord
      BY <1>0, <1>43 DEF Values, StepsKnow, Resolving, StartResolve
    <3>2. rescue' \in RecoveryRescueRecord
      BY <1>43, <3>1 DEF RecoveryRescueRecord, StartResolve
    <3>3. Entries \subseteq Paths
      BY DEF Entries
    <3>4. QED
      BY <1>0, <1>43, <3>2, <3>3 DEF Values, Steps, ApplySteps, SyncSteps, RollbackSteps,
         RescueSteps, StartResolve, GotoWith, project, journal, ghost
  <2>2. Flags'
    BY <1>0, <1>43 DEF Flags, StartResolve, GotoWith, project, journal, ghost
  <2>3. StepsKnow'
    <3>1. rescue \in RecoveryRescueRecord
      BY <1>0, <1>43 DEF Values, StepsKnow, Resolving, StartResolve
    <3>2. rescue' \in RecoveryRescueRecord
      BY <1>0, <1>43, <3>1 DEF RecoveryRescueRecord, Values, StepsKnow, StartResolve
    <3>3. QED
      BY <1>0, <1>43, <3>2, SameOps DEF StepsKnow, Removing, RemovingOne, Resolving,
         StartResolve, GotoWith, project, journal, ghost
  <2>4. QED
    BY <2>1, <2>2, <2>3 DEF TypeInv, TypeOK, Values, Flags
<1>44. ASSUME NEW p \in Paths, EntryResolved(p) PROVE TypeInv'
  <2>1. Values'
    BY <1>0, <1>44, OpKinds DEF Kinds, Values, StepsKnow, Removing, RemovingOne, Resolving,
       Steps, ApplySteps, SyncSteps, RollbackSteps, RescueSteps, EntryResolved, project,
       journal, payload, ghost
  <2>2. Flags'
    BY <1>0, <1>44 DEF Flags, EntryResolved, project, journal, payload, ghost
  <2>3. StepsKnow'
    BY <1>0, <1>44, SameOps, OpKinds DEF Kinds, Values, StepsKnow, Removing, RemovingOne,
       Resolving, EntryResolved, project, journal, payload, ghost
  <2>4. QED
    BY <2>1, <2>2, <2>3 DEF TypeInv, TypeOK, Values, Flags
<1>45. ASSUME NEW p \in Paths, ResetConflictTime(p) PROVE TypeInv'
  <2>1. Values'
    BY <1>0, <1>45, OpKinds DEF Kinds, Values, StepsKnow, Removing, RemovingOne, Resolving,
       Steps, ApplySteps, SyncSteps, RollbackSteps, RescueSteps, Tree, ResetConflictTime,
       SetMtime, journal, payload, ghost
  <2>2. Flags'
    BY <1>0, <1>45 DEF Flags, ResetConflictTime, SetMtime, journal, payload, ghost
  <2>3. StepsKnow'
    BY <1>0, <1>45, SameOps, OpKinds DEF Kinds, Values, StepsKnow, Removing, RemovingOne,
       Resolving, ResetConflictTime, SetMtime, journal, payload, ghost
  <2>4. QED
    BY <2>1, <2>2, <2>3 DEF TypeInv, TypeOK, Values, Flags
<1>46. ASSUME NEW p \in Paths, RemoveConflict(p) PROVE TypeInv'
  <2>1. Values'
    BY <1>0, <1>46, OpKinds DEF Kinds, Values, StepsKnow, Removing, RemovingOne, Resolving,
       Steps, ApplySteps, SyncSteps, RollbackSteps, RescueSteps, Tree, RemoveConflict,
       journal, payload, ghost
  <2>2. Flags'
    BY <1>0, <1>46 DEF Flags, RemoveConflict, journal, payload, ghost
  <2>3. StepsKnow'
    BY <1>0, <1>46, SameOps, OpKinds DEF Kinds, Values, StepsKnow, Removing, RemovingOne,
       Resolving, RemoveConflict, journal, payload, ghost
  <2>4. QED
    BY <2>1, <2>2, <2>3 DEF TypeInv, TypeOK, Values, Flags
<1>47. CASE SyncConflictRemoval
  <2>1. Values'
    BY <1>0, <1>47, OpKinds DEF Kinds, Values, StepsKnow, Removing, RemovingOne, Resolving,
       Steps, ApplySteps, SyncSteps, RollbackSteps, RescueSteps, Tree, SyncConflictRemoval,
       Settle, Goto, journal, payload, ghost
  <2>2. Flags'
    BY <1>0, <1>47 DEF Flags, SyncConflictRemoval, Settle, Goto, journal, payload, ghost
  <2>3. StepsKnow'
    BY <1>0, <1>47, SameOps, OpKinds DEF Kinds, Values, StepsKnow, Removing, RemovingOne,
       Resolving, SyncConflictRemoval, Settle, Goto, journal, payload, ghost
  <2>4. QED
    BY <2>1, <2>2, <2>3 DEF TypeInv, TypeOK, Values, Flags
<1>48. CASE CompleteEntry
  <2>1. Values'
    BY <1>0, <1>48, OpKinds DEF Kinds, Values, StepsKnow, Removing, RemovingOne, Resolving,
       Steps, ApplySteps, SyncSteps, RollbackSteps, RescueSteps, RecoveryRescueRecord,
       CompleteEntry, GotoWith, project, journal, ghost
  <2>2. Flags'
    BY <1>0, <1>48 DEF Flags, CompleteEntry, GotoWith, project, journal, ghost
  <2>3. StepsKnow'
    <3>1. rescue \in RecoveryRescueRecord
      BY <1>0, <1>48 DEF Values, StepsKnow, Resolving, CompleteEntry
    <3>2. rescue' \in RecoveryRescueRecord
      BY <1>0, <1>48, <3>1 DEF RecoveryRescueRecord, Values, StepsKnow, CompleteEntry
    <3>3. QED
      BY <1>0, <1>48, <3>2, SameOps DEF StepsKnow, Removing, RemovingOne, Resolving,
         CompleteEntry, GotoWith, project, journal, ghost
  <2>4. QED
    BY <2>1, <2>2, <2>3 DEF TypeInv, TypeOK, Values, Flags
<1>49. CASE ConflictsResolved
  <2>1. Values'
    BY <1>0, <1>49, OpPaths DEF Values, Steps, ApplySteps, SyncSteps, RollbackSteps,
       RescueSteps, ConflictsResolved, EnterRollback, project, journal, payload, ghost,
       GotoWith
  <2>2. Flags'
    BY <1>0, <1>49 DEF Flags, ConflictsResolved, EnterRollback, project, journal, payload,
       ghost, GotoWith
  <2>3. StepsKnow'
    BY <1>0, <1>49, SameOps, OpKinds DEF Kinds, Values, StepsKnow, Removing, RemovingOne,
       Resolving, ConflictsResolved, EnterRollback, project, journal, payload, ghost, GotoWith
  <2>4. QED
    BY <2>1, <2>2, <2>3 DEF TypeInv, TypeOK, Values, Flags
<1>50. CASE QuarantineTransaction
  <2>1. Values'
    BY <1>0, <1>50, OpKinds DEF Kinds, Values, StepsKnow, Removing, RemovingOne, Resolving,
       Steps, ApplySteps, SyncSteps, RollbackSteps, RescueSteps, QuarantineTransaction,
       WriteQuarantineRecord, project, journal, payload, ghost
  <2>2. Flags'
    BY <1>0, <1>50 DEF Flags, QuarantineTransaction, WriteQuarantineRecord, project, journal,
       payload, ghost
  <2>3. StepsKnow'
    BY <1>0, <1>50, SameOps, OpKinds DEF Kinds, Values, StepsKnow, Removing, RemovingOne,
       Resolving, QuarantineTransaction, WriteQuarantineRecord, project, journal, payload,
       ghost
  <2>4. QED
    BY <2>1, <2>2, <2>3 DEF TypeInv, TypeOK, Values, Flags
<1>51. CASE QuarantineUnknownTransaction
  <2>1. Values'
    BY <1>0, <1>51, OpKinds DEF Kinds, Values, StepsKnow, Removing, RemovingOne, Resolving,
       Steps, ApplySteps, SyncSteps, RollbackSteps, RescueSteps, QuarantineUnknownTransaction,
       WriteQuarantineRecord, project, journal, payload, ghost
  <2>2. Flags'
    BY <1>0, <1>51 DEF Flags, QuarantineUnknownTransaction, WriteQuarantineRecord, project,
       journal, payload, ghost
  <2>3. StepsKnow'
    BY <1>0, <1>51, SameOps, OpKinds DEF Kinds, Values, StepsKnow, Removing, RemovingOne,
       Resolving, QuarantineUnknownTransaction, WriteQuarantineRecord, project, journal,
       payload, ghost
  <2>4. QED
    BY <2>1, <2>2, <2>3 DEF TypeInv, TypeOK, Values, Flags
<1>52. CASE MoveJournal
  <2>1. Values'
    BY <1>0, <1>52, OpKinds DEF Kinds, Values, StepsKnow, Removing, RemovingOne, Resolving,
       Steps, ApplySteps, SyncSteps, RollbackSteps, RescueSteps, Tree, JournalState,
       MoveJournal, Forget, project, payload, ghost, NoFiles
  <2>2. Flags'
    BY <1>0, <1>52 DEF Flags, MoveJournal, Forget, project, payload, ghost, NoFiles
  <2>3. StepsKnow'
    BY <1>0, <1>52, SameOps, OpKinds DEF Kinds, Values, StepsKnow, Removing, RemovingOne,
       Resolving, MoveJournal, Forget, project, payload, ghost, NoFiles
  <2>4. QED
    BY <2>1, <2>2, <2>3 DEF TypeInv, TypeOK, Values, Flags
<1>53. CASE MoveJournalFails
  <2>1. Values'
    BY <1>0, <1>53, OpKinds DEF Kinds, Values, StepsKnow, Removing, RemovingOne, Resolving,
       Steps, ApplySteps, SyncSteps, RollbackSteps, RescueSteps, Tree, JournalState,
       MoveJournalFails, Forget, project, payload, ghost, NoFiles
  <2>2. Flags'
    BY <1>0, <1>53 DEF Flags, MoveJournalFails, Forget, project, payload, ghost, NoFiles
  <2>3. StepsKnow'
    BY <1>0, <1>53, SameOps, OpKinds DEF Kinds, Values, StepsKnow, Removing, RemovingOne,
       Resolving, MoveJournalFails, Forget, project, payload, ghost, NoFiles
  <2>4. QED
    BY <2>1, <2>2, <2>3 DEF TypeInv, TypeOK, Values, Flags
<1>54. ASSUME NEW p \in Paths, NEW f \in UserFiles, UserEdit(p, f) PROVE TypeInv'
  <2>1. Values'
    BY <1>0, <1>54, OpKinds DEF Kinds, Values, StepsKnow, Removing, RemovingOne, Resolving,
       Steps, ApplySteps, SyncSteps, RollbackSteps, RescueSteps, Tree, File, UserEdit,
       journal, payload
  <2>2. Flags'
    BY <1>0, <1>54 DEF Flags, UserEdit, journal, payload
  <2>3. StepsKnow'
    BY <1>0, <1>54, SameOps, OpKinds DEF Kinds, Values, StepsKnow, Removing, RemovingOne,
       Resolving, UserEdit, journal, payload
  <2>4. QED
    BY <2>1, <2>2, <2>3 DEF TypeInv, TypeOK, Values, Flags
<1>55. CASE Release
  <2>1. Values'
    BY <1>0, <1>55, OpKinds DEF Kinds, Values, StepsKnow, Removing, RemovingOne, Resolving,
       Steps, ApplySteps, SyncSteps, RollbackSteps, RescueSteps, Tree, Release, Forget,
       project, journal, payload, ghost, NoFiles
  <2>2. Flags'
    BY <1>0, <1>55 DEF Flags, Release, Forget, project, journal, payload, ghost, NoFiles
  <2>3. StepsKnow'
    BY <1>0, <1>55, SameOps, OpKinds DEF Kinds, Values, StepsKnow, Removing, RemovingOne,
       Resolving, Release, Forget, project, journal, payload, ghost, NoFiles
  <2>4. QED
    BY <2>1, <2>2, <2>3 DEF TypeInv, TypeOK, Values, Flags
<1>56. ASSUME NEW lost, NEW lostBackups, NEW lostCopies,
             LosePower(lost, lostBackups, lostCopies)
      PROVE  TypeInv'
  <2>1. Values'
    <3>1. tree' \in Tree /\ disk' \in Tree
      BY <1>0, <1>56 DEF Values, Tree, LosePower
    <3>2. backup' \in [Paths -> Disk] /\ copies' \in [Copy -> Disk]
      BY <1>0, <1>56 DEF Values, Disk, LosePower
    <3>3. ASSUME NEW p \in Paths, backup'[p] = "durable" PROVE before[p].data \in Data
      <4>1. p \in BackupOps
        BY <1>0, <1>56, <3>3 DEF StepsKnow, LosePower
      <4>2. QED
        BY <1>0, <4>1, OpKinds DEF Kinds, File
    <3>4. \A c \in Copy : c[2] \in Data
      BY DEF Copy
    <3>5. kept' \subseteq Data
      BY <1>0, <1>56, <3>3, <3>4 DEF Values, LosePower
    <3>6. held' \subseteq Paths /\ heldDisk' \subseteq Paths
      BY <1>56 DEF LosePower
    <3>7. /\ UNCHANGED <<journal, staged, rescue, ghost>>
          /\ pc' = "idle" /\ work' = {} /\ batch' = {} /\ cur' = None /\ conflicts' = NoFiles
      BY <1>56 DEF LosePower, Forget
    <3>8. NoFiles \in Tree
      BY DEF NoFiles, Tree
    <3>9. QED
      BY <1>0, <3>1, <3>2, <3>5, <3>6, <3>7, <3>8 DEF Values, Steps, journal, ghost
  <2>2. Flags'
    BY <1>0, <1>56 DEF Flags, LosePower, Forget, journal, ghost, NoFiles
  <2>3. StepsKnow'
    BY <1>0, <1>56, SameOps, OpKinds DEF Kinds, Values, StepsKnow, Removing, RemovingOne,
       Resolving, LosePower, Forget, journal, ghost, NoFiles
  <2>4. QED
    BY <2>1, <2>2, <2>3 DEF TypeInv, TypeOK, Values, Flags
<1>57. CASE UNCHANGED vars
  BY <1>0, <1>57, SameOps DEF TypeInv, TypeOK, StepsKnow, Entries, vars, project, journal,
     payload, control, ghost
<1>58. QED
  BY <1>0, <1>1, <1>2, <1>3, <1>4, <1>5, <1>6, <1>7, <1>8, <1>9, <1>10, <1>11, <1>12, <1>13,
     <1>14, <1>15, <1>16, <1>17, <1>18, <1>19, <1>20, <1>21, <1>22, <1>23, <1>24, <1>25,
     <1>26, <1>27, <1>28, <1>29, <1>30, <1>31, <1>32, <1>33, <1>34, <1>35, <1>36, <1>37,
     <1>38, <1>39, <1>40, <1>41, <1>42, <1>43, <1>44, <1>45, <1>46, <1>47, <1>48, <1>49,
     <1>50, <1>51, <1>52, <1>53, <1>54, <1>55, <1>56, <1>57, Begins DEF Next, Prepare, Apply,
     Rollback, Rescue, Quarantine, User, PowerLoss

(* Every state has its types: a step finds the path, the file, the backup  *)
(* or the record it works on, wherever an earlier one was cut short.       *)
THEOREM TransactionTypeCorrect == Spec => []TypeOK
<1>1. TypeInv => TypeOK
  BY DEF TypeInv
<1>2. QED
  BY <1>1, TypeInit, TypeStep, PTL DEF Spec

-----------------------------------------------------------------------------
(* What the user left is not lost. *)

(* What the user last left at a path stays there, or has a private copy:   *)
(* each step that removes a file does so after the copy was made durable.  *)
LEMMA NothingLost ==
    ASSUME KilledBeforeSync = FALSE, TypeInv, KeptInv, [Next]_vars
    PROVE  NoUserDataLost'
<1> USE TransactionAssumption
<1>0. TypeOK /\ Values /\ StepsKnow /\ NoUserDataLost /\ CopiesKept /\ RemovalsKept /\ TimesOnly
  BY DEF TypeInv, TypeOK, Values, KeptInv
<1>1. ASSUME NEW k \in {"restore", "discard"}, NEW target \in Tree, Begin(k, target)
      PROVE  NoUserDataLost'
  BY <1>0, <1>1 DEF NoUserDataLost, Begin, Goto, project
<1>2. ASSUME NEW p \in Paths, RemoveBackupSource(p) PROVE NoUserDataLost'
  BY <1>0, <1>2 DEF NoUserDataLost, RemovalsKept, Values, Tree, RemoveBackupSource, journal,
     payload, ghost
<1>3. CASE FlushBackupSources
  BY <1>0, <1>3 DEF NoUserDataLost, Values, FlushBackupSources, Settle, GotoWith, Goto,
     journal, payload, ghost
<1>4. ASSUME NEW p \in Paths, PublishStagedFile(p) PROVE NoUserDataLost'
  BY <1>0, <1>4 DEF NoUserDataLost, Values, Tree, PublishStagedFile, Done, journal, ghost
<1>5. ASSUME NEW p \in Paths, SetProjectFileMtime(p) PROVE NoUserDataLost'
  <2>1. before[p] # None /\ SameData(before[p], after[p])
    BY <1>5 DEF SetProjectFileMtime, MetaOps, SameData
  <2>2. QED
    BY <1>0, <1>5, <2>1 DEF NoUserDataLost, Values, Tree, SameData, SetProjectFileMtime,
       SetMtime, Done, journal, payload, ghost
<1>6. CASE FlushPublished
  BY <1>0, <1>6 DEF NoUserDataLost, Values, FlushPublished, Settle, Goto, journal, payload,
     ghost
<1>7. CASE HoldAfterFile
  BY <1>0, <1>7 DEF NoUserDataLost, RemovalsKept, Values, Tree, SameData, HoldAfterFile, Goto,
     journal, payload, ghost
<1>8. CASE SyncHold
  BY <1>0, <1>8 DEF NoUserDataLost, Values, SyncHold, Settle, Goto, journal, payload, ghost
<1>9. CASE SyncDrop
  BY <1>0, <1>9 DEF NoUserDataLost, Values, SyncDrop, Settle, GotoWith, journal, payload, ghost
<1>10. ASSUME NEW p \in Paths, KeepBeforeFile(p) PROVE NoUserDataLost'
  BY <1>0, <1>10 DEF NoUserDataLost, Values, Tree, SameData, KeepBeforeFile, SetMtime, Done,
     journal, payload, ghost
<1>11. ASSUME NEW p \in Paths, CopyBackupFile(p) PROVE NoUserDataLost'
  BY <1>0, <1>11 DEF NoUserDataLost, Values, Tree, CopyBackupFile, journal, payload, ghost
<1>12. CASE SyncBackupCopy
  BY <1>0, <1>12 DEF NoUserDataLost, Values, SyncBackupCopy, Settle, journal, payload, ghost
<1>13. CASE DiscardBackupCopy
  BY <1>0, <1>13 DEF NoUserDataLost, RemovalsKept, Values, Tree, DiscardBackupCopy, Forget,
     journal, payload, ghost, NoFiles
<1>14. ASSUME NEW p \in Paths, RecoverProjectFileMtime(p) PROVE NoUserDataLost'
  BY <1>0, <1>14 DEF NoUserDataLost, Values, Tree, SameData, TimeConflict,
     RecoverProjectFileMtime, SetMtime, Done, journal, payload, ghost
<1>15. ASSUME NEW p \in Paths, ResetConflictTime(p) PROVE NoUserDataLost'
  BY <1>0, <1>15 DEF NoUserDataLost, TimesOnly, StepsKnow, Resolving, Values, Tree, SameData,
     ResetConflictTime, SetMtime, journal, payload, ghost
<1>16. ASSUME NEW p \in Paths, RemoveConflict(p) PROVE NoUserDataLost'
  BY <1>0, <1>16 DEF NoUserDataLost, RemovalsKept, StepsKnow, Resolving, Entries, Values,
     Tree, RemoveConflict, journal, payload, ghost
<1>17. CASE SyncConflictRemoval
  BY <1>0, <1>17 DEF NoUserDataLost, Values, SyncConflictRemoval, Settle, Goto, journal,
     payload, ghost
<1>18. ASSUME NEW p \in Paths, NEW f \in UserFiles, UserEdit(p, f) PROVE NoUserDataLost'
  BY <1>0, <1>18 DEF NoUserDataLost, Values, Tree, UserEdit, journal, payload
<1>19. ASSUME NEW lost, NEW lostBackups, NEW lostCopies,
             LosePower(lost, lostBackups, lostCopies)
      PROVE  NoUserDataLost'
  BY <1>0, <1>19 DEF NoUserDataLost, LosePower, Forget, journal, ghost, NoFiles
<1>20. CASE \/ RestoreWithoutChange \/ WriteJournal \/ StageOperations
            \/ MarkStaged \/ RecheckPreconditions \/ MarkApplying
            \/ AbortPrepare
  BY <1>0, <1>20 DEF NoUserDataLost, RestoreWithoutChange, WriteJournal, MarkJournal, Goto,
     StageOperations, MarkStaged, RecheckPreconditions, MarkApplying, GotoWith, AbortPrepare,
     Forget, NoFiles, project, journal, payload, control, ghost
<1>21. CASE \/ (\E p \in Paths : BackupProjectFile(p)) \/ FlushBackups
            \/ VerifyQuarantineTarget \/ Commit \/ FinishApply \/ Recover
            \/ (\E p \in Paths : NotPublished(p))
  BY <1>0, <1>21 DEF NoUserDataLost, BackupProjectFile, FlushBackups, Goto,
     VerifyQuarantineTarget, Commit, FinishApply, Forget, NoFiles, Recover, EnterRollback,
     GotoWith, NotPublished, Done, project, journal, payload, ghost
<1>22. CASE \/ (\E p \in Paths : PreserveAfterFile(p)) \/ SyncAfterCopy
            \/ DiscardFreshCopy \/ DropHeld \/ AfterFilesRemoved
            \/ BeforeFilesRestored \/ EnsureBeforeStateRestored
  BY <1>0, <1>22 DEF NoUserDataLost, PreserveAfterFile, SyncAfterCopy, Goto, DiscardFreshCopy,
     Forget, NoFiles, DropHeld, AfterFilesRemoved, GotoWith, BeforeFilesRestored,
     EnsureBeforeStateRestored, project, journal, payload, ghost
<1>23. CASE \/ DropStaged \/ MarkRecovered \/ CloseRescue \/ BeginRescue
            \/ (\E p \in Paths : PreserveConflict(p)) \/ SyncRescueCopy
            \/ WriteRescueRecord
  BY <1>0, <1>23 DEF NoUserDataLost, DropStaged, Goto, MarkRecovered, Forget, NoFiles,
     CloseRescue, BeginRescue, PreserveConflict, SyncRescueCopy, GotoWith, WriteRescueRecord,
     project, journal, payload, ghost
<1>24. CASE \/ StartResolve \/ (\E p \in Paths : EntryResolved(p))
            \/ CompleteEntry \/ ConflictsResolved \/ QuarantineTransaction
            \/ QuarantineUnknownTransaction \/ MoveJournal
  BY <1>0, <1>24 DEF NoUserDataLost, StartResolve, GotoWith, EntryResolved, CompleteEntry,
     ConflictsResolved, EnterRollback, QuarantineTransaction, WriteQuarantineRecord,
     QuarantineUnknownTransaction, MoveJournal, Forget, NoFiles, project, journal, payload,
     ghost
<1>25. CASE \/ MoveJournalFails \/ Release
  BY <1>0, <1>25 DEF NoUserDataLost, MoveJournalFails, Forget, NoFiles, Release, project,
     journal, payload, ghost
<1>26. CASE UNCHANGED vars
  BY <1>0, <1>26 DEF NoUserDataLost, vars, project, journal, payload, control, ghost
<1>27. QED
  BY <1>0, <1>1, <1>2, <1>3, <1>4, <1>5, <1>6, <1>7, <1>8, <1>9, <1>10, <1>11, <1>12, <1>13,
     <1>14, <1>15, <1>16, <1>17, <1>18, <1>19, <1>20, <1>21, <1>22, <1>23, <1>24, <1>25,
     <1>26, Begins DEF Next, Prepare, Apply, Rollback, Rescue, Quarantine, User, PowerLoss

(* A private copy that is there was synced, or is about to be: with a kill *)
(* in between, a later recovery would take it as it is.                    *)
LEMMA CopiesStayKept ==
    ASSUME KilledBeforeSync = FALSE, TypeInv, KeptInv, [Next]_vars
    PROVE  CopiesKept'
<1> USE TransactionAssumption
<1>0. TypeOK /\ Values /\ StepsKnow /\ NoUserDataLost /\ CopiesKept /\ RemovalsKept /\ TimesOnly
  BY DEF TypeInv, TypeOK, Values, KeptInv
<1>1. ASSUME NEW k \in {"restore", "discard"}, NEW target \in Tree, Begin(k, target)
      PROVE  CopiesKept'
  BY <1>0, <1>1 DEF CopiesKept, FreshCopy, Values, Begin, Goto, project
<1>2. ASSUME NEW p \in Paths, PreserveAfterFile(p) PROVE CopiesKept'
  BY <1>0, <1>2 DEF CopiesKept, FreshCopy, Values, PreserveAfterFile, project, journal, ghost
<1>3. CASE SyncAfterCopy
  BY <1>0, <1>3 DEF CopiesKept, FreshCopy, Values, SyncAfterCopy, Goto, project, journal, ghost
<1>4. CASE DiscardFreshCopy
  BY <1>0, <1>4 DEF CopiesKept, FreshCopy, Values, DiscardFreshCopy, Forget, project, journal,
     ghost, NoFiles
<1>5. ASSUME NEW p \in Paths, PreserveConflict(p) PROVE CopiesKept'
  BY <1>0, <1>5 DEF CopiesKept, FreshCopy, Values, PreserveConflict, project, journal, ghost
<1>6. CASE SyncRescueCopy
  BY <1>0, <1>6 DEF CopiesKept, FreshCopy, Values, SyncRescueCopy, GotoWith, project, journal,
     ghost
<1>7. ASSUME NEW p \in Paths, NEW f \in UserFiles, UserEdit(p, f) PROVE CopiesKept'
  BY <1>0, <1>7 DEF CopiesKept, FreshCopy, UserEdit, journal, payload
<1>8. CASE Release
  BY <1>0, <1>8 DEF CopiesKept, SyncSteps, Release, Forget, project, journal, payload, ghost,
     NoFiles
<1>9. ASSUME NEW lost, NEW lostBackups, NEW lostCopies,
             LosePower(lost, lostBackups, lostCopies)
      PROVE  CopiesKept'
  BY <1>0, <1>9 DEF CopiesKept, FreshCopy, Values, LosePower, Forget, journal, ghost, NoFiles
<1>10. CASE \/ RestoreWithoutChange \/ WriteJournal \/ StageOperations
            \/ MarkStaged \/ RecheckPreconditions \/ MarkApplying
            \/ AbortPrepare
  BY <1>0, <1>10 DEF CopiesKept, FreshCopy, RestoreWithoutChange, WriteJournal, MarkJournal,
     Goto, StageOperations, MarkStaged, RecheckPreconditions, MarkApplying, GotoWith,
     AbortPrepare, Forget, NoFiles, project, journal, payload, control, ghost
<1>11. CASE \/ (\E p \in Paths : BackupProjectFile(p))
            \/ (\E p \in Paths : RemoveBackupSource(p)) \/ FlushBackups
            \/ FlushBackupSources \/ (\E p \in Paths : PublishStagedFile(p))
            \/ (\E p \in Paths : SetProjectFileMtime(p)) \/ FlushPublished
  BY <1>0, <1>11 DEF CopiesKept, FreshCopy, BackupProjectFile, RemoveBackupSource,
     FlushBackups, Goto, FlushBackupSources, Settle, GotoWith, PublishStagedFile, Done,
     SetProjectFileMtime, SetMtime, FlushPublished, project, journal, payload, ghost
<1>12. CASE \/ VerifyQuarantineTarget \/ Commit \/ FinishApply \/ Recover
            \/ (\E p \in Paths : NotPublished(p)) \/ HoldAfterFile \/ SyncHold
  BY <1>0, <1>12 DEF CopiesKept, FreshCopy, VerifyQuarantineTarget, Commit, Goto, FinishApply,
     Forget, NoFiles, Recover, EnterRollback, GotoWith, NotPublished, Done, HoldAfterFile,
     SyncHold, Settle, project, journal, payload, ghost
<1>13. CASE \/ DropHeld \/ SyncDrop \/ AfterFilesRemoved
            \/ (\E p \in Paths : KeepBeforeFile(p))
            \/ (\E p \in Paths : CopyBackupFile(p)) \/ SyncBackupCopy
            \/ DiscardBackupCopy
  BY <1>0, <1>13 DEF CopiesKept, FreshCopy, DropHeld, Goto, SyncDrop, Settle, GotoWith,
     AfterFilesRemoved, KeepBeforeFile, SetMtime, Done, CopyBackupFile, SyncBackupCopy,
     DiscardBackupCopy, Forget, NoFiles, project, journal, payload, ghost
<1>14. CASE \/ BeforeFilesRestored
            \/ (\E p \in Paths : RecoverProjectFileMtime(p))
            \/ EnsureBeforeStateRestored \/ DropStaged \/ MarkRecovered
            \/ CloseRescue \/ BeginRescue
  BY <1>0, <1>14 DEF CopiesKept, FreshCopy, BeforeFilesRestored, GotoWith,
     RecoverProjectFileMtime, SetMtime, Done, EnsureBeforeStateRestored, Goto, DropStaged,
     MarkRecovered, Forget, NoFiles, CloseRescue, BeginRescue, project, journal, payload,
     ghost
<1>15. CASE \/ WriteRescueRecord \/ StartResolve
            \/ (\E p \in Paths : EntryResolved(p))
            \/ (\E p \in Paths : ResetConflictTime(p))
            \/ (\E p \in Paths : RemoveConflict(p)) \/ SyncConflictRemoval
            \/ CompleteEntry
  BY <1>0, <1>15 DEF CopiesKept, FreshCopy, WriteRescueRecord, Goto, StartResolve, GotoWith,
     EntryResolved, ResetConflictTime, SetMtime, RemoveConflict, SyncConflictRemoval, Settle,
     CompleteEntry, project, journal, payload, ghost
<1>16. CASE \/ ConflictsResolved \/ QuarantineTransaction
            \/ QuarantineUnknownTransaction \/ MoveJournal \/ MoveJournalFails
  BY <1>0, <1>16 DEF CopiesKept, FreshCopy, ConflictsResolved, EnterRollback, GotoWith,
     QuarantineTransaction, WriteQuarantineRecord, QuarantineUnknownTransaction, MoveJournal,
     Forget, NoFiles, MoveJournalFails, project, journal, payload, ghost
<1>17. CASE UNCHANGED vars
  BY <1>0, <1>17 DEF CopiesKept, FreshCopy, vars, project, journal, payload, control, ghost
<1>18. QED
  BY <1>0, <1>1, <1>2, <1>3, <1>4, <1>5, <1>6, <1>7, <1>8, <1>9, <1>10, <1>11, <1>12, <1>13,
     <1>14, <1>15, <1>16, <1>17, Begins DEF Next, Prepare, Apply, Rollback, Rescue,
     Quarantine, User, PowerLoss

(* A step that removes a file comes after the one that made its copy       *)
(* durable.                                                                *)
LEMMA RemovalsStayKept ==
    ASSUME KilledBeforeSync = FALSE, TypeInv, KeptInv, [Next]_vars
    PROVE  RemovalsKept'
<1> USE TransactionAssumption
<1>0. TypeOK /\ Values /\ StepsKnow /\ NoUserDataLost /\ CopiesKept /\ RemovalsKept /\ TimesOnly
  BY DEF TypeInv, TypeOK, Values, KeptInv
<1>1. ASSUME NEW k \in {"restore", "discard"}, NEW target \in Tree, Begin(k, target)
      PROVE  RemovalsKept'
  BY <1>0, <1>1 DEF RemovalsKept, Resolving, Begin, Goto, project
<1>2. ASSUME NEW p \in Paths, RemoveBackupSource(p) PROVE RemovalsKept'
  BY <1>0, <1>2, SameOps DEF RemovalsKept, Resolving, Entries, Values, RemoveBackupSource,
     journal, payload, ghost
<1>3. CASE FlushBackups
  BY <1>0, <1>3, SameOps DEF RemovalsKept, Resolving, Entries, Values, FlushBackups, Goto,
     project, journal, ghost
<1>4. ASSUME NEW p \in Paths, PreserveAfterFile(p) PROVE RemovalsKept'
  <2>1. p \in StagedOps
    BY <1>0, <1>4 DEF StepsKnow, Removing, PreserveAfterFile
  <2>2. <<"recovery-after", after[p].data>> \in Copy
    BY <1>0, <2>1, OpKinds DEF Kinds, Copy, File
  <2>3. pc' = "hold" => copies[<<"recovery-after", after[p].data>>] # "absent" /\ cur' = p
    BY <1>4 DEF PreserveAfterFile
  <2>4. pc' = "hold" => after[p].data \in kept /\ cur' = p
    BY <1>0, <1>4, <2>2, <2>3 DEF CopiesKept, Values, Disk, PreserveAfterFile
  <2>5. pc' \in {"hold", "syncAfterCopy", "dropLeftover"} /\ UNCHANGED <<after, kept>>
    BY <1>4 DEF PreserveAfterFile, journal
  <2>6. QED
    BY <2>4, <2>5 DEF RemovalsKept, Resolving
<1>5. CASE SyncAfterCopy
  BY <1>0, <1>5, SameOps DEF RemovalsKept, Resolving, Entries, Values, SyncAfterCopy, Goto,
     project, journal, ghost
<1>6. ASSUME NEW p \in Paths, CopyBackupFile(p) PROVE RemovalsKept'
  BY <1>0, <1>6, SameOps DEF RemovalsKept, Resolving, NoUserDataLost, Values, CopyBackupFile,
     journal, payload, ghost
<1>7. CASE StartResolve
  <2>1. rescue \in RecoveryRescueRecord
    BY <1>0, <1>7 DEF Values, StepsKnow, Resolving, StartResolve
  <2>2. rescue'.entries = rescue.entries
    BY <1>7, <2>1 DEF RecoveryRescueRecord, StartResolve
  <2>3. ASSUME NEW p \in Entries \ MetaOps PROVE rescue.entries[p].data \in kept
    <3>1. rescue.entries[p] \in File
      BY <2>1, <2>3 DEF RecoveryRescueRecord, Tree, Entries
    <3>2. <<"rescue", rescue.entries[p].data>> \in Copy
      BY <3>1 DEF Copy, File
    <3>3. copies[<<"rescue", rescue.entries[p].data>>] \notin {"absent", "volatile"}
      BY <1>0, <1>7, <3>2 DEF CopiesKept, StartResolve
    <3>4. QED
      BY <1>0, <3>2, <3>3 DEF CopiesKept, Values, Disk
  <2>4. Entries' = Entries /\ MetaOps' = MetaOps
    BY <1>7, <2>2, SameOps DEF Entries, StartResolve, journal
  <2>5. pc' = "resolve" /\ UNCHANGED kept
    BY <1>7 DEF StartResolve, GotoWith
  <2>6. QED
    BY <2>2, <2>3, <2>4, <2>5 DEF RemovalsKept, Entries
<1>8. ASSUME NEW p \in Paths, EntryResolved(p) PROVE RemovalsKept'
  BY <1>0, <1>8, SameOps DEF RemovalsKept, Resolving, Entries, Values, EntryResolved, project,
     journal, payload, ghost
<1>9. ASSUME NEW p \in Paths, ResetConflictTime(p) PROVE RemovalsKept'
  BY <1>0, <1>9, SameOps DEF RemovalsKept, Resolving, Entries, Values, ResetConflictTime,
     SetMtime, journal, payload, ghost
<1>10. ASSUME NEW p \in Paths, RemoveConflict(p) PROVE RemovalsKept'
  BY <1>0, <1>10, SameOps DEF RemovalsKept, Resolving, Entries, Values, RemoveConflict,
     journal, payload, ghost
<1>11. CASE SyncConflictRemoval
  BY <1>0, <1>11, SameOps DEF RemovalsKept, Resolving, Entries, Values, SyncConflictRemoval,
     Settle, Goto, journal, payload, ghost
<1>12. CASE CompleteEntry
  BY <1>0, <1>12, SameOps DEF RemovalsKept, Resolving, Entries, Values, CompleteEntry,
     GotoWith, project, journal, ghost
<1>13. ASSUME NEW p \in Paths, NEW f \in UserFiles, UserEdit(p, f) PROVE RemovalsKept'
  BY <1>0, <1>13, SameOps DEF RemovalsKept, Resolving, Entries, Values, UserEdit, journal,
     payload
<1>14. ASSUME NEW lost, NEW lostBackups, NEW lostCopies,
             LosePower(lost, lostBackups, lostCopies)
      PROVE  RemovalsKept'
  BY <1>0, <1>14 DEF RemovalsKept, Resolving, LosePower, Forget, journal, ghost, NoFiles
<1>15. CASE \/ RestoreWithoutChange \/ WriteJournal \/ StageOperations
            \/ MarkStaged \/ RecheckPreconditions \/ MarkApplying
            \/ AbortPrepare
  BY <1>0, <1>15, SameOps DEF RemovalsKept, Resolving, Entries, RestoreWithoutChange,
     WriteJournal, MarkJournal, Goto, StageOperations, MarkStaged, RecheckPreconditions,
     MarkApplying, GotoWith, AbortPrepare, Forget, NoFiles, project, journal, payload,
     control, ghost
<1>16. CASE \/ (\E p \in Paths : BackupProjectFile(p)) \/ FlushBackupSources
            \/ (\E p \in Paths : PublishStagedFile(p))
            \/ (\E p \in Paths : SetProjectFileMtime(p)) \/ FlushPublished
            \/ VerifyQuarantineTarget \/ Commit
  BY <1>0, <1>16, SameOps DEF RemovalsKept, Resolving, Entries, BackupProjectFile,
     FlushBackupSources, Settle, GotoWith, Goto, PublishStagedFile, Done, SetProjectFileMtime,
     SetMtime, FlushPublished, VerifyQuarantineTarget, Commit, project, journal, payload,
     ghost
<1>17. CASE \/ FinishApply \/ Recover \/ (\E p \in Paths : NotPublished(p))
            \/ DiscardFreshCopy \/ HoldAfterFile \/ SyncHold \/ DropHeld
  BY <1>0, <1>17, SameOps DEF RemovalsKept, Resolving, Entries, FinishApply, Forget, NoFiles,
     Recover, Goto, EnterRollback, GotoWith, NotPublished, Done, DiscardFreshCopy,
     HoldAfterFile, SyncHold, Settle, DropHeld, project, journal, payload, ghost
<1>18. CASE \/ SyncDrop \/ AfterFilesRemoved
            \/ (\E p \in Paths : KeepBeforeFile(p)) \/ SyncBackupCopy
            \/ DiscardBackupCopy \/ BeforeFilesRestored
            \/ (\E p \in Paths : RecoverProjectFileMtime(p))
  BY <1>0, <1>18, SameOps DEF RemovalsKept, Resolving, Entries, SyncDrop, Settle, GotoWith,
     AfterFilesRemoved, KeepBeforeFile, SetMtime, Done, SyncBackupCopy, DiscardBackupCopy,
     Forget, NoFiles, BeforeFilesRestored, RecoverProjectFileMtime, project, journal, payload,
     ghost
<1>19. CASE \/ EnsureBeforeStateRestored \/ DropStaged \/ MarkRecovered
            \/ CloseRescue \/ BeginRescue
            \/ (\E p \in Paths : PreserveConflict(p)) \/ SyncRescueCopy
  BY <1>0, <1>19, SameOps DEF RemovalsKept, Resolving, Entries, EnsureBeforeStateRestored,
     Goto, DropStaged, MarkRecovered, Forget, NoFiles, CloseRescue, BeginRescue,
     PreserveConflict, SyncRescueCopy, GotoWith, project, journal, payload, ghost
<1>20. CASE \/ WriteRescueRecord \/ ConflictsResolved \/ QuarantineTransaction
            \/ QuarantineUnknownTransaction \/ MoveJournal \/ MoveJournalFails
            \/ Release
  BY <1>0, <1>20, SameOps DEF RemovalsKept, Resolving, Entries, WriteRescueRecord, Goto,
     ConflictsResolved, EnterRollback, GotoWith, QuarantineTransaction, WriteQuarantineRecord,
     QuarantineUnknownTransaction, MoveJournal, Forget, NoFiles, MoveJournalFails, Release,
     project, journal, payload, ghost
<1>21. CASE UNCHANGED vars
  BY <1>0, <1>21, SameOps DEF RemovalsKept, Resolving, Entries, vars, project, journal,
     payload, control, ghost
<1>22. QED
  BY <1>0, <1>1, <1>2, <1>3, <1>4, <1>5, <1>6, <1>7, <1>8, <1>9, <1>10, <1>11, <1>12, <1>13,
     <1>14, <1>15, <1>16, <1>17, <1>18, <1>19, <1>20, <1>21, Begins DEF Next, Prepare, Apply,
     Rollback, Rescue, Quarantine, User, PowerLoss

(* A rescue of a file that was to get another time keeps its content. *)
LEMMA TimesStayOnly ==
    ASSUME KilledBeforeSync = FALSE, TypeInv, KeptInv, [Next]_vars
    PROVE  TimesOnly'
<1> USE TransactionAssumption
<1>0. TypeOK /\ Values /\ StepsKnow /\ NoUserDataLost /\ CopiesKept /\ RemovalsKept /\ TimesOnly
  BY DEF TypeInv, TypeOK, Values, KeptInv
<1>1. ASSUME NEW k \in {"restore", "discard"}, NEW target \in Tree, Begin(k, target)
      PROVE  TimesOnly'
  BY <1>0, <1>1, SameOps DEF TimesOnly, SameData, StepsKnow, Resolving, Values, Begin, Goto,
     project
<1>2. CASE CloseRescue
  BY <1>0, <1>2, SameOps DEF TimesOnly, SameData, StepsKnow, Resolving, Values, CloseRescue,
     Forget, project, journal, ghost, NoFiles
<1>3. CASE BeginRescue
  <2>1. ASSUME NEW q \in MetaOps, conflicts'[q] # None PROVE SameData(conflicts'[q], before[q])
    <3>1. q \in Paths /\ conflicts'[q] = tree[q]
      BY <1>3, <2>1, OpPaths DEF BeginRescue
    <3>2. QED
      BY <1>3, <2>1, <3>1 DEF BeginRescue, AnalyzableConflicts
  <2>2. MetaOps' = MetaOps /\ UNCHANGED <<before, rescue>>
    BY <1>3, SameOps DEF BeginRescue, journal, payload
  <2>3. QED
    BY <1>0, <2>1, <2>2 DEF TimesOnly, SameData
<1>4. ASSUME NEW p \in Paths, PreserveConflict(p) PROVE TimesOnly'
  BY <1>0, <1>4, SameOps DEF TimesOnly, SameData, StepsKnow, Resolving, Values,
     PreserveConflict, project, journal, ghost
<1>5. CASE SyncRescueCopy
  BY <1>0, <1>5, SameOps DEF TimesOnly, SameData, StepsKnow, Resolving, Values,
     SyncRescueCopy, GotoWith, project, journal, ghost
<1>6. CASE WriteRescueRecord
  BY <1>0, <1>6, SameOps DEF TimesOnly, SameData, StepsKnow, Resolving, Values,
     WriteRescueRecord, Goto, project, journal, ghost
<1>7. CASE StartResolve
  BY <1>0, <1>7, SameOps DEF TimesOnly, SameData, StepsKnow, Resolving, Values, StartResolve,
     GotoWith, project, journal, ghost
<1>8. CASE CompleteEntry
  BY <1>0, <1>8, SameOps DEF TimesOnly, SameData, StepsKnow, Resolving, Values, CompleteEntry,
     GotoWith, project, journal, ghost
<1>9. CASE MoveJournal
  BY <1>0, <1>9, SameOps DEF TimesOnly, SameData, MoveJournal, Forget, project, payload,
     ghost, NoFiles
<1>10. CASE MoveJournalFails
  BY <1>0, <1>10, SameOps DEF TimesOnly, SameData, MoveJournalFails, Forget, project, payload,
     ghost, NoFiles
<1>11. ASSUME NEW p \in Paths, NEW f \in UserFiles, UserEdit(p, f) PROVE TimesOnly'
  BY <1>0, <1>11, SameOps DEF TimesOnly, SameData, UserEdit, journal, payload
<1>12. CASE Release
  BY <1>0, <1>12, SameOps DEF TimesOnly, SameData, Release, Forget, project, journal, payload,
     ghost, NoFiles
<1>13. ASSUME NEW lost, NEW lostBackups, NEW lostCopies,
             LosePower(lost, lostBackups, lostCopies)
      PROVE  TimesOnly'
  BY <1>0, <1>13, SameOps DEF TimesOnly, SameData, LosePower, Forget, journal, ghost, NoFiles
<1>14. CASE \/ RestoreWithoutChange \/ WriteJournal \/ StageOperations
            \/ MarkStaged \/ RecheckPreconditions \/ MarkApplying
            \/ AbortPrepare
  BY <1>0, <1>14, SameOps DEF TimesOnly, SameData, RestoreWithoutChange, WriteJournal,
     MarkJournal, Goto, StageOperations, MarkStaged, RecheckPreconditions, MarkApplying,
     GotoWith, AbortPrepare, Forget, NoFiles, project, journal, payload, control, ghost
<1>15. CASE \/ (\E p \in Paths : BackupProjectFile(p))
            \/ (\E p \in Paths : RemoveBackupSource(p)) \/ FlushBackups
            \/ FlushBackupSources \/ (\E p \in Paths : PublishStagedFile(p))
            \/ (\E p \in Paths : SetProjectFileMtime(p)) \/ FlushPublished
  BY <1>0, <1>15, SameOps DEF TimesOnly, SameData, BackupProjectFile, RemoveBackupSource,
     FlushBackups, Goto, FlushBackupSources, Settle, GotoWith, PublishStagedFile, Done,
     SetProjectFileMtime, SetMtime, FlushPublished, project, journal, payload, ghost
<1>16. CASE \/ VerifyQuarantineTarget \/ Commit \/ FinishApply \/ Recover
            \/ (\E p \in Paths : NotPublished(p))
            \/ (\E p \in Paths : PreserveAfterFile(p)) \/ SyncAfterCopy
  BY <1>0, <1>16, SameOps DEF TimesOnly, SameData, VerifyQuarantineTarget, Commit, Goto,
     FinishApply, Forget, NoFiles, Recover, EnterRollback, GotoWith, NotPublished, Done,
     PreserveAfterFile, SyncAfterCopy, project, journal, payload, ghost
<1>17. CASE \/ DiscardFreshCopy \/ HoldAfterFile \/ SyncHold \/ DropHeld
            \/ SyncDrop \/ AfterFilesRemoved
            \/ (\E p \in Paths : KeepBeforeFile(p))
  BY <1>0, <1>17, SameOps DEF TimesOnly, SameData, DiscardFreshCopy, Forget, NoFiles,
     HoldAfterFile, Goto, SyncHold, Settle, DropHeld, SyncDrop, GotoWith, AfterFilesRemoved,
     KeepBeforeFile, SetMtime, Done, project, journal, payload, ghost
<1>18. CASE \/ (\E p \in Paths : CopyBackupFile(p)) \/ SyncBackupCopy
            \/ DiscardBackupCopy \/ BeforeFilesRestored
            \/ (\E p \in Paths : RecoverProjectFileMtime(p))
            \/ EnsureBeforeStateRestored \/ DropStaged
  BY <1>0, <1>18, SameOps DEF TimesOnly, SameData, CopyBackupFile, SyncBackupCopy, Settle,
     DiscardBackupCopy, Forget, NoFiles, BeforeFilesRestored, GotoWith,
     RecoverProjectFileMtime, SetMtime, Done, EnsureBeforeStateRestored, Goto, DropStaged,
     project, journal, payload, ghost
<1>19. CASE \/ MarkRecovered \/ (\E p \in Paths : EntryResolved(p))
            \/ (\E p \in Paths : ResetConflictTime(p))
            \/ (\E p \in Paths : RemoveConflict(p)) \/ SyncConflictRemoval
            \/ ConflictsResolved \/ QuarantineTransaction
  BY <1>0, <1>19, SameOps DEF TimesOnly, SameData, MarkRecovered, Goto, Forget, NoFiles,
     EntryResolved, ResetConflictTime, SetMtime, RemoveConflict, SyncConflictRemoval, Settle,
     ConflictsResolved, EnterRollback, GotoWith, QuarantineTransaction, WriteQuarantineRecord,
     project, journal, payload, ghost
<1>20. CASE \/ QuarantineUnknownTransaction
  BY <1>0, <1>20, SameOps DEF TimesOnly, SameData, QuarantineUnknownTransaction,
     WriteQuarantineRecord, project, journal, payload, ghost
<1>21. CASE UNCHANGED vars
  BY <1>0, <1>21, SameOps DEF TimesOnly, SameData, vars, project, journal, payload, control,
     ghost
<1>22. QED
  BY <1>0, <1>1, <1>2, <1>3, <1>4, <1>5, <1>6, <1>7, <1>8, <1>9, <1>10, <1>11, <1>12, <1>13,
     <1>14, <1>15, <1>16, <1>17, <1>18, <1>19, <1>20, <1>21, Begins DEF Next, Prepare, Apply,
     Rollback, Rescue, Quarantine, User, PowerLoss

(* What the user last left at a path is still there, on disk as well, or   *)
(* has a durable private copy, whatever is applied, rolled back, rescued,  *)
(* edited or interrupted; unless the process is killed between the rename  *)
(* of a private copy and its directory sync.                               *)
THEOREM UserDataIsKept == KilledBeforeSync = FALSE => (Spec => []NoUserDataLost)
<1> SUFFICES ASSUME KilledBeforeSync = FALSE PROVE Spec => []NoUserDataLost
  OBVIOUS
<1>1. Init => KeptInv
  <2> SUFFICES ASSUME Init PROVE KeptInv
    OBVIOUS
  <2>1. NoUserDataLost
    BY DEF Init, NoUserDataLost
  <2>2. CopiesKept /\ RemovalsKept /\ TimesOnly
    BY DEF Init, CopiesKept, RemovalsKept, TimesOnly, Resolving
  <2>3. QED
    BY <2>1, <2>2 DEF KeptInv
<1>2. TypeInv /\ KeptInv /\ [Next]_vars => KeptInv'
  BY NothingLost, CopiesStayKept, RemovalsStayKept, TimesStayOnly DEF KeptInv
<1>3. KeptInv => NoUserDataLost
  BY DEF KeptInv
<1>4. QED
  BY <1>1, <1>2, <1>3, TypeInit, TypeStep, PTL DEF Spec

-----------------------------------------------------------------------------
(* The rollback never refuses what the transaction did itself. *)

(* A step of the transaction or of its recovery finds its journal in the   *)
(* state it was left in.                                                   *)
LEMMA JournalStays ==
    ASSUME TypeInv, Journaled, [Next]_vars
    PROVE  Journaled'
<1>0. TypeOK /\ Values /\ StepsKnow
  BY DEF TypeInv, TypeOK, Values
<1>1. ASSUME NEW k \in {"restore", "discard"}, NEW target \in Tree, Begin(k, target)
      PROVE  Journaled'
  BY <1>0, <1>1 DEF Journaled, Pending, Values, JournalState, Begin, Goto, project
<1>2. CASE MarkApplying
  BY <1>0, <1>2 DEF Journaled, Pending, Values, JournalState, MarkApplying, GotoWith, project,
     payload, ghost
<1>3. CASE FlushBackupSources
  BY <1>0, <1>3 DEF Journaled, Pending, Values, JournalState, FlushBackupSources, Settle,
     GotoWith, Goto, journal, payload, ghost
<1>4. CASE Recover
  BY <1>0, <1>4 DEF Journaled, Pending, Values, JournalState, Recover, Goto, EnterRollback,
     project, journal, payload, ghost, GotoWith
<1>5. CASE MarkRecovered
  BY <1>0, <1>5 DEF Journaled, Pending, Values, JournalState, MarkRecovered, Goto, Forget,
     project, payload, ghost, NoFiles
<1>6. CASE BeginRescue
  BY <1>0, <1>6 DEF Journaled, Pending, Values, JournalState, BeginRescue, project, journal,
     payload, ghost
<1>7. CASE QuarantineTransaction
  BY <1>0, <1>7 DEF Journaled, Pending, Values, JournalState, QuarantineTransaction,
     WriteQuarantineRecord, project, journal, payload, ghost
<1>8. CASE MoveJournalFails
  BY <1>0, <1>8 DEF Journaled, Pending, Values, JournalState, MoveJournalFails, Forget,
     project, payload, ghost, NoFiles
<1>9. ASSUME NEW p \in Paths, NEW f \in UserFiles, UserEdit(p, f) PROVE Journaled'
  BY <1>0, <1>9 DEF Journaled, Pending, Values, JournalState, UserEdit, journal, payload
<1>10. ASSUME NEW lost, NEW lostBackups, NEW lostCopies,
             LosePower(lost, lostBackups, lostCopies)
      PROVE  Journaled'
  BY <1>0, <1>10 DEF Journaled, Pending, Values, JournalState, LosePower, Forget, journal,
     ghost, NoFiles
<1>11. CASE \/ RestoreWithoutChange \/ WriteJournal \/ StageOperations
            \/ MarkStaged
  BY <1>0, <1>11 DEF Journaled, Pending, Values, JournalState, RestoreWithoutChange,
     WriteJournal, MarkJournal, Goto, StageOperations, MarkStaged, project, journal, payload,
     control, ghost
<1>12. CASE \/ RecheckPreconditions \/ AbortPrepare
            \/ (\E p \in Paths : BackupProjectFile(p))
            \/ (\E p \in Paths : RemoveBackupSource(p))
  BY <1>0, <1>12 DEF Journaled, Pending, Values, JournalState, RecheckPreconditions, Goto,
     AbortPrepare, Forget, NoFiles, BackupProjectFile, RemoveBackupSource, project, journal,
     payload, ghost
<1>13. CASE \/ FlushBackups \/ (\E p \in Paths : PublishStagedFile(p))
            \/ (\E p \in Paths : SetProjectFileMtime(p)) \/ FlushPublished
  BY <1>0, <1>13 DEF Journaled, Pending, Values, JournalState, FlushBackups, Goto,
     PublishStagedFile, Done, SetProjectFileMtime, SetMtime, FlushPublished, Settle, project,
     journal, payload, ghost
<1>14. CASE \/ VerifyQuarantineTarget \/ Commit \/ FinishApply
            \/ (\E p \in Paths : NotPublished(p))
  BY <1>0, <1>14 DEF Journaled, Pending, Values, JournalState, VerifyQuarantineTarget, Commit,
     Goto, FinishApply, Forget, NoFiles, NotPublished, Done, project, journal, payload, ghost
<1>15. CASE \/ (\E p \in Paths : PreserveAfterFile(p)) \/ SyncAfterCopy
            \/ DiscardFreshCopy \/ HoldAfterFile
  BY <1>0, <1>15 DEF Journaled, Pending, Values, JournalState, PreserveAfterFile,
     SyncAfterCopy, Goto, DiscardFreshCopy, Forget, NoFiles, HoldAfterFile, project, journal,
     payload, ghost
<1>16. CASE \/ SyncHold \/ DropHeld \/ SyncDrop \/ AfterFilesRemoved
  BY <1>0, <1>16 DEF Journaled, Pending, Values, JournalState, SyncHold, Settle, Goto,
     DropHeld, SyncDrop, GotoWith, AfterFilesRemoved, project, journal, payload, ghost
<1>17. CASE \/ (\E p \in Paths : KeepBeforeFile(p))
            \/ (\E p \in Paths : CopyBackupFile(p)) \/ SyncBackupCopy
            \/ DiscardBackupCopy
  BY <1>0, <1>17 DEF Journaled, Pending, Values, JournalState, KeepBeforeFile, SetMtime, Done,
     CopyBackupFile, SyncBackupCopy, Settle, DiscardBackupCopy, Forget, NoFiles, journal,
     payload, ghost
<1>18. CASE \/ BeforeFilesRestored
            \/ (\E p \in Paths : RecoverProjectFileMtime(p))
            \/ EnsureBeforeStateRestored \/ DropStaged
  BY <1>0, <1>18 DEF Journaled, Pending, Values, JournalState, BeforeFilesRestored, GotoWith,
     RecoverProjectFileMtime, SetMtime, Done, EnsureBeforeStateRestored, Goto, DropStaged,
     project, journal, payload, ghost
<1>19. CASE \/ CloseRescue \/ (\E p \in Paths : PreserveConflict(p))
            \/ SyncRescueCopy \/ WriteRescueRecord
  BY <1>0, <1>19 DEF Journaled, Pending, Values, JournalState, CloseRescue, Forget, NoFiles,
     PreserveConflict, SyncRescueCopy, GotoWith, WriteRescueRecord, Goto, project, journal,
     ghost
<1>20. CASE \/ StartResolve \/ (\E p \in Paths : EntryResolved(p))
            \/ (\E p \in Paths : ResetConflictTime(p))
            \/ (\E p \in Paths : RemoveConflict(p))
  BY <1>0, <1>20 DEF Journaled, Pending, Values, JournalState, StartResolve, GotoWith,
     EntryResolved, ResetConflictTime, SetMtime, RemoveConflict, project, journal, payload,
     ghost
<1>21. CASE \/ SyncConflictRemoval \/ CompleteEntry \/ ConflictsResolved
            \/ QuarantineUnknownTransaction
  BY <1>0, <1>21 DEF Journaled, Pending, Values, JournalState, SyncConflictRemoval, Settle,
     Goto, CompleteEntry, GotoWith, ConflictsResolved, EnterRollback,
     QuarantineUnknownTransaction, WriteQuarantineRecord, project, journal, payload, ghost
<1>22. CASE \/ MoveJournal \/ Release
  BY <1>0, <1>22 DEF Journaled, Pending, Values, JournalState, MoveJournal, Forget, NoFiles,
     Release, project, journal, payload, ghost
<1>23. CASE UNCHANGED vars
  BY <1>0, <1>23 DEF Journaled, Pending, Values, JournalState, vars, project, journal,
     payload, control, ghost
<1>24. QED
  BY <1>0, <1>1, <1>2, <1>3, <1>4, <1>5, <1>6, <1>7, <1>8, <1>9, <1>10, <1>11, <1>12, <1>13,
     <1>14, <1>15, <1>16, <1>17, <1>18, <1>19, <1>20, <1>21, <1>22, <1>23, Begins DEF Next,
     Prepare, Apply, Rollback, Rescue, Quarantine, User, PowerLoss

(* Backups are made durable before a source is removed. *)
LEMMA BatchStays ==
    ASSUME TypeInv, Batched, [Next]_vars
    PROVE  Batched'
<1>0. TypeOK /\ Values /\ StepsKnow
  BY DEF TypeInv, TypeOK, Values
<1>1. ASSUME NEW k \in {"restore", "discard"}, NEW target \in Tree, Begin(k, target)
      PROVE  Batched'
  BY <1>0, <1>1 DEF Batched, StepsKnow, Values, Begin, Goto, project
<1>2. CASE MarkApplying
  BY <1>0, <1>2 DEF Batched, StepsKnow, Values, MarkApplying, GotoWith, project, payload, ghost
<1>3. ASSUME NEW p \in Paths, BackupProjectFile(p) PROVE Batched'
  BY <1>0, <1>3 DEF Batched, StepsKnow, Values, BackupProjectFile, project, journal, ghost
<1>4. ASSUME NEW p \in Paths, RemoveBackupSource(p) PROVE Batched'
  BY <1>0, <1>4 DEF Batched, StepsKnow, Values, RemoveBackupSource, journal, payload, ghost
<1>5. CASE FlushBackups
  BY <1>0, <1>5 DEF Batched, StepsKnow, Values, FlushBackups, Goto, project, journal, ghost
<1>6. CASE FlushBackupSources
  BY <1>0, <1>6 DEF Batched, StepsKnow, Values, FlushBackupSources, Settle, GotoWith, Goto,
     journal, payload, ghost
<1>7. ASSUME NEW p \in Paths, NEW f \in UserFiles, UserEdit(p, f) PROVE Batched'
  BY <1>0, <1>7 DEF Batched, StepsKnow, Values, UserEdit, journal, payload
<1>8. ASSUME NEW lost, NEW lostBackups, NEW lostCopies,
             LosePower(lost, lostBackups, lostCopies)
      PROVE  Batched'
  BY <1>0, <1>8 DEF Batched, StepsKnow, Values, LosePower, Forget, journal, ghost, NoFiles
<1>9. CASE \/ RestoreWithoutChange \/ WriteJournal \/ StageOperations
           \/ MarkStaged \/ RecheckPreconditions \/ AbortPrepare
           \/ (\E p \in Paths : PublishStagedFile(p))
  BY <1>0, <1>9 DEF Batched, StepsKnow, Values, RestoreWithoutChange, WriteJournal,
     MarkJournal, Goto, StageOperations, MarkStaged, RecheckPreconditions, AbortPrepare,
     Forget, NoFiles, PublishStagedFile, Done, project, journal, payload, control, ghost
<1>10. CASE \/ (\E p \in Paths : SetProjectFileMtime(p)) \/ FlushPublished
            \/ VerifyQuarantineTarget \/ Commit \/ FinishApply \/ Recover
            \/ (\E p \in Paths : NotPublished(p))
  BY <1>0, <1>10 DEF Batched, StepsKnow, Values, SetProjectFileMtime, SetMtime, Done,
     FlushPublished, Settle, Goto, VerifyQuarantineTarget, Commit, FinishApply, Forget,
     NoFiles, Recover, EnterRollback, GotoWith, NotPublished, project, journal, payload, ghost
<1>11. CASE \/ (\E p \in Paths : PreserveAfterFile(p)) \/ SyncAfterCopy
            \/ DiscardFreshCopy \/ HoldAfterFile \/ SyncHold \/ DropHeld
            \/ SyncDrop
  BY <1>0, <1>11 DEF Batched, StepsKnow, Values, PreserveAfterFile, SyncAfterCopy, Goto,
     DiscardFreshCopy, Forget, NoFiles, HoldAfterFile, SyncHold, Settle, DropHeld, SyncDrop,
     GotoWith, project, journal, payload, ghost
<1>12. CASE \/ AfterFilesRemoved \/ (\E p \in Paths : KeepBeforeFile(p))
            \/ (\E p \in Paths : CopyBackupFile(p)) \/ SyncBackupCopy
            \/ DiscardBackupCopy \/ BeforeFilesRestored
            \/ (\E p \in Paths : RecoverProjectFileMtime(p))
  BY <1>0, <1>12 DEF Batched, StepsKnow, Values, AfterFilesRemoved, GotoWith, KeepBeforeFile,
     SetMtime, Done, CopyBackupFile, SyncBackupCopy, Settle, DiscardBackupCopy, Forget,
     NoFiles, BeforeFilesRestored, RecoverProjectFileMtime, project, journal, payload, ghost
<1>13. CASE \/ EnsureBeforeStateRestored \/ DropStaged \/ MarkRecovered
            \/ CloseRescue \/ BeginRescue
            \/ (\E p \in Paths : PreserveConflict(p)) \/ SyncRescueCopy
  BY <1>0, <1>13 DEF Batched, StepsKnow, Values, EnsureBeforeStateRestored, Goto, DropStaged,
     MarkRecovered, Forget, NoFiles, CloseRescue, BeginRescue, PreserveConflict,
     SyncRescueCopy, GotoWith, project, journal, payload, ghost
<1>14. CASE \/ WriteRescueRecord \/ StartResolve
            \/ (\E p \in Paths : EntryResolved(p))
            \/ (\E p \in Paths : ResetConflictTime(p))
            \/ (\E p \in Paths : RemoveConflict(p)) \/ SyncConflictRemoval
            \/ CompleteEntry
  BY <1>0, <1>14 DEF Batched, StepsKnow, Values, WriteRescueRecord, Goto, StartResolve,
     GotoWith, EntryResolved, ResetConflictTime, SetMtime, RemoveConflict,
     SyncConflictRemoval, Settle, CompleteEntry, project, journal, payload, ghost
<1>15. CASE \/ ConflictsResolved \/ QuarantineTransaction
            \/ QuarantineUnknownTransaction \/ MoveJournal \/ MoveJournalFails
            \/ Release
  BY <1>0, <1>15 DEF Batched, StepsKnow, Values, ConflictsResolved, EnterRollback, GotoWith,
     QuarantineTransaction, WriteQuarantineRecord, QuarantineUnknownTransaction, MoveJournal,
     Forget, NoFiles, MoveJournalFails, Release, project, journal, payload, ghost
<1>16. CASE UNCHANGED vars
  BY <1>0, <1>16 DEF Batched, StepsKnow, Values, vars, project, journal, payload, control, ghost
<1>17. QED
  BY <1>0, <1>1, <1>2, <1>3, <1>4, <1>5, <1>6, <1>7, <1>8, <1>9, <1>10, <1>11, <1>12, <1>13,
     <1>14, <1>15, <1>16, Begins DEF Next, Prepare, Apply, Rollback, Rescue, Quarantine, User,
     PowerLoss

(* Only a beginning makes a transaction pending, and until it ends no path *)
(* is left alone that was not before.                                      *)
LEMMA PendingStays ==
    ASSUME TypeInv, Journaled, ~(BeginRestore \/ BeginDiscard), Pending',
           NEW q \in Alone', [Next]_vars
    PROVE  Pending /\ q \in Alone /\ UNCHANGED <<before, after>>
<1>0. TypeOK /\ Values /\ StepsKnow
  BY DEF TypeInv, TypeOK, Values
<1>1. ASSUME NEW p \in Paths, NEW f \in UserFiles, UserEdit(p, f)
      PROVE  Pending /\ q \in Alone /\ UNCHANGED <<before, after>>
  BY <1>0, <1>1 DEF Journaled, Pending, Alone, Values, JournalState, UserEdit, journal, payload
<1>2. ASSUME NEW lost, NEW lostBackups, NEW lostCopies,
             LosePower(lost, lostBackups, lostCopies)
      PROVE  Pending /\ q \in Alone /\ UNCHANGED <<before, after>>
  BY <1>0, <1>2 DEF Journaled, Pending, Alone, Values, JournalState, LosePower, Forget,
     journal, ghost, NoFiles
<1>3. CASE \/ (BeginRestore \/ BeginDiscard) \/ RestoreWithoutChange
           \/ WriteJournal \/ StageOperations \/ MarkStaged
  BY <1>0, <1>3 DEF Journaled, Pending, Alone, Values, JournalState, Begin, Goto,
     RestoreWithoutChange, WriteJournal, MarkJournal, StageOperations, MarkStaged, project,
     journal, payload, control, ghost
<1>4. CASE \/ RecheckPreconditions \/ MarkApplying \/ AbortPrepare
           \/ (\E p \in Paths : BackupProjectFile(p))
           \/ (\E p \in Paths : RemoveBackupSource(p))
  BY <1>0, <1>4 DEF Journaled, Pending, Alone, Values, JournalState, RecheckPreconditions,
     Goto, MarkApplying, GotoWith, AbortPrepare, Forget, NoFiles, BackupProjectFile,
     RemoveBackupSource, project, journal, payload, ghost
<1>5. CASE \/ FlushBackups \/ FlushBackupSources
           \/ (\E p \in Paths : PublishStagedFile(p))
           \/ (\E p \in Paths : SetProjectFileMtime(p)) \/ FlushPublished
  BY <1>0, <1>5 DEF Journaled, Pending, Alone, Values, JournalState, FlushBackups, Goto,
     FlushBackupSources, Settle, GotoWith, PublishStagedFile, Done, SetProjectFileMtime,
     SetMtime, FlushPublished, project, journal, payload, ghost
<1>6. CASE \/ VerifyQuarantineTarget \/ Commit \/ FinishApply \/ Recover
           \/ (\E p \in Paths : NotPublished(p))
  BY <1>0, <1>6 DEF Journaled, Pending, Alone, Values, JournalState, VerifyQuarantineTarget,
     Commit, Goto, FinishApply, Forget, NoFiles, Recover, EnterRollback, GotoWith,
     NotPublished, Done, project, journal, payload, ghost
<1>7. CASE \/ (\E p \in Paths : PreserveAfterFile(p)) \/ SyncAfterCopy
           \/ DiscardFreshCopy \/ HoldAfterFile \/ SyncHold
  BY <1>0, <1>7 DEF Journaled, Pending, Alone, Values, JournalState, PreserveAfterFile,
     SyncAfterCopy, Goto, DiscardFreshCopy, Forget, NoFiles, HoldAfterFile, SyncHold, Settle,
     project, journal, payload, ghost
<1>8. CASE \/ DropHeld \/ SyncDrop \/ AfterFilesRemoved
           \/ (\E p \in Paths : KeepBeforeFile(p))
           \/ (\E p \in Paths : CopyBackupFile(p))
  BY <1>0, <1>8 DEF Journaled, Pending, Alone, Values, JournalState, DropHeld, Goto, SyncDrop,
     Settle, GotoWith, AfterFilesRemoved, KeepBeforeFile, SetMtime, Done, CopyBackupFile,
     project, journal, payload, ghost
<1>9. CASE \/ SyncBackupCopy \/ DiscardBackupCopy \/ BeforeFilesRestored
           \/ (\E p \in Paths : RecoverProjectFileMtime(p))
           \/ EnsureBeforeStateRestored
  BY <1>0, <1>9 DEF Journaled, Pending, Alone, Values, JournalState, SyncBackupCopy, Settle,
     DiscardBackupCopy, Forget, NoFiles, BeforeFilesRestored, GotoWith,
     RecoverProjectFileMtime, SetMtime, Done, EnsureBeforeStateRestored, Goto, project,
     journal, payload, ghost
<1>10. CASE \/ DropStaged \/ MarkRecovered \/ CloseRescue \/ BeginRescue
            \/ (\E p \in Paths : PreserveConflict(p))
  BY <1>0, <1>10 DEF Journaled, Pending, Alone, Values, JournalState, DropStaged, Goto,
     MarkRecovered, Forget, NoFiles, CloseRescue, BeginRescue, PreserveConflict, project,
     journal, payload, ghost
<1>11. CASE \/ SyncRescueCopy \/ WriteRescueRecord \/ StartResolve
            \/ (\E p \in Paths : EntryResolved(p))
            \/ (\E p \in Paths : ResetConflictTime(p))
  BY <1>0, <1>11 DEF Journaled, Pending, Alone, Values, JournalState, SyncRescueCopy,
     GotoWith, WriteRescueRecord, Goto, StartResolve, EntryResolved, ResetConflictTime,
     SetMtime, project, journal, payload, ghost
<1>12. CASE \/ (\E p \in Paths : RemoveConflict(p)) \/ SyncConflictRemoval
            \/ CompleteEntry \/ ConflictsResolved \/ QuarantineTransaction
  BY <1>0, <1>12 DEF Journaled, Pending, Alone, Values, JournalState, RemoveConflict,
     SyncConflictRemoval, Settle, Goto, CompleteEntry, GotoWith, ConflictsResolved,
     EnterRollback, QuarantineTransaction, WriteQuarantineRecord, project, journal, payload,
     ghost
<1>13. CASE \/ QuarantineUnknownTransaction \/ MoveJournal \/ MoveJournalFails
            \/ Release
  BY <1>0, <1>13 DEF Journaled, Pending, Alone, Values, JournalState,
     QuarantineUnknownTransaction, WriteQuarantineRecord, MoveJournal, Forget, NoFiles,
     MoveJournalFails, Release, project, journal, payload, ghost
<1>14. CASE UNCHANGED vars
  BY <1>0, <1>14 DEF Journaled, Pending, Alone, Values, JournalState, vars, project, journal,
     payload, control, ghost
<1>15. QED
  BY <1>0, <1>1, <1>2, <1>3, <1>4, <1>5, <1>6, <1>7, <1>8, <1>9, <1>10, <1>11, <1>12, <1>13,
     <1>14 DEF Next, Prepare, Apply, Rollback, Rescue, Quarantine, User, PowerLoss

(* What the transaction removes has a durable backup, what it publishes is *)
(* the target's, and what it undoes is the file that was there before.     *)
LEMMA PlacesStay ==
    ASSUME TypeInv, RollbackInv, Pending', NEW q \in Alone', [Next]_vars
    PROVE  InPlace(q)'
<1> USE TransactionAssumption
<1>0. /\ TypeOK /\ Values /\ StepsKnow /\ Journaled /\ Batched /\ q \in Paths
      /\ Pending /\ q \in Alone => InPlace(q) /\ Applied(q) /\ RolledBack(q) /\ NotRescued(q)
  BY DEF TypeInv, TypeOK, Values, RollbackInv, Alone
<1>1. ASSUME NEW k \in {"restore", "discard"}, NEW target \in Tree, Begin(k, target)
      PROVE  InPlace(q)'
  BY <1>0, <1>1 DEF InPlace, Unsettled, Alone, Values, Begin, Goto, project
<1>2. SUFFICES ASSUME ~(BeginRestore \/ BeginDiscard) PROVE InPlace(q)'
  BY <1>0, <1>1, Begins
<1>3. Pending /\ q \in Alone /\ UNCHANGED <<before, after>>
  BY <1>0, <1>2, PendingStays
<1>4. /\ Kinds(q) /\ InPlace(q) /\ Applied(q) /\ RolledBack(q) /\ NotRescued(q)
      /\ Ops' = Ops /\ StagedOps' = StagedOps /\ BackupOps' = BackupOps
      /\ MetaOps' = MetaOps /\ ReplaceOps' = ReplaceOps
  BY <1>0, <1>3, OpKinds, SameOps
<1>5. CASE WriteJournal
  BY <1>0, <1>3, <1>4, <1>5 DEF Pending, InPlace, Applied, RolledBack, NotRescued, Journaled,
     Batched, StepsKnow, Removing, RemovingOne, Resolving, Kinds, Alone, Values, Tree,
     SameData, WriteJournal, MarkJournal, Goto, project, payload, ghost
<1>6. CASE MarkStaged
  BY <1>0, <1>3, <1>4, <1>6 DEF Pending, InPlace, Applied, RolledBack, NotRescued, Journaled,
     Batched, StepsKnow, Removing, RemovingOne, Resolving, Kinds, Alone, Values, Tree,
     SameData, MarkStaged, MarkJournal, Goto, project, payload, ghost
<1>7. CASE MarkApplying
  BY <1>0, <1>3, <1>4, <1>7 DEF Pending, InPlace, Applied, RolledBack, NotRescued, Journaled,
     Batched, StepsKnow, Removing, RemovingOne, Resolving, Kinds, Alone, Values, Tree,
     SameData, MarkApplying, GotoWith, project, payload, ghost
<1>8. CASE AbortPrepare
  BY <1>0, <1>3, <1>4, <1>8 DEF Pending, InPlace, Applied, RolledBack, NotRescued, Journaled,
     Batched, StepsKnow, Removing, RemovingOne, Resolving, Kinds, Alone, Values, Tree,
     SameData, AbortPrepare, Forget, project, ghost, NoFiles
<1>9. ASSUME NEW p \in Paths, BackupProjectFile(p) PROVE InPlace(q)'
  BY <1>0, <1>3, <1>4, <1>9 DEF Pending, InPlace, Applied, RolledBack, NotRescued, Journaled,
     Batched, StepsKnow, Removing, RemovingOne, Resolving, Kinds, Alone, Values, Tree,
     SameData, BackupProjectFile, project, journal, ghost
<1>10. ASSUME NEW p \in Paths, RemoveBackupSource(p) PROVE InPlace(q)'
  BY <1>0, <1>3, <1>4, <1>10 DEF Pending, InPlace, Applied, RolledBack, NotRescued, Journaled,
     Batched, StepsKnow, Removing, RemovingOne, Resolving, Kinds, Alone, Values, Tree,
     SameData, RemoveBackupSource, journal, payload, ghost
<1>11. CASE FlushBackups
  BY <1>0, <1>3, <1>4, <1>11 DEF Pending, InPlace, Applied, RolledBack, NotRescued, Journaled,
     Batched, StepsKnow, Removing, RemovingOne, Resolving, Kinds, Alone, Values, Tree,
     SameData, FlushBackups, Goto, project, journal, ghost
<1>12. CASE FlushBackupSources
  BY <1>0, <1>3, <1>4, <1>12 DEF Pending, InPlace, Applied, RolledBack, NotRescued, Journaled,
     Batched, StepsKnow, Removing, RemovingOne, Resolving, Kinds, Alone, Values, Tree,
     SameData, FlushBackupSources, Settle, GotoWith, Goto, journal, payload, ghost
<1>13. ASSUME NEW p \in Paths, PublishStagedFile(p) PROVE InPlace(q)'
  BY <1>0, <1>3, <1>4, <1>13 DEF Pending, InPlace, Applied, RolledBack, NotRescued, Journaled,
     Batched, StepsKnow, Removing, RemovingOne, Resolving, Kinds, Alone, Values, Tree,
     SameData, PublishStagedFile, Done, journal, ghost
<1>14. ASSUME NEW p \in Paths, SetProjectFileMtime(p) PROVE InPlace(q)'
  BY <1>0, <1>3, <1>4, <1>14 DEF Pending, InPlace, Applied, RolledBack, NotRescued, Journaled,
     Batched, StepsKnow, Removing, RemovingOne, Resolving, Kinds, Alone, Values, Tree,
     SameData, SetProjectFileMtime, SetMtime, Done, journal, payload, ghost
<1>15. CASE FlushPublished
  BY <1>0, <1>3, <1>4, <1>15 DEF Pending, InPlace, Applied, RolledBack, NotRescued, Journaled,
     Batched, StepsKnow, Removing, RemovingOne, Resolving, Kinds, Alone, Values, Tree,
     SameData, FlushPublished, Settle, Goto, journal, payload, ghost
<1>16. CASE Commit
  BY <1>0, <1>3, <1>4, <1>16 DEF Pending, InPlace, Applied, RolledBack, NotRescued, Journaled,
     Batched, StepsKnow, Removing, RemovingOne, Resolving, Kinds, Alone, Values, Tree,
     SameData, Commit, Goto, project, payload
<1>17. CASE HoldAfterFile
  BY <1>0, <1>3, <1>4, <1>17 DEF Pending, InPlace, Applied, RolledBack, NotRescued, Journaled,
     Batched, StepsKnow, Removing, RemovingOne, Resolving, Kinds, Alone, Values, Tree,
     SameData, HoldAfterFile, Goto, journal, payload, ghost
<1>18. CASE SyncHold
  BY <1>0, <1>3, <1>4, <1>18 DEF Pending, InPlace, Applied, RolledBack, NotRescued, Journaled,
     Batched, StepsKnow, Removing, RemovingOne, Resolving, Kinds, Alone, Values, Tree,
     SameData, SyncHold, Settle, Goto, journal, payload, ghost
<1>19. CASE SyncDrop
  BY <1>0, <1>3, <1>4, <1>19 DEF Pending, InPlace, Applied, RolledBack, NotRescued, Journaled,
     Batched, StepsKnow, Removing, RemovingOne, Resolving, Kinds, Alone, Values, Tree,
     SameData, SyncDrop, Settle, GotoWith, journal, payload, ghost
<1>20. ASSUME NEW p \in Paths, KeepBeforeFile(p) PROVE InPlace(q)'
  BY <1>0, <1>3, <1>4, <1>20 DEF Pending, InPlace, Applied, RolledBack, NotRescued, Journaled,
     Batched, StepsKnow, Removing, RemovingOne, Resolving, Kinds, Alone, Values, Tree,
     SameData, KeepBeforeFile, SetMtime, Done, journal, payload, ghost
<1>21. ASSUME NEW p \in Paths, CopyBackupFile(p) PROVE InPlace(q)'
  BY <1>0, <1>3, <1>4, <1>21 DEF Pending, InPlace, Applied, RolledBack, NotRescued, Journaled,
     Batched, StepsKnow, Removing, RemovingOne, Resolving, Kinds, Alone, Values, Tree,
     SameData, CopyBackupFile, journal, payload, ghost
<1>22. CASE SyncBackupCopy
  BY <1>0, <1>3, <1>4, <1>22 DEF Pending, InPlace, Applied, RolledBack, NotRescued, Journaled,
     Batched, StepsKnow, Removing, RemovingOne, Resolving, Kinds, Alone, Values, Tree,
     SameData, SyncBackupCopy, Settle, journal, payload, ghost
<1>23. CASE DiscardBackupCopy
  BY <1>0, <1>3, <1>4, <1>23 DEF Pending, InPlace, Applied, RolledBack, NotRescued, Journaled,
     Batched, StepsKnow, Removing, RemovingOne, Resolving, Kinds, Alone, Values, Tree,
     SameData, DiscardBackupCopy, Forget, journal, payload, ghost, NoFiles
<1>24. ASSUME NEW p \in Paths, RecoverProjectFileMtime(p) PROVE InPlace(q)'
  BY <1>0, <1>3, <1>4, <1>24 DEF Pending, InPlace, Applied, RolledBack, NotRescued, Journaled,
     Batched, StepsKnow, Removing, RemovingOne, Resolving, Kinds, Alone, Values, Tree,
     SameData, RecoverProjectFileMtime, SetMtime, Done, journal, payload, ghost
<1>25. ASSUME NEW p \in Paths, ResetConflictTime(p) PROVE InPlace(q)'
  BY <1>0, <1>3, <1>4, <1>25 DEF Pending, InPlace, Applied, RolledBack, NotRescued, Journaled,
     Batched, StepsKnow, Removing, RemovingOne, Resolving, Kinds, Alone, Values, Tree,
     SameData, ResetConflictTime, SetMtime, journal, payload, ghost
<1>26. ASSUME NEW p \in Paths, RemoveConflict(p) PROVE InPlace(q)'
  BY <1>0, <1>3, <1>4, <1>26 DEF Pending, InPlace, Applied, RolledBack, NotRescued, Journaled,
     Batched, StepsKnow, Removing, RemovingOne, Resolving, Kinds, Alone, Values, Tree,
     SameData, RemoveConflict, journal, payload, ghost
<1>27. CASE SyncConflictRemoval
  BY <1>0, <1>3, <1>4, <1>27 DEF Pending, InPlace, Applied, RolledBack, NotRescued, Journaled,
     Batched, StepsKnow, Removing, RemovingOne, Resolving, Kinds, Alone, Values, Tree,
     SameData, SyncConflictRemoval, Settle, Goto, journal, payload, ghost
<1>28. ASSUME NEW p \in Paths, NEW f \in UserFiles, UserEdit(p, f) PROVE InPlace(q)'
  BY <1>0, <1>3, <1>4, <1>28 DEF Pending, InPlace, Applied, RolledBack, NotRescued, Journaled,
     Batched, StepsKnow, Removing, RemovingOne, Resolving, Kinds, Alone, Values, Tree,
     SameData, UserEdit, journal, payload
<1>29. ASSUME NEW lost, NEW lostBackups, NEW lostCopies,
             LosePower(lost, lostBackups, lostCopies)
      PROVE  InPlace(q)'
  BY <1>0, <1>3, <1>4, <1>29 DEF Pending, InPlace, Applied, RolledBack, NotRescued, Journaled,
     Batched, StepsKnow, Removing, RemovingOne, Resolving, Kinds, Alone, Values, Tree,
     SameData, LosePower, Forget, journal, ghost, NoFiles
<1>30. CASE \/ RestoreWithoutChange \/ StageOperations \/ RecheckPreconditions
            \/ VerifyQuarantineTarget \/ FinishApply \/ Recover
            \/ (\E p \in Paths : NotPublished(p))
  BY <1>0, <1>3, <1>4, <1>30 DEF InPlace, Pending, RestoreWithoutChange, StageOperations,
     Goto, RecheckPreconditions, VerifyQuarantineTarget, FinishApply, Forget, NoFiles,
     Recover, EnterRollback, GotoWith, NotPublished, Done, project, journal, payload, control,
     ghost
<1>31. CASE \/ (\E p \in Paths : PreserveAfterFile(p)) \/ SyncAfterCopy
            \/ DiscardFreshCopy \/ DropHeld \/ AfterFilesRemoved
            \/ BeforeFilesRestored \/ EnsureBeforeStateRestored
  BY <1>0, <1>3, <1>4, <1>31 DEF InPlace, Pending, PreserveAfterFile, SyncAfterCopy, Goto,
     DiscardFreshCopy, Forget, NoFiles, DropHeld, AfterFilesRemoved, GotoWith,
     BeforeFilesRestored, EnsureBeforeStateRestored, project, journal, payload, ghost
<1>32. CASE \/ DropStaged \/ MarkRecovered \/ CloseRescue \/ BeginRescue
            \/ (\E p \in Paths : PreserveConflict(p)) \/ SyncRescueCopy
            \/ WriteRescueRecord
  BY <1>0, <1>3, <1>4, <1>32 DEF InPlace, Pending, DropStaged, Goto, MarkRecovered, Forget,
     NoFiles, CloseRescue, BeginRescue, PreserveConflict, SyncRescueCopy, GotoWith,
     WriteRescueRecord, project, journal, payload, ghost
<1>33. CASE \/ StartResolve \/ (\E p \in Paths : EntryResolved(p))
            \/ CompleteEntry \/ ConflictsResolved \/ QuarantineTransaction
            \/ QuarantineUnknownTransaction \/ MoveJournal
  BY <1>0, <1>3, <1>4, <1>33 DEF InPlace, Pending, StartResolve, GotoWith, EntryResolved,
     CompleteEntry, ConflictsResolved, EnterRollback, QuarantineTransaction,
     WriteQuarantineRecord, QuarantineUnknownTransaction, MoveJournal, Forget, NoFiles,
     project, journal, payload, ghost
<1>34. CASE \/ MoveJournalFails \/ Release
  BY <1>0, <1>3, <1>4, <1>34 DEF InPlace, Pending, MoveJournalFails, Forget, NoFiles, Release,
     project, journal, payload, ghost
<1>35. CASE UNCHANGED vars
  BY <1>0, <1>3, <1>4, <1>35 DEF InPlace, Pending, vars, project, journal, payload, control,
     ghost
<1>36. QED
  BY <1>2, <1>5, <1>6, <1>7, <1>8, <1>9, <1>10, <1>11, <1>12, <1>13, <1>14, <1>15, <1>16,
     <1>17, <1>18, <1>19, <1>20, <1>21, <1>22, <1>23, <1>24, <1>25, <1>26, <1>27, <1>28,
     <1>29, <1>30, <1>31, <1>32, <1>33, <1>34, <1>35 DEF Next, Prepare, Apply, Rollback,
     Rescue, Quarantine, User, PowerLoss

(* A step of the apply leaves its path where the next one expects it. *)
LEMMA ApplyStays ==
    ASSUME TypeInv, RollbackInv, Pending', NEW q \in Alone', [Next]_vars
    PROVE  Applied(q)'
<1> USE TransactionAssumption
<1>0. /\ TypeOK /\ Values /\ StepsKnow /\ Journaled /\ Batched /\ q \in Paths
      /\ Pending /\ q \in Alone => InPlace(q) /\ Applied(q) /\ RolledBack(q) /\ NotRescued(q)
  BY DEF TypeInv, TypeOK, Values, RollbackInv, Alone
<1>1. ASSUME NEW k \in {"restore", "discard"}, NEW target \in Tree, Begin(k, target)
      PROVE  Applied(q)'
  BY <1>0, <1>1 DEF Applied, Unsettled, Alone, Values, Begin, Goto, project
<1>2. SUFFICES ASSUME ~(BeginRestore \/ BeginDiscard) PROVE Applied(q)'
  BY <1>0, <1>1, Begins
<1>3. Pending /\ q \in Alone /\ UNCHANGED <<before, after>>
  BY <1>0, <1>2, PendingStays
<1>4. /\ Kinds(q) /\ InPlace(q) /\ Applied(q) /\ RolledBack(q) /\ NotRescued(q)
      /\ Ops' = Ops /\ StagedOps' = StagedOps /\ BackupOps' = BackupOps
      /\ MetaOps' = MetaOps /\ ReplaceOps' = ReplaceOps
  BY <1>0, <1>3, OpKinds, SameOps
<1>5. CASE StageOperations
  BY <1>0, <1>3, <1>4, <1>5 DEF Pending, InPlace, Applied, RolledBack, NotRescued, Journaled,
     Batched, StepsKnow, Removing, RemovingOne, Resolving, Kinds, Alone, Values, Tree,
     SameData, StageOperations, Goto, project, journal, ghost
<1>6. CASE RecheckPreconditions
  BY <1>0, <1>3, <1>4, <1>6 DEF Pending, InPlace, Applied, RolledBack, NotRescued, Journaled,
     Batched, StepsKnow, Removing, RemovingOne, Resolving, Kinds, Alone, Values, Tree,
     SameData, RecheckPreconditions, Goto, project, journal, payload, ghost
<1>7. CASE MarkApplying
  BY <1>0, <1>3, <1>4, <1>7 DEF Pending, InPlace, Applied, RolledBack, NotRescued, Journaled,
     Batched, StepsKnow, Removing, RemovingOne, Resolving, Kinds, Alone, Values, Tree,
     SameData, MarkApplying, GotoWith, project, payload, ghost
<1>8. ASSUME NEW p \in Paths, BackupProjectFile(p) PROVE Applied(q)'
  BY <1>0, <1>3, <1>4, <1>8 DEF Pending, InPlace, Applied, RolledBack, NotRescued, Journaled,
     Batched, StepsKnow, Removing, RemovingOne, Resolving, Kinds, Alone, Values, Tree,
     SameData, BackupProjectFile, project, journal, ghost
<1>9. ASSUME NEW p \in Paths, RemoveBackupSource(p) PROVE Applied(q)'
  BY <1>0, <1>3, <1>4, <1>9 DEF Pending, InPlace, Applied, RolledBack, NotRescued, Journaled,
     Batched, StepsKnow, Removing, RemovingOne, Resolving, Kinds, Alone, Values, Tree,
     SameData, RemoveBackupSource, journal, payload, ghost
<1>10. CASE FlushBackups
  BY <1>0, <1>3, <1>4, <1>10 DEF Pending, InPlace, Applied, RolledBack, NotRescued, Journaled,
     Batched, StepsKnow, Removing, RemovingOne, Resolving, Kinds, Alone, Values, Tree,
     SameData, FlushBackups, Goto, project, journal, ghost
<1>11. CASE FlushBackupSources
  BY <1>0, <1>3, <1>4, <1>11 DEF Pending, InPlace, Applied, RolledBack, NotRescued, Journaled,
     Batched, StepsKnow, Removing, RemovingOne, Resolving, Kinds, Alone, Values, Tree,
     SameData, FlushBackupSources, Settle, GotoWith, Goto, journal, payload, ghost
<1>12. ASSUME NEW p \in Paths, PublishStagedFile(p) PROVE Applied(q)'
  BY <1>0, <1>3, <1>4, <1>12 DEF Pending, InPlace, Applied, RolledBack, NotRescued, Journaled,
     Batched, StepsKnow, Removing, RemovingOne, Resolving, Kinds, Alone, Values, Tree,
     SameData, PublishStagedFile, Done, journal, ghost
<1>13. ASSUME NEW p \in Paths, SetProjectFileMtime(p) PROVE Applied(q)'
  BY <1>0, <1>3, <1>4, <1>13 DEF Pending, InPlace, Applied, RolledBack, NotRescued, Journaled,
     Batched, StepsKnow, Removing, RemovingOne, Resolving, Kinds, Alone, Values, Tree,
     SameData, SetProjectFileMtime, SetMtime, Done, journal, payload, ghost
<1>14. CASE FlushPublished
  BY <1>0, <1>3, <1>4, <1>14 DEF Pending, InPlace, Applied, RolledBack, NotRescued, Journaled,
     Batched, StepsKnow, Removing, RemovingOne, Resolving, Kinds, Alone, Values, Tree,
     SameData, FlushPublished, Settle, Goto, journal, payload, ghost
<1>15. CASE VerifyQuarantineTarget
  BY <1>0, <1>3, <1>4, <1>15 DEF Pending, InPlace, Applied, RolledBack, NotRescued, Journaled,
     Batched, StepsKnow, Removing, RemovingOne, Resolving, Kinds, Alone, Values, Tree,
     SameData, VerifyQuarantineTarget, project, journal, payload, ghost
<1>16. CASE Recover
  BY <1>0, <1>3, <1>4, <1>16 DEF Pending, InPlace, Applied, RolledBack, NotRescued, Journaled,
     Batched, StepsKnow, Removing, RemovingOne, Resolving, Kinds, Alone, Values, Tree,
     SameData, Recover, Goto, EnterRollback, project, journal, payload, ghost, GotoWith
<1>17. ASSUME NEW p \in Paths, PreserveAfterFile(p) PROVE Applied(q)'
  BY <1>0, <1>3, <1>4, <1>17 DEF Pending, InPlace, Applied, RolledBack, NotRescued, Journaled,
     Batched, StepsKnow, Removing, RemovingOne, Resolving, Kinds, Alone, Values, Tree,
     SameData, PreserveAfterFile, project, journal, ghost
<1>18. CASE HoldAfterFile
  BY <1>0, <1>3, <1>4, <1>18 DEF Pending, InPlace, Applied, RolledBack, NotRescued, Journaled,
     Batched, StepsKnow, Removing, RemovingOne, Resolving, Kinds, Alone, Values, Tree,
     SameData, HoldAfterFile, Goto, journal, payload, ghost
<1>19. ASSUME NEW p \in Paths, CopyBackupFile(p) PROVE Applied(q)'
  BY <1>0, <1>3, <1>4, <1>19 DEF Pending, InPlace, Applied, RolledBack, NotRescued, Journaled,
     Batched, StepsKnow, Removing, RemovingOne, Resolving, Kinds, Alone, Values, Tree,
     SameData, CopyBackupFile, journal, payload, ghost
<1>20. CASE ConflictsResolved
  BY <1>0, <1>3, <1>4, <1>20 DEF Pending, InPlace, Applied, RolledBack, NotRescued, Journaled,
     Batched, StepsKnow, Removing, RemovingOne, Resolving, Kinds, Alone, Values, Tree,
     SameData, ConflictsResolved, EnterRollback, project, journal, payload, ghost, GotoWith
<1>21. ASSUME NEW p \in Paths, NEW f \in UserFiles, UserEdit(p, f) PROVE Applied(q)'
  BY <1>0, <1>3, <1>4, <1>21 DEF Pending, InPlace, Applied, RolledBack, NotRescued, Journaled,
     Batched, StepsKnow, Removing, RemovingOne, Resolving, Kinds, Alone, Values, Tree,
     SameData, UserEdit, journal, payload
<1>22. ASSUME NEW lost, NEW lostBackups, NEW lostCopies,
             LosePower(lost, lostBackups, lostCopies)
      PROVE  Applied(q)'
  BY <1>0, <1>3, <1>4, <1>22 DEF Pending, InPlace, Applied, RolledBack, NotRescued, Journaled,
     Batched, StepsKnow, Removing, RemovingOne, Resolving, Kinds, Alone, Values, Tree,
     SameData, LosePower, Forget, journal, ghost, NoFiles
<1>23. CASE \/ RestoreWithoutChange \/ WriteJournal \/ MarkStaged
            \/ AbortPrepare \/ Commit \/ FinishApply
            \/ (\E p \in Paths : NotPublished(p))
  BY <1>0, <1>3, <1>4, <1>23 DEF Applied, Values, RestoreWithoutChange, WriteJournal,
     MarkJournal, Goto, MarkStaged, AbortPrepare, Forget, NoFiles, Commit, FinishApply,
     NotPublished, Done, project, journal, payload, control, ghost
<1>24. CASE \/ SyncAfterCopy \/ DiscardFreshCopy \/ SyncHold \/ DropHeld
            \/ SyncDrop \/ AfterFilesRemoved
            \/ (\E p \in Paths : KeepBeforeFile(p))
  BY <1>0, <1>3, <1>4, <1>24 DEF Applied, Values, SyncAfterCopy, Goto, DiscardFreshCopy,
     Forget, NoFiles, SyncHold, Settle, DropHeld, SyncDrop, GotoWith, AfterFilesRemoved,
     KeepBeforeFile, SetMtime, Done, project, journal, payload, ghost
<1>25. CASE \/ SyncBackupCopy \/ DiscardBackupCopy \/ BeforeFilesRestored
            \/ (\E p \in Paths : RecoverProjectFileMtime(p))
            \/ EnsureBeforeStateRestored \/ DropStaged \/ MarkRecovered
  BY <1>0, <1>3, <1>4, <1>25 DEF Applied, Values, SyncBackupCopy, Settle, DiscardBackupCopy,
     Forget, NoFiles, BeforeFilesRestored, GotoWith, RecoverProjectFileMtime, SetMtime, Done,
     EnsureBeforeStateRestored, Goto, DropStaged, MarkRecovered, project, journal, payload,
     ghost
<1>26. CASE \/ CloseRescue \/ BeginRescue
            \/ (\E p \in Paths : PreserveConflict(p)) \/ SyncRescueCopy
            \/ WriteRescueRecord \/ StartResolve
            \/ (\E p \in Paths : EntryResolved(p))
  BY <1>0, <1>3, <1>4, <1>26 DEF Applied, Values, CloseRescue, Forget, NoFiles, BeginRescue,
     PreserveConflict, SyncRescueCopy, GotoWith, WriteRescueRecord, Goto, StartResolve,
     EntryResolved, project, journal, payload, ghost
<1>27. CASE \/ (\E p \in Paths : ResetConflictTime(p))
            \/ (\E p \in Paths : RemoveConflict(p)) \/ SyncConflictRemoval
            \/ CompleteEntry \/ QuarantineTransaction
            \/ QuarantineUnknownTransaction \/ MoveJournal
  BY <1>0, <1>3, <1>4, <1>27 DEF Applied, Values, ResetConflictTime, SetMtime, RemoveConflict,
     SyncConflictRemoval, Settle, Goto, CompleteEntry, GotoWith, QuarantineTransaction,
     WriteQuarantineRecord, QuarantineUnknownTransaction, MoveJournal, Forget, NoFiles,
     project, journal, payload, ghost
<1>28. CASE \/ MoveJournalFails \/ Release
  BY <1>0, <1>3, <1>4, <1>28 DEF Applied, Values, MoveJournalFails, Forget, NoFiles, Release,
     project, journal, payload, ghost
<1>29. CASE UNCHANGED vars
  BY <1>0, <1>3, <1>4, <1>29 DEF Applied, Values, vars, project, journal, payload, control,
     ghost
<1>30. QED
  BY <1>2, <1>5, <1>6, <1>7, <1>8, <1>9, <1>10, <1>11, <1>12, <1>13, <1>14, <1>15, <1>16,
     <1>17, <1>18, <1>19, <1>20, <1>21, <1>22, <1>23, <1>24, <1>25, <1>26, <1>27, <1>28, <1>29
     DEF Next, Prepare, Apply, Rollback, Rescue, Quarantine, User, PowerLoss

(* A step of the rollback leaves its path where the next one expects it. *)
LEMMA RollbackStays ==
    ASSUME TypeInv, RollbackInv, Pending', NEW q \in Alone', [Next]_vars
    PROVE  RolledBack(q)'
<1> USE TransactionAssumption
<1>0. /\ TypeOK /\ Values /\ StepsKnow /\ Journaled /\ Batched /\ q \in Paths
      /\ Pending /\ q \in Alone => InPlace(q) /\ Applied(q) /\ RolledBack(q) /\ NotRescued(q)
  BY DEF TypeInv, TypeOK, Values, RollbackInv, Alone
<1>1. ASSUME NEW k \in {"restore", "discard"}, NEW target \in Tree, Begin(k, target)
      PROVE  RolledBack(q)'
  BY <1>0, <1>1 DEF RolledBack, Removing, RemovingOne, Unsettled, Alone, Values, Begin, Goto,
     project
<1>2. SUFFICES ASSUME ~(BeginRestore \/ BeginDiscard) PROVE RolledBack(q)'
  BY <1>0, <1>1, Begins
<1>3. Pending /\ q \in Alone /\ UNCHANGED <<before, after>>
  BY <1>0, <1>2, PendingStays
<1>4. /\ Kinds(q) /\ InPlace(q) /\ Applied(q) /\ RolledBack(q) /\ NotRescued(q)
      /\ Ops' = Ops /\ StagedOps' = StagedOps /\ BackupOps' = BackupOps
      /\ MetaOps' = MetaOps /\ ReplaceOps' = ReplaceOps
  BY <1>0, <1>3, OpKinds, SameOps
<1>5. ASSUME NEW p \in Paths, RemoveBackupSource(p) PROVE RolledBack(q)'
  BY <1>0, <1>3, <1>4, <1>5 DEF Pending, InPlace, Applied, RolledBack, NotRescued, Journaled,
     Batched, StepsKnow, Removing, RemovingOne, Resolving, Kinds, Alone, Values, Tree,
     SameData, RemoveBackupSource, journal, payload, ghost
<1>6. CASE FlushBackupSources
  BY <1>0, <1>3, <1>4, <1>6 DEF Pending, InPlace, Applied, RolledBack, NotRescued, Journaled,
     Batched, StepsKnow, Removing, RemovingOne, Resolving, Kinds, Alone, Values, Tree,
     SameData, FlushBackupSources, Settle, GotoWith, Goto, journal, payload, ghost
<1>7. ASSUME NEW p \in Paths, PublishStagedFile(p) PROVE RolledBack(q)'
  BY <1>0, <1>3, <1>4, <1>7 DEF Pending, InPlace, Applied, RolledBack, NotRescued, Journaled,
     Batched, StepsKnow, Removing, RemovingOne, Resolving, Kinds, Alone, Values, Tree,
     SameData, PublishStagedFile, Done, journal, ghost
<1>8. ASSUME NEW p \in Paths, SetProjectFileMtime(p) PROVE RolledBack(q)'
  BY <1>0, <1>3, <1>4, <1>8 DEF Pending, InPlace, Applied, RolledBack, NotRescued, Journaled,
     Batched, StepsKnow, Removing, RemovingOne, Resolving, Kinds, Alone, Values, Tree,
     SameData, SetProjectFileMtime, SetMtime, Done, journal, payload, ghost
<1>9. CASE FlushPublished
  BY <1>0, <1>3, <1>4, <1>9 DEF Pending, InPlace, Applied, RolledBack, NotRescued, Journaled,
     Batched, StepsKnow, Removing, RemovingOne, Resolving, Kinds, Alone, Values, Tree,
     SameData, FlushPublished, Settle, Goto, journal, payload, ghost
<1>10. CASE Recover
  BY <1>0, <1>3, <1>4, <1>10 DEF InPlace, RolledBack, Removing, RemovingOne, Kinds,
     TransactionNeedsRollback, Recover, Goto, EnterRollback, project, journal, payload, ghost,
     GotoWith
<1>11. ASSUME NEW p \in Paths, NotPublished(p) PROVE RolledBack(q)'
  BY <1>0, <1>3, <1>4, <1>11 DEF Pending, InPlace, Applied, RolledBack, NotRescued, Journaled,
     Batched, StepsKnow, Removing, RemovingOne, Resolving, Kinds, Alone, Values, Tree,
     SameData, NotPublished, Done, project, journal, payload, ghost
<1>12. ASSUME NEW p \in Paths, PreserveAfterFile(p) PROVE RolledBack(q)'
  BY <1>0, <1>3, <1>4, <1>12 DEF Pending, InPlace, Applied, RolledBack, NotRescued, Journaled,
     Batched, StepsKnow, Removing, RemovingOne, Resolving, Kinds, Alone, Values, Tree,
     SameData, PreserveAfterFile, project, journal, ghost
<1>13. CASE SyncAfterCopy
  BY <1>0, <1>3, <1>4, <1>13 DEF Pending, InPlace, Applied, RolledBack, NotRescued, Journaled,
     Batched, StepsKnow, Removing, RemovingOne, Resolving, Kinds, Alone, Values, Tree,
     SameData, SyncAfterCopy, Goto, project, journal, ghost
<1>14. CASE DiscardFreshCopy
  BY <1>0, <1>3, <1>4, <1>14 DEF Pending, InPlace, Applied, RolledBack, NotRescued, Journaled,
     Batched, StepsKnow, Removing, RemovingOne, Resolving, Kinds, Alone, Values, Tree,
     SameData, DiscardFreshCopy, Forget, project, journal, ghost, NoFiles
<1>15. CASE HoldAfterFile
  BY <1>0, <1>3, <1>4, <1>15 DEF Pending, InPlace, Applied, RolledBack, NotRescued, Journaled,
     Batched, StepsKnow, Removing, RemovingOne, Resolving, Kinds, Alone, Values, Tree,
     SameData, HoldAfterFile, Goto, journal, payload, ghost
<1>16. CASE SyncHold
  BY <1>0, <1>3, <1>4, <1>16 DEF Pending, InPlace, Applied, RolledBack, NotRescued, Journaled,
     Batched, StepsKnow, Removing, RemovingOne, Resolving, Kinds, Alone, Values, Tree,
     SameData, SyncHold, Settle, Goto, journal, payload, ghost
<1>17. CASE DropHeld
  BY <1>0, <1>3, <1>4, <1>17 DEF Pending, InPlace, Applied, RolledBack, NotRescued, Journaled,
     Batched, StepsKnow, Removing, RemovingOne, Resolving, Kinds, Alone, Values, Tree,
     SameData, DropHeld, Goto, journal, payload, ghost
<1>18. CASE SyncDrop
  BY <1>0, <1>3, <1>4, <1>18 DEF Pending, InPlace, Applied, RolledBack, NotRescued, Journaled,
     Batched, StepsKnow, Removing, RemovingOne, Resolving, Kinds, Alone, Values, Tree,
     SameData, SyncDrop, Settle, GotoWith, journal, payload, ghost
<1>19. CASE AfterFilesRemoved
  BY <1>0, <1>3, <1>4, <1>19 DEF Pending, InPlace, Applied, RolledBack, NotRescued, Journaled,
     Batched, StepsKnow, Removing, RemovingOne, Resolving, Kinds, Alone, Values, Tree,
     SameData, AfterFilesRemoved, GotoWith, project, journal, payload, ghost
<1>20. ASSUME NEW p \in Paths, KeepBeforeFile(p) PROVE RolledBack(q)'
  BY <1>0, <1>3, <1>4, <1>20 DEF Pending, InPlace, Applied, RolledBack, NotRescued, Journaled,
     Batched, StepsKnow, Removing, RemovingOne, Resolving, Kinds, Alone, Values, Tree,
     SameData, KeepBeforeFile, SetMtime, Done, journal, payload, ghost
<1>21. ASSUME NEW p \in Paths, CopyBackupFile(p) PROVE RolledBack(q)'
  BY <1>0, <1>3, <1>4, <1>21 DEF Pending, InPlace, Applied, RolledBack, NotRescued, Journaled,
     Batched, StepsKnow, Removing, RemovingOne, Resolving, Kinds, Alone, Values, Tree,
     SameData, CopyBackupFile, journal, payload, ghost
<1>22. CASE SyncBackupCopy
  BY <1>0, <1>3, <1>4, <1>22 DEF Pending, InPlace, Applied, RolledBack, NotRescued, Journaled,
     Batched, StepsKnow, Removing, RemovingOne, Resolving, Kinds, Alone, Values, Tree,
     SameData, SyncBackupCopy, Settle, journal, payload, ghost
<1>23. CASE DiscardBackupCopy
  BY <1>0, <1>3, <1>4, <1>23 DEF Pending, InPlace, Applied, RolledBack, NotRescued, Journaled,
     Batched, StepsKnow, Removing, RemovingOne, Resolving, Kinds, Alone, Values, Tree,
     SameData, DiscardBackupCopy, Forget, journal, payload, ghost, NoFiles
<1>24. CASE BeforeFilesRestored
  BY <1>0, <1>3, <1>4, <1>24 DEF Pending, InPlace, Applied, RolledBack, NotRescued, Journaled,
     Batched, StepsKnow, Removing, RemovingOne, Resolving, Kinds, Alone, Values, Tree,
     SameData, BeforeFilesRestored, GotoWith, project, journal, payload, ghost
<1>25. ASSUME NEW p \in Paths, RecoverProjectFileMtime(p) PROVE RolledBack(q)'
  BY <1>0, <1>3, <1>4, <1>25 DEF Pending, InPlace, Applied, RolledBack, NotRescued, Journaled,
     Batched, StepsKnow, Removing, RemovingOne, Resolving, Kinds, Alone, Values, Tree,
     SameData, RecoverProjectFileMtime, SetMtime, Done, journal, payload, ghost
<1>26. CASE EnsureBeforeStateRestored
  BY <1>0, <1>3, <1>4, <1>26 DEF Pending, InPlace, Applied, RolledBack, NotRescued, Journaled,
     Batched, StepsKnow, Removing, RemovingOne, Resolving, Kinds, Alone, Values, Tree,
     SameData, EnsureBeforeStateRestored, Goto, project, journal, payload, ghost
<1>27. CASE DropStaged
  BY <1>0, <1>3, <1>4, <1>27 DEF Pending, InPlace, Applied, RolledBack, NotRescued, Journaled,
     Batched, StepsKnow, Removing, RemovingOne, Resolving, Kinds, Alone, Values, Tree,
     SameData, DropStaged, Goto, project, journal, ghost
<1>28. CASE MarkRecovered
  BY <1>0, <1>3, <1>4, <1>28 DEF Pending, InPlace, Applied, RolledBack, NotRescued, Journaled,
     Batched, StepsKnow, Removing, RemovingOne, Resolving, Kinds, Alone, Values, Tree,
     SameData, MarkRecovered, Goto, Forget, project, payload, ghost, NoFiles
<1>29. ASSUME NEW p \in Paths, ResetConflictTime(p) PROVE RolledBack(q)'
  BY <1>0, <1>3, <1>4, <1>29 DEF Pending, InPlace, Applied, RolledBack, NotRescued, Journaled,
     Batched, StepsKnow, Removing, RemovingOne, Resolving, Kinds, Alone, Values, Tree,
     SameData, ResetConflictTime, SetMtime, journal, payload, ghost
<1>30. ASSUME NEW p \in Paths, RemoveConflict(p) PROVE RolledBack(q)'
  BY <1>0, <1>3, <1>4, <1>30 DEF Pending, InPlace, Applied, RolledBack, NotRescued, Journaled,
     Batched, StepsKnow, Removing, RemovingOne, Resolving, Kinds, Alone, Values, Tree,
     SameData, RemoveConflict, journal, payload, ghost
<1>31. CASE SyncConflictRemoval
  BY <1>0, <1>3, <1>4, <1>31 DEF Pending, InPlace, Applied, RolledBack, NotRescued, Journaled,
     Batched, StepsKnow, Removing, RemovingOne, Resolving, Kinds, Alone, Values, Tree,
     SameData, SyncConflictRemoval, Settle, Goto, journal, payload, ghost
<1>32. CASE ConflictsResolved
  BY <1>0, <1>3, <1>4, <1>32 DEF InPlace, RolledBack, Removing, RemovingOne, Kinds,
     TransactionNeedsRollback, ConflictsResolved, EnterRollback, project, journal, payload,
     ghost, GotoWith
<1>33. CASE MoveJournalFails
  BY <1>0, <1>3, <1>4, <1>33 DEF Pending, InPlace, Applied, RolledBack, NotRescued, Journaled,
     Batched, StepsKnow, Removing, RemovingOne, Resolving, Kinds, Alone, Values, Tree,
     SameData, MoveJournalFails, Forget, project, payload, ghost, NoFiles
<1>34. ASSUME NEW p \in Paths, NEW f \in UserFiles, UserEdit(p, f) PROVE RolledBack(q)'
  BY <1>0, <1>3, <1>4, <1>34 DEF Pending, InPlace, Applied, RolledBack, NotRescued, Journaled,
     Batched, StepsKnow, Removing, RemovingOne, Resolving, Kinds, Alone, Values, Tree,
     SameData, UserEdit, journal, payload
<1>35. ASSUME NEW lost, NEW lostBackups, NEW lostCopies,
             LosePower(lost, lostBackups, lostCopies)
      PROVE  RolledBack(q)'
  BY <1>0, <1>3, <1>4, <1>35 DEF Pending, InPlace, Applied, RolledBack, NotRescued, Journaled,
     Batched, StepsKnow, Removing, RemovingOne, Resolving, Kinds, Alone, Values, Tree,
     SameData, LosePower, Forget, journal, ghost, NoFiles
<1>36. CASE \/ RestoreWithoutChange \/ WriteJournal \/ StageOperations
            \/ MarkStaged \/ RecheckPreconditions \/ MarkApplying
            \/ AbortPrepare
  BY <1>0, <1>3, <1>4, <1>36 DEF RolledBack, Removing, RemovingOne, Values,
     RestoreWithoutChange, WriteJournal, MarkJournal, Goto, StageOperations, MarkStaged,
     RecheckPreconditions, MarkApplying, GotoWith, AbortPrepare, Forget, NoFiles, project,
     journal, payload, control, ghost
<1>37. CASE \/ (\E p \in Paths : BackupProjectFile(p)) \/ FlushBackups
            \/ VerifyQuarantineTarget \/ Commit \/ FinishApply \/ CloseRescue
            \/ BeginRescue
  BY <1>0, <1>3, <1>4, <1>37 DEF RolledBack, Removing, RemovingOne, Values, BackupProjectFile,
     FlushBackups, Goto, VerifyQuarantineTarget, Commit, FinishApply, Forget, NoFiles,
     CloseRescue, BeginRescue, project, journal, payload, ghost
<1>38. CASE \/ (\E p \in Paths : PreserveConflict(p)) \/ SyncRescueCopy
            \/ WriteRescueRecord \/ StartResolve
            \/ (\E p \in Paths : EntryResolved(p)) \/ CompleteEntry
            \/ QuarantineTransaction
  BY <1>0, <1>3, <1>4, <1>38 DEF RolledBack, Removing, RemovingOne, Values, PreserveConflict,
     SyncRescueCopy, GotoWith, WriteRescueRecord, Goto, StartResolve, EntryResolved,
     CompleteEntry, QuarantineTransaction, WriteQuarantineRecord, project, journal, payload,
     ghost
<1>39. CASE \/ QuarantineUnknownTransaction \/ MoveJournal \/ Release
  BY <1>0, <1>3, <1>4, <1>39 DEF RolledBack, Removing, RemovingOne, Values,
     QuarantineUnknownTransaction, WriteQuarantineRecord, MoveJournal, Forget, NoFiles,
     Release, project, journal, payload, ghost
<1>40. CASE UNCHANGED vars
  BY <1>0, <1>3, <1>4, <1>40 DEF RolledBack, Removing, RemovingOne, Values, vars, project,
     journal, payload, control, ghost
<1>41. QED
  BY <1>2, <1>5, <1>6, <1>7, <1>8, <1>9, <1>10, <1>11, <1>12, <1>13, <1>14, <1>15, <1>16,
     <1>17, <1>18, <1>19, <1>20, <1>21, <1>22, <1>23, <1>24, <1>25, <1>26, <1>27, <1>28,
     <1>29, <1>30, <1>31, <1>32, <1>33, <1>34, <1>35, <1>36, <1>37, <1>38, <1>39, <1>40 DEF
     Next, Prepare, Apply, Rollback, Rescue, Quarantine, User, PowerLoss

(* No rescue is about a path that the user left alone. *)
LEMMA RescueStays ==
    ASSUME TypeInv, RollbackInv, Pending', NEW q \in Alone', [Next]_vars
    PROVE  NotRescued(q)'
<1> USE TransactionAssumption
<1>0. /\ TypeOK /\ Values /\ StepsKnow /\ Journaled /\ Batched /\ q \in Paths
      /\ Pending /\ q \in Alone => InPlace(q) /\ Applied(q) /\ RolledBack(q) /\ NotRescued(q)
  BY DEF TypeInv, TypeOK, Values, RollbackInv, Alone
<1>1. ASSUME NEW k \in {"restore", "discard"}, NEW target \in Tree, Begin(k, target)
      PROVE  NotRescued(q)'
  BY <1>0, <1>1 DEF NotRescued, Unsettled, Alone, Values, Begin, Goto, project
<1>2. SUFFICES ASSUME ~(BeginRestore \/ BeginDiscard) PROVE NotRescued(q)'
  BY <1>0, <1>1, Begins
<1>3. Pending /\ q \in Alone /\ UNCHANGED <<before, after>>
  BY <1>0, <1>2, PendingStays
<1>4. /\ Kinds(q) /\ InPlace(q) /\ Applied(q) /\ RolledBack(q) /\ NotRescued(q)
      /\ Ops' = Ops /\ StagedOps' = StagedOps /\ BackupOps' = BackupOps
      /\ MetaOps' = MetaOps /\ ReplaceOps' = ReplaceOps
  BY <1>0, <1>3, OpKinds, SameOps
<1>5. CASE Recover
  BY <1>0, <1>3, <1>4, <1>5 DEF Pending, InPlace, Applied, RolledBack, NotRescued, Journaled,
     Batched, StepsKnow, Removing, RemovingOne, Resolving, Kinds, Alone, Values, Tree,
     SameData, Recover, Goto, EnterRollback, project, journal, payload, ghost, GotoWith
<1>6. CASE CloseRescue
  <2>1. rescue \in RecoveryRescueRecord
    BY <1>0, <1>6 DEF Values, StepsKnow, Resolving, CloseRescue
  <2>2. rescue'.entries = rescue.entries
    BY <1>6, <2>1 DEF RecoveryRescueRecord, CloseRescue
  <2>3. QED
    BY <1>0, <1>4, <1>6, <2>1, <2>2, NoRecordAssumption DEF NotRescued, CloseRescue, Forget,
       project, journal, ghost, NoFiles
<1>7. CASE BeginRescue
  BY <1>0, <1>3, <1>4, <1>7 DEF NotRescued, InPlace, Kinds, Values, Tree, Conflicting, SameData,
       RestoreOps, DeleteOps, BeginRescue, project, journal, payload, ghost
<1>8. ASSUME NEW p \in Paths, PreserveConflict(p) PROVE NotRescued(q)'
  BY <1>0, <1>3, <1>4, <1>8 DEF Pending, InPlace, Applied, RolledBack, NotRescued, Journaled,
     Batched, StepsKnow, Removing, RemovingOne, Resolving, Kinds, Alone, Values, Tree,
     SameData, PreserveConflict, project, journal, ghost
<1>9. CASE SyncRescueCopy
  BY <1>0, <1>3, <1>4, <1>9 DEF Pending, InPlace, Applied, RolledBack, NotRescued, Journaled,
     Batched, StepsKnow, Removing, RemovingOne, Resolving, Kinds, Alone, Values, Tree,
     SameData, SyncRescueCopy, GotoWith, project, journal, ghost
<1>10. CASE WriteRescueRecord
  BY <1>0, <1>3, <1>4, <1>10 DEF Pending, InPlace, Applied, RolledBack, NotRescued, Journaled,
     Batched, StepsKnow, Removing, RemovingOne, Resolving, Kinds, Alone, Values, Tree,
     SameData, WriteRescueRecord, Goto, project, journal, ghost
<1>11. CASE StartResolve
  <2>1. rescue \in RecoveryRescueRecord
    BY <1>0, <1>11 DEF Values, StepsKnow, Resolving, StartResolve
  <2>2. rescue'.entries = rescue.entries
    BY <1>11, <2>1 DEF RecoveryRescueRecord, StartResolve
  <2>3. QED
    BY <1>0, <1>4, <1>11, <2>1, <2>2, NoRecordAssumption DEF NotRescued, StartResolve,
       GotoWith, project, journal, ghost
<1>12. CASE CompleteEntry
  <2>1. rescue \in RecoveryRescueRecord
    BY <1>0, <1>12 DEF Values, StepsKnow, Resolving, CompleteEntry
  <2>2. rescue'.entries = rescue.entries
    BY <1>12, <2>1 DEF RecoveryRescueRecord, CompleteEntry
  <2>3. QED
    BY <1>0, <1>4, <1>12, <2>1, <2>2, NoRecordAssumption DEF NotRescued, CompleteEntry,
       GotoWith, project, journal, ghost
<1>13. ASSUME NEW p \in Paths, NEW f \in UserFiles, UserEdit(p, f) PROVE NotRescued(q)'
  BY <1>0, <1>3, <1>4, <1>13 DEF Pending, InPlace, Applied, RolledBack, NotRescued, Journaled,
     Batched, StepsKnow, Removing, RemovingOne, Resolving, Kinds, Alone, Values, Tree,
     SameData, UserEdit, journal, payload
<1>14. ASSUME NEW lost, NEW lostBackups, NEW lostCopies,
             LosePower(lost, lostBackups, lostCopies)
      PROVE  NotRescued(q)'
  BY <1>0, <1>3, <1>4, <1>14 DEF Pending, InPlace, Applied, RolledBack, NotRescued, Journaled,
     Batched, StepsKnow, Removing, RemovingOne, Resolving, Kinds, Alone, Values, Tree,
     SameData, LosePower, Forget, journal, ghost, NoFiles
<1>15. CASE \/ RestoreWithoutChange \/ WriteJournal \/ StageOperations
            \/ MarkStaged \/ RecheckPreconditions \/ MarkApplying
            \/ AbortPrepare
  BY <1>0, <1>3, <1>4, <1>15 DEF NotRescued, RestoreWithoutChange, WriteJournal, MarkJournal,
     Goto, StageOperations, MarkStaged, RecheckPreconditions, MarkApplying, GotoWith,
     AbortPrepare, Forget, NoFiles, project, journal, payload, control, ghost
<1>16. CASE \/ (\E p \in Paths : BackupProjectFile(p))
            \/ (\E p \in Paths : RemoveBackupSource(p)) \/ FlushBackups
            \/ FlushBackupSources \/ (\E p \in Paths : PublishStagedFile(p))
            \/ (\E p \in Paths : SetProjectFileMtime(p)) \/ FlushPublished
  BY <1>0, <1>3, <1>4, <1>16 DEF NotRescued, BackupProjectFile, RemoveBackupSource,
     FlushBackups, Goto, FlushBackupSources, Settle, GotoWith, PublishStagedFile, Done,
     SetProjectFileMtime, SetMtime, FlushPublished, project, journal, payload, ghost
<1>17. CASE \/ VerifyQuarantineTarget \/ Commit \/ FinishApply
            \/ (\E p \in Paths : NotPublished(p))
            \/ (\E p \in Paths : PreserveAfterFile(p)) \/ SyncAfterCopy
            \/ DiscardFreshCopy
  BY <1>0, <1>3, <1>4, <1>17 DEF NotRescued, VerifyQuarantineTarget, Commit, Goto,
     FinishApply, Forget, NoFiles, NotPublished, Done, PreserveAfterFile, SyncAfterCopy,
     DiscardFreshCopy, project, journal, payload, ghost
<1>18. CASE \/ HoldAfterFile \/ SyncHold \/ DropHeld \/ SyncDrop
            \/ AfterFilesRemoved \/ (\E p \in Paths : KeepBeforeFile(p))
            \/ (\E p \in Paths : CopyBackupFile(p))
  BY <1>0, <1>3, <1>4, <1>18 DEF NotRescued, HoldAfterFile, Goto, SyncHold, Settle, DropHeld,
     SyncDrop, GotoWith, AfterFilesRemoved, KeepBeforeFile, SetMtime, Done, CopyBackupFile,
     project, journal, payload, ghost
<1>19. CASE \/ SyncBackupCopy \/ DiscardBackupCopy \/ BeforeFilesRestored
            \/ (\E p \in Paths : RecoverProjectFileMtime(p))
            \/ EnsureBeforeStateRestored \/ DropStaged \/ MarkRecovered
  BY <1>0, <1>3, <1>4, <1>19 DEF NotRescued, SyncBackupCopy, Settle, DiscardBackupCopy,
     Forget, NoFiles, BeforeFilesRestored, GotoWith, RecoverProjectFileMtime, SetMtime, Done,
     EnsureBeforeStateRestored, Goto, DropStaged, MarkRecovered, project, journal, payload,
     ghost
<1>20. CASE \/ (\E p \in Paths : EntryResolved(p))
            \/ (\E p \in Paths : ResetConflictTime(p))
            \/ (\E p \in Paths : RemoveConflict(p)) \/ SyncConflictRemoval
            \/ ConflictsResolved \/ QuarantineTransaction
            \/ QuarantineUnknownTransaction
  BY <1>0, <1>3, <1>4, <1>20 DEF NotRescued, EntryResolved, ResetConflictTime, SetMtime,
     RemoveConflict, SyncConflictRemoval, Settle, Goto, ConflictsResolved, EnterRollback,
     GotoWith, QuarantineTransaction, WriteQuarantineRecord, QuarantineUnknownTransaction,
     project, journal, payload, ghost
<1>21. CASE \/ MoveJournal \/ MoveJournalFails \/ Release
  BY <1>0, <1>3, <1>4, <1>21 DEF NotRescued, MoveJournal, Forget, NoFiles, MoveJournalFails,
     Release, project, journal, payload, ghost
<1>22. CASE UNCHANGED vars
  BY <1>0, <1>3, <1>4, <1>22 DEF NotRescued, vars, project, journal, payload, control, ghost
<1>23. QED
  BY <1>2, <1>5, <1>6, <1>7, <1>8, <1>9, <1>10, <1>11, <1>12, <1>13, <1>14, <1>15, <1>16,
     <1>17, <1>18, <1>19, <1>20, <1>21, <1>22 DEF Next, Prepare, Apply, Rollback, Rescue,
     Quarantine, User, PowerLoss

(* Every step keeps the inductive invariant of the rollback. *)
LEMMA RollbackInvStays == TypeInv /\ RollbackInv /\ [Next]_vars => RollbackInv'
<1> SUFFICES ASSUME TypeInv, RollbackInv, [Next]_vars PROVE RollbackInv'
  OBVIOUS
<1>1. Journaled' /\ Batched'
  BY JournalStays, BatchStays DEF RollbackInv
<1>2. ASSUME Pending', NEW q \in Alone'
      PROVE  InPlace(q)' /\ Applied(q)' /\ RolledBack(q)' /\ NotRescued(q)'
  BY <1>2, PlacesStay, ApplyStays, RollbackStays, RescueStays
<1>3. QED
  BY <1>1, <1>2 DEF RollbackInv

(* Rollback refuses a path only if the user edited it: it finds every other *)
(* path as the transaction or an earlier, interrupted rollback left it, and  *)
(* a backup of every file that it does not find.                             *)
THEOREM RollbackIsNeverRefused == Spec => []RollbackNeverRefuses
<1>1. Init => RollbackInv
  BY DEF Init, RollbackInv, Journaled, Batched, Pending
<1>2. TypeInv /\ RollbackInv /\ [Next]_vars => RollbackInv'
  BY RollbackInvStays
<1>3. TypeInv /\ RollbackInv => RollbackNeverRefuses
  <2> SUFFICES ASSUME TypeInv, RollbackInv PROVE RollbackNeverRefuses
    OBVIOUS
  <2>0. TypeOK /\ Values /\ StepsKnow
    BY DEF TypeInv, TypeOK, Values
  <2>1. ASSUME pc \in {"removeAfter", "hold", "restoreBefore", "recoverTimes"},
               NEW q \in Paths \ touched
        PROVE  /\ pc = "removeAfter" /\ q \in work => ~AfterConflict(q)
               /\ pc = "hold" /\ cur = q => SameData(tree[q], after[q])
               /\ pc = "restoreBefore" /\ q \in work => ~BeforeUnavailable(q)
               /\ pc = "recoverTimes" /\ q \in work => ~TimeConflict(q)
               /\ pc = "recoverTimes" /\ work = {} /\ q \in Ops => tree[q] = before[q]
    <3>1. Kinds(q) /\ InPlace(q) /\ Applied(q) /\ RolledBack(q)
      BY <2>0, <2>1, OpKinds DEF RollbackInv, Journaled, Alone
    <3>2. tree[q] \in File \cup {None}
      BY <2>0 DEF Values, Tree
    <3>3. CASE pc = "removeAfter" /\ q \in work
      BY <2>0, <3>1, <3>2, <3>3, TransactionAssumption
         DEF StepsKnow, Removing, Kinds, InPlace, AfterConflict, SameData
    <3>4. CASE pc = "hold" /\ cur = q
      BY <2>0, <3>1, <3>2, <3>4, TransactionAssumption
         DEF StepsKnow, Removing, RemovingOne, Kinds, RolledBack, SameData
    <3>5. CASE pc = "restoreBefore" /\ q \in work
      BY <2>0, <3>1, <3>2, <3>5, TransactionAssumption
         DEF StepsKnow, Kinds, InPlace, RolledBack, BeforeUnavailable, SameData
    <3>6. CASE pc = "recoverTimes"
      BY <2>0, <3>1, <3>2, <3>6, TransactionAssumption
         DEF StepsKnow, Kinds, InPlace, RolledBack, TimeConflict, SameData
    <3>7. QED
      BY <3>3, <3>4, <3>5, <3>6
  <2>2. pc = "hold" => cur \in Paths
    BY <2>0 DEF StepsKnow, RemovingOne, Values
  <2>3. work \subseteq Paths /\ Ops \subseteq Paths
    BY <2>0, OpPaths DEF Values
  <2>4. QED
    BY <2>1, <2>2, <2>3 DEF RollbackNeverRefuses
<1>4. QED
  BY <1>1, <1>2, <1>3, TypeInit, TypeStep, PTL DEF Spec

-----------------------------------------------------------------------------
(* A transaction that ends leaves a whole tree. *)

(* Until a transaction commits, the tree it should leave is the one it     *)
(* started from.                                                           *)
LEMMA GoalStays ==
    ASSUME TypeInv, RollbackInv, Pending => goal = before, Pending', [Next]_vars
    PROVE  goal' = before'
<1>0. TypeOK /\ Values /\ StepsKnow /\ Journaled
  BY DEF TypeInv, TypeOK, Values, RollbackInv
<1>1. ASSUME NEW k \in {"restore", "discard"}, NEW target \in Tree, Begin(k, target)
      PROVE  goal' = before'
  BY <1>0, <1>1 DEF Journaled, Pending, Values, JournalState, Begin, Goto, project
<1>2. CASE RestoreWithoutChange
  BY <1>0, <1>2 DEF Journaled, Pending, Values, JournalState, RestoreWithoutChange, project,
     journal, payload, control
<1>3. CASE Commit
  BY <1>0, <1>3 DEF Journaled, Pending, Values, JournalState, Commit, Goto, project, payload
<1>4. ASSUME NEW p \in Paths, NEW f \in UserFiles, UserEdit(p, f) PROVE goal' = before'
  BY <1>0, <1>4 DEF Journaled, Pending, Values, JournalState, UserEdit, journal, payload
<1>5. ASSUME NEW lost, NEW lostBackups, NEW lostCopies,
             LosePower(lost, lostBackups, lostCopies)
      PROVE  goal' = before'
  BY <1>0, <1>5 DEF Journaled, Pending, Values, JournalState, LosePower, Forget, journal,
     ghost, NoFiles
<1>6. CASE \/ WriteJournal \/ StageOperations \/ MarkStaged
           \/ RecheckPreconditions \/ MarkApplying
  BY <1>0, <1>6 DEF Journaled, Pending, Values, JournalState, WriteJournal, MarkJournal, Goto,
     StageOperations, MarkStaged, RecheckPreconditions, MarkApplying, GotoWith, project,
     journal, payload, ghost
<1>7. CASE \/ AbortPrepare \/ (\E p \in Paths : BackupProjectFile(p))
           \/ (\E p \in Paths : RemoveBackupSource(p)) \/ FlushBackups
           \/ FlushBackupSources
  BY <1>0, <1>7 DEF Journaled, Pending, Values, JournalState, AbortPrepare, Forget, NoFiles,
     BackupProjectFile, RemoveBackupSource, FlushBackups, Goto, FlushBackupSources, Settle,
     GotoWith, project, journal, payload, ghost
<1>8. CASE \/ (\E p \in Paths : PublishStagedFile(p))
           \/ (\E p \in Paths : SetProjectFileMtime(p)) \/ FlushPublished
           \/ VerifyQuarantineTarget \/ FinishApply
  BY <1>0, <1>8 DEF Journaled, Pending, Values, JournalState, PublishStagedFile, Done,
     SetProjectFileMtime, SetMtime, FlushPublished, Settle, Goto, VerifyQuarantineTarget,
     FinishApply, Forget, NoFiles, project, journal, payload, ghost
<1>9. CASE \/ Recover \/ (\E p \in Paths : NotPublished(p))
           \/ (\E p \in Paths : PreserveAfterFile(p)) \/ SyncAfterCopy
           \/ DiscardFreshCopy
  BY <1>0, <1>9 DEF Journaled, Pending, Values, JournalState, Recover, Goto, EnterRollback,
     GotoWith, NotPublished, Done, PreserveAfterFile, SyncAfterCopy, DiscardFreshCopy, Forget,
     NoFiles, project, journal, payload, ghost
<1>10. CASE \/ HoldAfterFile \/ SyncHold \/ DropHeld \/ SyncDrop
            \/ AfterFilesRemoved
  BY <1>0, <1>10 DEF Journaled, Pending, Values, JournalState, HoldAfterFile, Goto, SyncHold,
     Settle, DropHeld, SyncDrop, GotoWith, AfterFilesRemoved, project, journal, payload, ghost
<1>11. CASE \/ (\E p \in Paths : KeepBeforeFile(p))
            \/ (\E p \in Paths : CopyBackupFile(p)) \/ SyncBackupCopy
            \/ DiscardBackupCopy \/ BeforeFilesRestored
  BY <1>0, <1>11 DEF Journaled, Pending, Values, JournalState, KeepBeforeFile, SetMtime, Done,
     CopyBackupFile, SyncBackupCopy, Settle, DiscardBackupCopy, Forget, NoFiles,
     BeforeFilesRestored, GotoWith, project, journal, payload, ghost
<1>12. CASE \/ (\E p \in Paths : RecoverProjectFileMtime(p))
            \/ EnsureBeforeStateRestored \/ DropStaged \/ MarkRecovered
            \/ CloseRescue
  BY <1>0, <1>12 DEF Journaled, Pending, Values, JournalState, RecoverProjectFileMtime,
     SetMtime, Done, EnsureBeforeStateRestored, Goto, DropStaged, MarkRecovered, Forget,
     NoFiles, CloseRescue, project, journal, payload, ghost
<1>13. CASE \/ BeginRescue \/ (\E p \in Paths : PreserveConflict(p))
            \/ SyncRescueCopy \/ WriteRescueRecord \/ StartResolve
  BY <1>0, <1>13 DEF Journaled, Pending, Values, JournalState, BeginRescue, PreserveConflict,
     SyncRescueCopy, GotoWith, WriteRescueRecord, Goto, StartResolve, project, journal,
     payload, ghost
<1>14. CASE \/ (\E p \in Paths : EntryResolved(p))
            \/ (\E p \in Paths : ResetConflictTime(p))
            \/ (\E p \in Paths : RemoveConflict(p)) \/ SyncConflictRemoval
            \/ CompleteEntry
  BY <1>0, <1>14 DEF Journaled, Pending, Values, JournalState, EntryResolved,
     ResetConflictTime, SetMtime, RemoveConflict, SyncConflictRemoval, Settle, Goto,
     CompleteEntry, GotoWith, project, journal, payload, ghost
<1>15. CASE \/ ConflictsResolved \/ QuarantineTransaction
            \/ QuarantineUnknownTransaction \/ MoveJournal \/ MoveJournalFails
  BY <1>0, <1>15 DEF Journaled, Pending, Values, JournalState, ConflictsResolved,
     EnterRollback, GotoWith, QuarantineTransaction, WriteQuarantineRecord,
     QuarantineUnknownTransaction, MoveJournal, Forget, NoFiles, MoveJournalFails, project,
     journal, payload, ghost
<1>16. CASE \/ Release
  BY <1>0, <1>16 DEF Journaled, Pending, Values, JournalState, Release, Forget, NoFiles,
     project, journal, payload, ghost
<1>17. CASE UNCHANGED vars
  BY <1>0, <1>17 DEF Journaled, Pending, Values, JournalState, vars, project, journal,
     payload, control, ghost
<1>18. QED
  BY <1>0, <1>1, <1>2, <1>3, <1>4, <1>5, <1>6, <1>7, <1>8, <1>9, <1>10, <1>11, <1>12, <1>13,
     <1>14, <1>15, <1>16, <1>17, Begins DEF Next, Prepare, Apply, Rollback, Rescue,
     Quarantine, User, PowerLoss

(* What is in place is there on disk, or about to be synced: an operation  *)
(* that failed to sync it has removed it again.                            *)
LEMMA DiskStays ==
    ASSUME KilledBeforeSync = FALSE, TypeInv, RollbackInv, WholeInv, Pending',
           NEW q \in Alone', [Next]_vars
    PROVE  OnDisk(q)'
<1> USE TransactionAssumption
<1>0. /\ TypeOK /\ Values /\ StepsKnow /\ Journaled /\ Batched /\ q \in Paths
      /\ Pending /\ q \in Alone =>
           OnDisk(q) /\ InPlace(q) /\ Applied(q) /\ RolledBack(q) /\ NotRescued(q)
  BY DEF WholeInv, TypeInv, TypeOK, Values, RollbackInv, Alone
<1>1. ASSUME NEW k \in {"restore", "discard"}, NEW target \in Tree, Begin(k, target)
      PROVE  OnDisk(q)'
  BY <1>0, <1>1 DEF OnDisk, Unsettled, Alone, Values, Begin, Goto, project
<1>2. SUFFICES ASSUME ~(BeginRestore \/ BeginDiscard) PROVE OnDisk(q)'
  BY <1>0, <1>1, Begins
<1>3. Pending /\ q \in Alone /\ UNCHANGED <<before, after>>
  BY <1>0, <1>2, PendingStays
<1>4. /\ Kinds(q) /\ OnDisk(q) /\ InPlace(q) /\ Applied(q) /\ RolledBack(q) /\ NotRescued(q)
      /\ Ops' = Ops /\ StagedOps' = StagedOps /\ BackupOps' = BackupOps
      /\ MetaOps' = MetaOps /\ ReplaceOps' = ReplaceOps
  BY <1>0, <1>3, OpKinds, SameOps
<1>5. ASSUME NEW p \in Paths, RemoveBackupSource(p) PROVE OnDisk(q)'
  BY <1>0, <1>3, <1>4, <1>5 DEF OnDisk, Pending, InPlace, Applied, RolledBack, NotRescued,
     Journaled, Batched, StepsKnow, Removing, RemovingOne, Resolving, Kinds, Alone, Values,
     Tree, SameData, RemoveBackupSource, journal, payload, ghost
<1>6. CASE FlushBackupSources
  BY <1>0, <1>3, <1>4, <1>6 DEF OnDisk, Pending, InPlace, Applied, RolledBack, NotRescued,
     Journaled, Batched, StepsKnow, Removing, RemovingOne, Resolving, Kinds, Alone, Values,
     Tree, SameData, FlushBackupSources, Settle, GotoWith, Goto, journal, payload, ghost
<1>7. ASSUME NEW p \in Paths, PublishStagedFile(p) PROVE OnDisk(q)'
  BY <1>0, <1>3, <1>4, <1>7 DEF OnDisk, Pending, InPlace, Applied, RolledBack, NotRescued,
     Journaled, Batched, StepsKnow, Removing, RemovingOne, Resolving, Kinds, Alone, Values,
     Tree, SameData, PublishStagedFile, Done, journal, ghost
<1>8. ASSUME NEW p \in Paths, SetProjectFileMtime(p) PROVE OnDisk(q)'
  BY <1>0, <1>3, <1>4, <1>8 DEF OnDisk, Pending, InPlace, Applied, RolledBack, NotRescued,
     Journaled, Batched, StepsKnow, Removing, RemovingOne, Resolving, Kinds, Alone, Values,
     Tree, SameData, SetProjectFileMtime, SetMtime, Done, journal, payload, ghost
<1>9. CASE FlushPublished
  BY <1>0, <1>3, <1>4, <1>9 DEF OnDisk, Pending, InPlace, Applied, RolledBack, NotRescued,
     Journaled, Batched, StepsKnow, Removing, RemovingOne, Resolving, Kinds, Alone, Values,
     Tree, SameData, FlushPublished, Settle, Goto, journal, payload, ghost
<1>10. CASE DiscardFreshCopy
  BY <1>0, <1>3, <1>4, <1>10 DEF OnDisk, Pending, InPlace, Applied, RolledBack, NotRescued,
     Journaled, Batched, StepsKnow, Removing, RemovingOne, Resolving, Kinds, Alone, Values,
     Tree, SameData, DiscardFreshCopy, Forget, project, journal, ghost, NoFiles
<1>11. CASE HoldAfterFile
  BY <1>0, <1>3, <1>4, <1>11 DEF OnDisk, Pending, InPlace, Applied, RolledBack, NotRescued,
     Journaled, Batched, StepsKnow, Removing, RemovingOne, Resolving, Kinds, Alone, Values,
     Tree, SameData, HoldAfterFile, Goto, journal, payload, ghost
<1>12. CASE SyncHold
  BY <1>0, <1>3, <1>4, <1>12 DEF OnDisk, Pending, InPlace, Applied, RolledBack, NotRescued,
     Journaled, Batched, StepsKnow, Removing, RemovingOne, Resolving, Kinds, Alone, Values,
     Tree, SameData, SyncHold, Settle, Goto, journal, payload, ghost
<1>13. CASE SyncDrop
  BY <1>0, <1>3, <1>4, <1>13 DEF OnDisk, Pending, InPlace, Applied, RolledBack, NotRescued,
     Journaled, Batched, StepsKnow, Removing, RemovingOne, Resolving, Kinds, Alone, Values,
     Tree, SameData, SyncDrop, Settle, GotoWith, journal, payload, ghost
<1>14. ASSUME NEW p \in Paths, KeepBeforeFile(p) PROVE OnDisk(q)'
  BY <1>0, <1>3, <1>4, <1>14 DEF OnDisk, Pending, InPlace, Applied, RolledBack, NotRescued,
     Journaled, Batched, StepsKnow, Removing, RemovingOne, Resolving, Kinds, Alone, Values,
     Tree, SameData, KeepBeforeFile, SetMtime, Done, journal, payload, ghost
<1>15. ASSUME NEW p \in Paths, CopyBackupFile(p) PROVE OnDisk(q)'
  BY <1>0, <1>3, <1>4, <1>15 DEF OnDisk, Pending, InPlace, Applied, RolledBack, NotRescued,
     Journaled, Batched, StepsKnow, Removing, RemovingOne, Resolving, Kinds, Alone, Values,
     Tree, SameData, CopyBackupFile, journal, payload, ghost
<1>16. CASE SyncBackupCopy
  BY <1>0, <1>3, <1>4, <1>16 DEF OnDisk, Pending, InPlace, Applied, RolledBack, NotRescued,
     Journaled, Batched, StepsKnow, Removing, RemovingOne, Resolving, Kinds, Alone, Values,
     Tree, SameData, SyncBackupCopy, Settle, journal, payload, ghost
<1>17. CASE DiscardBackupCopy
  BY <1>0, <1>3, <1>4, <1>17 DEF OnDisk, Pending, InPlace, Applied, RolledBack, NotRescued,
     Journaled, Batched, StepsKnow, Removing, RemovingOne, Resolving, Kinds, Alone, Values,
     Tree, SameData, DiscardBackupCopy, Forget, journal, payload, ghost, NoFiles
<1>18. ASSUME NEW p \in Paths, RecoverProjectFileMtime(p) PROVE OnDisk(q)'
  BY <1>0, <1>3, <1>4, <1>18 DEF OnDisk, Pending, InPlace, Applied, RolledBack, NotRescued,
     Journaled, Batched, StepsKnow, Removing, RemovingOne, Resolving, Kinds, Alone, Values,
     Tree, SameData, RecoverProjectFileMtime, SetMtime, Done, journal, payload, ghost
<1>19. ASSUME NEW p \in Paths, ResetConflictTime(p) PROVE OnDisk(q)'
  BY <1>0, <1>3, <1>4, <1>19 DEF OnDisk, Pending, InPlace, Applied, RolledBack, NotRescued,
     Journaled, Batched, StepsKnow, Removing, RemovingOne, Resolving, Kinds, Alone, Values,
     Tree, SameData, ResetConflictTime, SetMtime, journal, payload, ghost
<1>20. ASSUME NEW p \in Paths, RemoveConflict(p) PROVE OnDisk(q)'
  BY <1>0, <1>3, <1>4, <1>20 DEF OnDisk, Pending, InPlace, Applied, RolledBack, NotRescued,
     Journaled, Batched, StepsKnow, Removing, RemovingOne, Resolving, Kinds, Alone, Values,
     Tree, SameData, RemoveConflict, journal, payload, ghost
<1>21. CASE SyncConflictRemoval
  BY <1>0, <1>3, <1>4, <1>21 DEF OnDisk, Pending, InPlace, Applied, RolledBack, NotRescued,
     Journaled, Batched, StepsKnow, Removing, RemovingOne, Resolving, Kinds, Alone, Values,
     Tree, SameData, SyncConflictRemoval, Settle, Goto, journal, payload, ghost
<1>22. ASSUME NEW p \in Paths, NEW f \in UserFiles, UserEdit(p, f) PROVE OnDisk(q)'
  BY <1>0, <1>3, <1>4, <1>22 DEF OnDisk, Pending, InPlace, Applied, RolledBack, NotRescued,
     Journaled, Batched, StepsKnow, Removing, RemovingOne, Resolving, Kinds, Alone, Values,
     Tree, SameData, UserEdit, journal, payload
<1>23. CASE Release
  BY <1>0, <1>4, <1>23 DEF OnDisk, SyncSteps, Release, Forget, project, journal, payload,
     ghost, NoFiles
<1>24. ASSUME NEW lost, NEW lostBackups, NEW lostCopies,
             LosePower(lost, lostBackups, lostCopies)
      PROVE  OnDisk(q)'
  BY <1>0, <1>3, <1>4, <1>24 DEF OnDisk, Pending, InPlace, Applied, RolledBack, NotRescued,
     Journaled, Batched, StepsKnow, Removing, RemovingOne, Resolving, Kinds, Alone, Values,
     Tree, SameData, LosePower, Forget, journal, ghost, NoFiles
<1>25. CASE \/ RestoreWithoutChange \/ WriteJournal \/ StageOperations
            \/ MarkStaged \/ RecheckPreconditions \/ MarkApplying
            \/ AbortPrepare
  BY <1>0, <1>3, <1>4, <1>25 DEF OnDisk, RestoreWithoutChange, WriteJournal, MarkJournal,
     Goto, StageOperations, MarkStaged, RecheckPreconditions, MarkApplying, GotoWith,
     AbortPrepare, Forget, NoFiles, project, journal, payload, control, ghost
<1>26. CASE \/ (\E p \in Paths : BackupProjectFile(p)) \/ FlushBackups
            \/ VerifyQuarantineTarget \/ Commit \/ FinishApply \/ Recover
            \/ (\E p \in Paths : NotPublished(p))
  BY <1>0, <1>3, <1>4, <1>26 DEF OnDisk, BackupProjectFile, FlushBackups, Goto,
     VerifyQuarantineTarget, Commit, FinishApply, Forget, NoFiles, Recover, EnterRollback,
     GotoWith, NotPublished, Done, project, journal, payload, ghost
<1>27. CASE \/ (\E p \in Paths : PreserveAfterFile(p)) \/ SyncAfterCopy
            \/ DropHeld \/ AfterFilesRemoved \/ BeforeFilesRestored
            \/ EnsureBeforeStateRestored \/ DropStaged
  BY <1>0, <1>3, <1>4, <1>27 DEF OnDisk, PreserveAfterFile, SyncAfterCopy, Goto, DropHeld,
     AfterFilesRemoved, GotoWith, BeforeFilesRestored, EnsureBeforeStateRestored, DropStaged,
     project, journal, payload, ghost
<1>28. CASE \/ MarkRecovered \/ CloseRescue \/ BeginRescue
            \/ (\E p \in Paths : PreserveConflict(p)) \/ SyncRescueCopy
            \/ WriteRescueRecord \/ StartResolve
  BY <1>0, <1>3, <1>4, <1>28 DEF OnDisk, MarkRecovered, Goto, Forget, NoFiles, CloseRescue,
     BeginRescue, PreserveConflict, SyncRescueCopy, GotoWith, WriteRescueRecord, StartResolve,
     project, journal, payload, ghost
<1>29. CASE \/ (\E p \in Paths : EntryResolved(p)) \/ CompleteEntry
            \/ ConflictsResolved \/ QuarantineTransaction
            \/ QuarantineUnknownTransaction \/ MoveJournal \/ MoveJournalFails
  BY <1>0, <1>3, <1>4, <1>29 DEF OnDisk, EntryResolved, CompleteEntry, GotoWith,
     ConflictsResolved, EnterRollback, QuarantineTransaction, WriteQuarantineRecord,
     QuarantineUnknownTransaction, MoveJournal, Forget, NoFiles, MoveJournalFails, project,
     journal, payload, ghost
<1>30. CASE UNCHANGED vars
  BY <1>0, <1>3, <1>4, <1>30 DEF OnDisk, vars, project, journal, payload, control, ghost
<1>31. QED
  BY <1>2, <1>5, <1>6, <1>7, <1>8, <1>9, <1>10, <1>11, <1>12, <1>13, <1>14, <1>15, <1>16,
     <1>17, <1>18, <1>19, <1>20, <1>21, <1>22, <1>23, <1>24, <1>25, <1>26, <1>27, <1>28,
     <1>29, <1>30 DEF Next, Prepare, Apply, Rollback, Rescue, Quarantine, User, PowerLoss

(* A transaction ends with every path where it should be, on disk as well: *)
(* it commits after the last sync, and is closed once what it had changed  *)
(* is back.                                                                *)
LEMMA EndsWhole ==
    ASSUME KilledBeforeSync = FALSE, TypeInv, RollbackInv, WholeInv, Settled',
           NEW q \in Alone', [Next]_vars
    PROVE  tree'[q] = goal'[q] /\ disk'[q] = goal'[q]
<1> USE TransactionAssumption
<1>0. /\ TypeOK /\ Values /\ StepsKnow /\ Journaled /\ q \in Paths
      /\ Pending => goal = before
      /\ Pending /\ q \in Alone => OnDisk(q) /\ InPlace(q) /\ Applied(q) /\ RolledBack(q)
      /\ Settled /\ q \in Alone => tree[q] = goal[q] /\ disk[q] = goal[q]
      /\ pc = "moveJournal" /\ ~unresolved /\ q \in Alone => tree[q] = before[q]
  BY DEF TypeInv, TypeOK, Values, RollbackInv, WholeInv, Alone
<1>1. ASSUME NEW k \in {"restore", "discard"}, NEW target \in Tree, Begin(k, target)
      PROVE  tree'[q] = goal'[q] /\ disk'[q] = goal'[q]
  BY <1>0, <1>1 DEF Settled, Pending, Journaled, Alone, Unsettled, Values, Begin, Goto, project
<1>2. CASE RestoreWithoutChange
  BY <1>0, <1>2 DEF Settled, Pending, Journaled, Alone, Unsettled, Values,
     RestoreWithoutChange, project, journal, payload, control
<1>3. CASE AbortPrepare
  BY <1>0, <1>3 DEF Settled, Pending, Journaled, Alone, OnDisk, InPlace, Applied, RolledBack,
     Values, AbortPrepare, Forget, project, ghost, NoFiles
<1>4. CASE Commit
  BY <1>0, <1>4 DEF Settled, Pending, Journaled, Alone, OnDisk, InPlace, Applied, RolledBack,
     Values, Commit, Goto, project, payload
<1>5. CASE FinishApply
  BY <1>0, <1>5 DEF Settled, Pending, Journaled, Alone, Unsettled, Values, FinishApply,
     Forget, project, journal, ghost, NoFiles
<1>6. CASE MarkRecovered
  BY <1>0, <1>6 DEF Settled, Pending, Journaled, Alone, OnDisk, InPlace, Applied, RolledBack,
     Values, MarkRecovered, Goto, Forget, project, payload, ghost, NoFiles
<1>7. CASE MoveJournal
  BY <1>0, <1>7 DEF Settled, Pending, Journaled, Alone, OnDisk, InPlace, Applied, RolledBack,
     Values, MoveJournal, Forget, project, payload, ghost, NoFiles
<1>8. CASE MoveJournalFails
  BY <1>0, <1>8 DEF Settled, Pending, Journaled, Alone, OnDisk, InPlace, Applied, RolledBack,
     Values, MoveJournalFails, Forget, project, payload, ghost, NoFiles
<1>9. ASSUME NEW p \in Paths, NEW f \in UserFiles, UserEdit(p, f)
      PROVE  tree'[q] = goal'[q] /\ disk'[q] = goal'[q]
  BY <1>0, <1>9 DEF Settled, Pending, Journaled, Alone, Unsettled, Values, UserEdit, journal,
     payload
<1>10. ASSUME NEW lost, NEW lostBackups, NEW lostCopies,
             LosePower(lost, lostBackups, lostCopies)
      PROVE  tree'[q] = goal'[q] /\ disk'[q] = goal'[q]
  BY <1>0, <1>10 DEF Settled, Pending, Journaled, Alone, OnDisk, Values, LosePower, Forget,
     journal, ghost, NoFiles
<1>11. CASE \/ WriteJournal \/ StageOperations \/ MarkStaged
            \/ RecheckPreconditions \/ MarkApplying
  BY <1>0, <1>11 DEF Settled, Pending, Journaled, Alone, JournalState, Values, WriteJournal,
     MarkJournal, Goto, StageOperations, MarkStaged, RecheckPreconditions, MarkApplying,
     GotoWith, project, journal, payload, ghost
<1>12. CASE \/ (\E p \in Paths : BackupProjectFile(p))
            \/ (\E p \in Paths : RemoveBackupSource(p)) \/ FlushBackups
            \/ FlushBackupSources \/ (\E p \in Paths : PublishStagedFile(p))
  BY <1>0, <1>12 DEF Settled, Pending, Journaled, Alone, JournalState, Values,
     BackupProjectFile, RemoveBackupSource, FlushBackups, Goto, FlushBackupSources, Settle,
     GotoWith, PublishStagedFile, Done, project, journal, payload, ghost
<1>13. CASE \/ (\E p \in Paths : SetProjectFileMtime(p)) \/ FlushPublished
            \/ VerifyQuarantineTarget \/ Recover
            \/ (\E p \in Paths : NotPublished(p))
  BY <1>0, <1>13 DEF Settled, Pending, Journaled, Alone, JournalState, Values,
     SetProjectFileMtime, SetMtime, Done, FlushPublished, Settle, Goto,
     VerifyQuarantineTarget, Recover, EnterRollback, GotoWith, NotPublished, project, journal,
     payload, ghost
<1>14. CASE \/ (\E p \in Paths : PreserveAfterFile(p)) \/ SyncAfterCopy
            \/ DiscardFreshCopy \/ HoldAfterFile \/ SyncHold
  BY <1>0, <1>14 DEF Settled, Pending, Journaled, Alone, JournalState, Values,
     PreserveAfterFile, SyncAfterCopy, Goto, DiscardFreshCopy, Forget, NoFiles, HoldAfterFile,
     SyncHold, Settle, project, journal, payload, ghost
<1>15. CASE \/ DropHeld \/ SyncDrop \/ AfterFilesRemoved
            \/ (\E p \in Paths : KeepBeforeFile(p))
            \/ (\E p \in Paths : CopyBackupFile(p))
  BY <1>0, <1>15 DEF Settled, Pending, Journaled, Alone, JournalState, Values, DropHeld, Goto,
     SyncDrop, Settle, GotoWith, AfterFilesRemoved, KeepBeforeFile, SetMtime, Done,
     CopyBackupFile, project, journal, payload, ghost
<1>16. CASE \/ SyncBackupCopy \/ DiscardBackupCopy \/ BeforeFilesRestored
            \/ (\E p \in Paths : RecoverProjectFileMtime(p))
            \/ EnsureBeforeStateRestored
  BY <1>0, <1>16 DEF Settled, Pending, Journaled, Alone, JournalState, Values, SyncBackupCopy,
     Settle, DiscardBackupCopy, Forget, NoFiles, BeforeFilesRestored, GotoWith,
     RecoverProjectFileMtime, SetMtime, Done, EnsureBeforeStateRestored, Goto, project,
     journal, payload, ghost
<1>17. CASE \/ DropStaged \/ CloseRescue \/ BeginRescue
            \/ (\E p \in Paths : PreserveConflict(p)) \/ SyncRescueCopy
  BY <1>0, <1>17 DEF Settled, Pending, Journaled, Alone, JournalState, Values, DropStaged,
     Goto, CloseRescue, Forget, NoFiles, BeginRescue, PreserveConflict, SyncRescueCopy,
     GotoWith, project, journal, payload, ghost
<1>18. CASE \/ WriteRescueRecord \/ StartResolve
            \/ (\E p \in Paths : EntryResolved(p))
            \/ (\E p \in Paths : ResetConflictTime(p))
            \/ (\E p \in Paths : RemoveConflict(p))
  BY <1>0, <1>18 DEF Settled, Pending, Journaled, Alone, JournalState, Values,
     WriteRescueRecord, Goto, StartResolve, GotoWith, EntryResolved, ResetConflictTime,
     SetMtime, RemoveConflict, project, journal, payload, ghost
<1>19. CASE \/ SyncConflictRemoval \/ CompleteEntry \/ ConflictsResolved
            \/ QuarantineTransaction \/ QuarantineUnknownTransaction
  BY <1>0, <1>19 DEF Settled, Pending, Journaled, Alone, JournalState, Values,
     SyncConflictRemoval, Settle, Goto, CompleteEntry, GotoWith, ConflictsResolved,
     EnterRollback, QuarantineTransaction, WriteQuarantineRecord,
     QuarantineUnknownTransaction, project, journal, payload, ghost
<1>20. CASE \/ Release
  BY <1>0, <1>20 DEF Settled, Pending, Journaled, Alone, JournalState, Values, Release,
     Forget, NoFiles, project, journal, payload, ghost
<1>21. CASE UNCHANGED vars
  BY <1>0, <1>21 DEF Settled, Pending, Journaled, Alone, JournalState, Values, vars, project,
     journal, payload, control, ghost
<1>22. QED
  BY <1>0, <1>1, <1>2, <1>3, <1>4, <1>5, <1>6, <1>7, <1>8, <1>9, <1>10, <1>11, <1>12, <1>13,
     <1>14, <1>15, <1>16, <1>17, <1>18, <1>19, <1>20, <1>21, Begins DEF Next, Prepare, Apply,
     Rollback, Rescue, Quarantine, User, PowerLoss

(* A quarantine without a flag is of a transaction whose every file is     *)
(* back in place.                                                          *)
LEMMA UnflaggedIsBack ==
    ASSUME TypeInv, RollbackInv, WholeInv, pc' = "moveJournal", ~unresolved',
           NEW q \in Alone', [Next]_vars
    PROVE  tree'[q] = before'[q]
<1> USE TransactionAssumption
<1>0. /\ TypeOK /\ Values /\ StepsKnow /\ Journaled /\ q \in Paths
      /\ Pending => goal = before
      /\ Pending /\ q \in Alone => OnDisk(q) /\ InPlace(q) /\ Applied(q) /\ RolledBack(q)
      /\ Settled /\ q \in Alone => tree[q] = goal[q] /\ disk[q] = goal[q]
      /\ pc = "moveJournal" /\ ~unresolved /\ q \in Alone => tree[q] = before[q]
  BY DEF TypeInv, TypeOK, Values, RollbackInv, WholeInv, Alone
<1>1. ASSUME NEW k \in {"restore", "discard"}, NEW target \in Tree, Begin(k, target)
      PROVE  tree'[q] = before'[q]
  BY <1>0, <1>1 DEF Alone, Values, Begin, Goto, project
<1>2. CASE QuarantineTransaction
  <2>1. Pending /\ q \in Alone /\ VerifiedInBeforeState
    BY <1>0, <1>2 DEF Pending, Alone, QuarantineTransaction, WriteQuarantineRecord, project,
       journal, payload, ghost
  <2>2. Kinds(q) /\ InPlace(q)
    BY <1>0, <2>1, OpKinds
  <2>3. tree[q] = before[q]
    BY <1>0, <2>1, <2>2 DEF Kinds, InPlace, VerifiedInBeforeState
  <2>4. QED
    BY <1>2, <2>3 DEF QuarantineTransaction, WriteQuarantineRecord, project, journal, payload,
       ghost
<1>3. CASE QuarantineUnknownTransaction
  <2>1. Pending /\ q \in Alone /\ VerifiedInBeforeState
    BY <1>0, <1>3 DEF Pending, Alone, QuarantineUnknownTransaction, WriteQuarantineRecord,
       project, journal, payload, ghost
  <2>2. Kinds(q) /\ InPlace(q)
    BY <1>0, <2>1, OpKinds
  <2>3. tree[q] = before[q]
    BY <1>0, <2>1, <2>2 DEF Kinds, InPlace, VerifiedInBeforeState
  <2>4. QED
    BY <1>3, <2>3 DEF QuarantineUnknownTransaction, WriteQuarantineRecord, project, journal,
       payload, ghost
<1>4. ASSUME NEW p \in Paths, NEW f \in UserFiles, UserEdit(p, f) PROVE tree'[q] = before'[q]
  BY <1>0, <1>4 DEF Alone, Values, UserEdit, journal, payload
<1>5. ASSUME NEW lost, NEW lostBackups, NEW lostCopies,
             LosePower(lost, lostBackups, lostCopies)
      PROVE  tree'[q] = before'[q]
  BY <1>0, <1>5 DEF Alone, Values, LosePower, Forget, journal, ghost, NoFiles
<1>6. CASE \/ RestoreWithoutChange \/ WriteJournal \/ StageOperations
           \/ MarkStaged \/ RecheckPreconditions
  BY <1>0, <1>6 DEF Alone, Values, RestoreWithoutChange, WriteJournal, MarkJournal, Goto,
     StageOperations, MarkStaged, RecheckPreconditions, project, journal, payload, control,
     ghost
<1>7. CASE \/ MarkApplying \/ AbortPrepare
           \/ (\E p \in Paths : BackupProjectFile(p))
           \/ (\E p \in Paths : RemoveBackupSource(p)) \/ FlushBackups
  BY <1>0, <1>7 DEF Alone, Values, MarkApplying, GotoWith, AbortPrepare, Forget, NoFiles,
     BackupProjectFile, RemoveBackupSource, FlushBackups, Goto, project, journal, payload,
     ghost
<1>8. CASE \/ FlushBackupSources \/ (\E p \in Paths : PublishStagedFile(p))
           \/ (\E p \in Paths : SetProjectFileMtime(p)) \/ FlushPublished
           \/ VerifyQuarantineTarget
  BY <1>0, <1>8 DEF Alone, Values, FlushBackupSources, Settle, GotoWith, Goto,
     PublishStagedFile, Done, SetProjectFileMtime, SetMtime, FlushPublished,
     VerifyQuarantineTarget, project, journal, payload, ghost
<1>9. CASE \/ Commit \/ FinishApply \/ Recover
           \/ (\E p \in Paths : NotPublished(p))
           \/ (\E p \in Paths : PreserveAfterFile(p))
  BY <1>0, <1>9 DEF Alone, Values, Commit, Goto, FinishApply, Forget, NoFiles, Recover,
     EnterRollback, GotoWith, NotPublished, Done, PreserveAfterFile, project, journal,
     payload, ghost
<1>10. CASE \/ SyncAfterCopy \/ DiscardFreshCopy \/ HoldAfterFile \/ SyncHold
            \/ DropHeld
  BY <1>0, <1>10 DEF Alone, Values, SyncAfterCopy, Goto, DiscardFreshCopy, Forget, NoFiles,
     HoldAfterFile, SyncHold, Settle, DropHeld, project, journal, payload, ghost
<1>11. CASE \/ SyncDrop \/ AfterFilesRemoved
            \/ (\E p \in Paths : KeepBeforeFile(p))
            \/ (\E p \in Paths : CopyBackupFile(p)) \/ SyncBackupCopy
  BY <1>0, <1>11 DEF Alone, Values, SyncDrop, Settle, GotoWith, AfterFilesRemoved,
     KeepBeforeFile, SetMtime, Done, CopyBackupFile, SyncBackupCopy, project, journal,
     payload, ghost
<1>12. CASE \/ DiscardBackupCopy \/ BeforeFilesRestored
            \/ (\E p \in Paths : RecoverProjectFileMtime(p))
            \/ EnsureBeforeStateRestored \/ DropStaged
  BY <1>0, <1>12 DEF Alone, Values, DiscardBackupCopy, Forget, NoFiles, BeforeFilesRestored,
     GotoWith, RecoverProjectFileMtime, SetMtime, Done, EnsureBeforeStateRestored, Goto,
     DropStaged, project, journal, payload, ghost
<1>13. CASE \/ MarkRecovered \/ CloseRescue \/ BeginRescue
            \/ (\E p \in Paths : PreserveConflict(p)) \/ SyncRescueCopy
  BY <1>0, <1>13 DEF Alone, Values, MarkRecovered, Goto, Forget, NoFiles, CloseRescue,
     BeginRescue, PreserveConflict, SyncRescueCopy, GotoWith, project, journal, payload, ghost
<1>14. CASE \/ WriteRescueRecord \/ StartResolve
            \/ (\E p \in Paths : EntryResolved(p))
            \/ (\E p \in Paths : ResetConflictTime(p))
            \/ (\E p \in Paths : RemoveConflict(p))
  BY <1>0, <1>14 DEF Alone, Values, WriteRescueRecord, Goto, StartResolve, GotoWith,
     EntryResolved, ResetConflictTime, SetMtime, RemoveConflict, project, journal, payload,
     ghost
<1>15. CASE \/ SyncConflictRemoval \/ CompleteEntry \/ ConflictsResolved
            \/ MoveJournal \/ MoveJournalFails
  BY <1>0, <1>15 DEF Alone, Values, SyncConflictRemoval, Settle, Goto, CompleteEntry,
     GotoWith, ConflictsResolved, EnterRollback, MoveJournal, Forget, NoFiles,
     MoveJournalFails, project, journal, payload, ghost
<1>16. CASE \/ Release
  BY <1>0, <1>16 DEF Alone, Values, Release, Forget, NoFiles, project, journal, payload, ghost
<1>17. CASE UNCHANGED vars
  BY <1>0, <1>17 DEF Alone, Values, vars, project, journal, payload, control, ghost
<1>18. QED
  BY <1>0, <1>1, <1>2, <1>3, <1>4, <1>5, <1>6, <1>7, <1>8, <1>9, <1>10, <1>11, <1>12, <1>13,
     <1>14, <1>15, <1>16, <1>17, Begins DEF Next, Prepare, Apply, Rollback, Rescue,
     Quarantine, User, PowerLoss

(* When no transaction is pending and no quarantine is flagged, the tree   *)
(* is the one before or the one after the last transaction, on disk as     *)
(* well, except where the user edited it; unless the process is killed     *)
(* between a rename and its directory sync.                                *)
THEOREM UnflaggedIsWhole == KilledBeforeSync = FALSE => (Spec => []UnflaggedTreeIsWhole)
<1> SUFFICES ASSUME KilledBeforeSync = FALSE PROVE Spec => []UnflaggedTreeIsWhole
  OBVIOUS
<1>1. Init => RollbackInv /\ WholeInv
  BY DEF Init, RollbackInv, WholeInv, Journaled, Batched, Pending, Settled, Alone
<1>2. TypeInv /\ RollbackInv /\ [Next]_vars => RollbackInv'
  BY RollbackInvStays
<1>3. TypeInv /\ RollbackInv /\ WholeInv /\ [Next]_vars => WholeInv'
  <2> SUFFICES ASSUME TypeInv, RollbackInv, WholeInv, [Next]_vars PROVE WholeInv'
    OBVIOUS
  <2>1. Pending' => goal' = before'
    BY GoalStays DEF WholeInv
  <2>2. ASSUME Pending', NEW q \in Alone' PROVE OnDisk(q)'
    BY <2>2, DiskStays
  <2>3. ASSUME Settled', NEW q \in Alone' PROVE tree'[q] = goal'[q] /\ disk'[q] = goal'[q]
    BY <2>3, EndsWhole
  <2>4. ASSUME pc' = "moveJournal", ~unresolved', NEW q \in Alone'
        PROVE  tree'[q] = before'[q]
    BY <2>4, UnflaggedIsBack
  <2>5. QED
    BY <2>1, <2>2, <2>3, <2>4 DEF WholeInv
<1>4. WholeInv => UnflaggedTreeIsWhole
  BY DEF WholeInv, UnflaggedTreeIsWhole, Settled, Pending, Alone
<1>5. QED
  BY <1>1, <1>2, <1>3, <1>4, TypeInit, TypeStep, PTL DEF Spec
=============================================================================
