------------------------ MODULE CheckpointRepoProofs ------------------------
(***************************************************************************)
(* Proofs about CheckpointRepo, for any set of checkpoints, objects and    *)
(* contents.                                                               *)
(***************************************************************************)
EXTENDS CheckpointRepoInvariants, CheckpointRepoRefinement, TLAPS

-----------------------------------------------------------------------------
(* Facts about the helpers. *)

(* A transition extends a lineage by one state. *)
LEMMA ExtendedType ==
    ASSUME NEW h \in Lineage, NEW c \in Ckpts, NEW op \in {"Add", "Remove"}
    PROVE  Extended(h, op, c) \in Lineage
<1>1. h \in Seq(InventoryState) /\ Len(h) \in Nat /\ Len(h) # 0
  BY DEF Lineage
<1>2. h[Len(h)] \in InventoryState
  BY <1>1
<1>3. InventorySet(h) \in SUBSET Ckpts
  BY <1>2 DEF InventorySet, InventoryState
<1> DEFINE s == [op  |-> op, id  |-> c,
                 set |-> IF op = "Add" THEN InventorySet(h) \cup {c}
                                       ELSE InventorySet(h) \ {c}]
<1>4. s \in InventoryState
  BY <1>3 DEF InventoryState, InventoryOperation
<1>5. Append(h, s) \in Seq(InventoryState) /\ Append(h, s) # << >>
  BY <1>1, <1>4
<1>6. QED
  BY <1>5 DEF Extended, Lineage

(* ... whose set has gained or lost the checkpoint. *)
LEMMA ExtendedSet ==
    ASSUME NEW h \in Lineage, NEW c \in Ckpts, NEW op \in {"Add", "Remove"}
    PROVE  InventorySet(Extended(h, op, c)) =
             IF op = "Add" THEN InventorySet(h) \cup {c} ELSE InventorySet(h) \ {c}
<1>1. h \in Seq(InventoryState) /\ Len(h) \in Nat
  BY DEF Lineage
<1> DEFINE s == [op  |-> op, id  |-> c,
                 set |-> IF op = "Add" THEN InventorySet(h) \cup {c}
                                       ELSE InventorySet(h) \ {c}]
<1>2. Len(Append(h, s)) = Len(h) + 1 /\ Append(h, s)[Len(h) + 1] = s
  BY <1>1
<1>3. QED
  BY <1>2 DEF Extended, InventorySet

-----------------------------------------------------------------------------
(* Type correctness. *)

(* A repository that was just initialised is well typed. *)
LEMMA TypeInit == Init => TypeInv
BY RepoAssumption
   DEF Init, TypeInv, TypeOK, JournalDriven, BytesKnown, Steps, ScanSteps,
       CreateSteps, DeleteSteps, Disk, Lineage, InventoryState, InventoryOperation

(* Writing a journal's state keeps it a journal. *)
LEMMA StateWritten ==
    /\ \A j \in CreateJournal, st \in CreateJournalState :
          [j EXCEPT !.state = st] \in CreateJournal
    /\ \A j \in CheckpointDeletionJournal, st \in CheckpointDeletionState :
          [j EXCEPT !.state = st] \in CheckpointDeletionJournal
    /\ \A j \in CheckpointDeletionJournal :
          [j EXCEPT !.staged = TRUE] \in CheckpointDeletionJournal
BY DEF CreateJournal, CheckpointDeletionJournal

(* Every step of an operation, a recovery or a crash keeps it so. *)
LEMMA TypeStep == TypeInv /\ [Next]_vars => TypeInv'
<1> SUFFICES ASSUME TypeInv, [Next]_vars PROVE TypeInv'
  OBVIOUS
<1> USE RepoAssumption, NoneAssumption
    DEF TypeInv, TypeOK, JournalDriven, BytesKnown, Steps, ScanSteps, CreateSteps,
        DeleteSteps, disk, control, scan, Goto, Forget
<1>1. CASE Lock
  BY <1>1 DEF Lock
<1>2. ASSUME NEW c \in Ckpts, AbortCreation(c) PROVE TypeInv'
  BY <1>2 DEF AbortCreation
<1>3. ASSUME NEW c \in Ckpts, ResumeCreation(c) PROVE TypeInv'
  <2>1. cj[c] \in CreateJournal
    BY <1>3 DEF ResumeCreation
  <2>2. cj[c].state \in CreateJournalState
    BY <2>1 DEF CreateJournal
  <2>3. pc' \in CreateSteps
    BY <1>3, <2>2 DEF ResumeCreation, CreateJournalState
  <2>4. QED
    BY <1>3, <2>1, <2>3 DEF ResumeCreation
<1>4. CASE CreationsRecovered
  BY <1>4 DEF CreationsRecovered
<1>5. ASSUME NEW c \in Ckpts, AbortDeletion(c) PROVE TypeInv'
  BY <1>5 DEF AbortDeletion
<1>6. ASSUME NEW c \in Ckpts, ResumeDeletion(c) PROVE TypeInv'
  <2>1. dj[c] \in CheckpointDeletionJournal
    BY <1>6 DEF ResumeDeletion
  <2>2. dj[c].state \in CheckpointDeletionState
    BY <2>1 DEF CheckpointDeletionJournal
  <2>3. pc' \in DeleteSteps
    BY <1>6, <2>2 DEF ResumeDeletion, CheckpointDeletionState
  <2>4. QED
    BY <1>6, <2>1, <2>3 DEF ResumeDeletion
<1>7. CASE DeletionsRecovered
  BY <1>7 DEF DeletionsRecovered
<1>8. ASSUME NEW S \in Contents, BeginCreate(S) PROVE TypeInv'
  BY <1>8 DEF BeginCreate
<1>9. CASE PreloadObjects
  BY <1>9 DEF PreloadObjects
<1>10. ASSUME NEW o \in Objects, StoreObject(o) PROVE TypeInv'
  BY <1>10 DEF StoreObject, Disk
<1>11. CASE StoreManifest
  BY <1>11 DEF StoreManifest, Disk
<1>12. CASE FlushObjects
  BY <1>12 DEF FlushObjects, Disk
<1>13. CASE FlushManifest
  BY <1>13 DEF FlushManifest, Disk
<1>14. ASSUME NEW c \in Ckpts, PrepareCreate(c) PROVE TypeInv'
  <2> DEFINE j == [state |-> "Prepared", oldLatest |-> base, headBefore |-> head]
             b == [files |-> files, parent |-> base]
  <2>1. j \in CreateJournal /\ b \in Snapshot
    BY <1>14 DEF PrepareCreate, CreateJournal, CreateJournalState, Snapshot
  <2>2. cj' = [cj EXCEPT ![c] = j] /\ snap' = [snap EXCEPT ![c] = b]
    BY <1>14 DEF PrepareCreate
  <2> HIDE DEF j, b
  <2>3. /\ cj' \in [Ckpts -> CreateJournal \cup {None}]
        /\ cj'[c] # None /\ \A x \in Ckpts \ {c} : cj'[x] = cj[x]
    BY <2>1, <2>2
  <2>4. /\ snap' \in [Ckpts -> Snapshot \cup {None}]
        /\ snap'[c] # None /\ \A x \in Ckpts \ {c} : snap'[x] = snap[x]
    BY <2>1, <2>2
  <2>5. /\ pc = "prepare" /\ pc' = "publish" /\ cur' = c
        /\ UNCHANGED <<roots, objs, chunks, head, latest, dj, restore,
                       mode, todo, scan, gcPlan>>
    BY <1>14 DEF PrepareCreate
  <2>6. QED
    BY <2>3, <2>4, <2>5
<1>15. CASE PublishRoot
  BY <1>15 DEF PublishRoot
<1>16. CASE MarkRootPublished
  <2>1. cj[cur] \in CreateJournal /\ cur \in Ckpts
    BY <1>16 DEF MarkRootPublished, MarkCreate
  <2> DEFINE j == [cj[cur] EXCEPT !.state = "RootPublished"]
  <2>2. j \in CreateJournal
    BY <2>1, StateWritten DEF CreateJournalState
  <2>3. cj' = [cj EXCEPT ![cur] = j]
    BY <1>16 DEF MarkRootPublished, MarkCreate
  <2> HIDE DEF j
  <2>4. QED
    BY <1>16, <2>1, <2>2, <2>3 DEF MarkRootPublished, MarkCreate
<1>17. CASE AddToInventory
  <2>1. cj[cur] \in CreateJournal /\ cur \in Ckpts
    BY <1>17 DEF AddToInventory
  <2>2. head' \in Lineage
    BY <1>17, <2>1, ExtendedType DEF AddToInventory, CreateJournal
  <2>3. QED
    BY <1>17, <2>2 DEF AddToInventory
<1>18. CASE MarkAdded
  <2>1. cj[cur] \in CreateJournal /\ cur \in Ckpts
    BY <1>18 DEF MarkAdded, MarkCreate
  <2> DEFINE j == [cj[cur] EXCEPT !.state = "InventoryUpdated"]
  <2>2. j \in CreateJournal
    BY <2>1, StateWritten DEF CreateJournalState
  <2>3. cj' = [cj EXCEPT ![cur] = j]
    BY <1>18 DEF MarkAdded, MarkCreate
  <2> HIDE DEF j
  <2>4. QED
    BY <1>18, <2>1, <2>2, <2>3 DEF MarkAdded, MarkCreate
<1>19. CASE WriteLatest
  BY <1>19 DEF WriteLatest
<1>20. CASE MarkLatestUpdated
  <2>1. cj[cur] \in CreateJournal /\ cur \in Ckpts
    BY <1>20 DEF MarkLatestUpdated, MarkCreate
  <2> DEFINE j == [cj[cur] EXCEPT !.state = "LatestUpdated"]
  <2>2. j \in CreateJournal
    BY <2>1, StateWritten DEF CreateJournalState
  <2>3. cj' = [cj EXCEPT ![cur] = j]
    BY <1>20 DEF MarkLatestUpdated, MarkCreate
  <2> HIDE DEF j
  <2>4. QED
    BY <1>20, <2>1, <2>2, <2>3 DEF MarkLatestUpdated, MarkCreate
<1>21. CASE CommitCreate
  <2>1. cj[cur] \in CreateJournal /\ cur \in Ckpts
    BY <1>21 DEF CommitCreate, MarkCreate
  <2> DEFINE j == [cj[cur] EXCEPT !.state = "Committed"]
  <2>2. j \in CreateJournal
    BY <2>1, StateWritten DEF CreateJournalState
  <2>3. cj' = [cj EXCEPT ![cur] = j]
    BY <1>21 DEF CommitCreate, MarkCreate
  <2> HIDE DEF j
  <2>4. QED
    BY <1>21, <2>1, <2>2, <2>3 DEF CommitCreate, MarkCreate
<1>22. CASE CleanupCreate
  BY <1>22 DEF CleanupCreate, NextJournal
<1>23. ASSUME NEW c \in Ckpts, BeginDelete(c) PROVE TypeInv'
  <2>1. PICK d \in ProjectSnapshotRemoval(c) :
          dj' = [dj EXCEPT ![c] = [state |-> "Prepared", staged |-> FALSE,
                                   newLatest |-> d, headBefore |-> head]]
    BY <1>23 DEF BeginDelete
  <2>2. snap[c] \in Snapshot /\ snap[c].parent \in Ckpts \cup {None}
    BY <1>23 DEF BeginDelete, Loadable, Snapshot
  <2>3. \A i \in DOMAIN head : head[i].id \in Ckpts \cup {None}
    <3>1. head \in Seq(InventoryState)
      BY DEF Lineage
    <3>2. \A i \in DOMAIN head : head[i] \in InventoryState
      BY <3>1
    <3>3. QED
      BY <3>2 DEF InventoryState
  <2>4. d \in Ckpts \cup {None}
    BY <2>1, <2>2, <2>3 DEF ProjectSnapshotRemoval, NewestSurvivor
  <2> DEFINE j == [state |-> "Prepared", staged |-> FALSE,
                   newLatest |-> d, headBefore |-> head]
  <2>5. j \in CheckpointDeletionJournal
    BY <2>4 DEF CheckpointDeletionJournal, CheckpointDeletionState
  <2>6. dj' = [dj EXCEPT ![c] = j]
    BY <2>1
  <2> HIDE DEF j
  <2>7. dj' \in [Ckpts -> CheckpointDeletionJournal \cup {None}]
    BY <2>5, <2>6
  <2>8. dj'[c] # None /\ \A x \in Ckpts \ {c} : dj'[x] = dj[x]
    BY <2>5, <2>6
  <2>9. /\ pc = "locked" /\ pc' = "stageRoot" /\ cur' = c
        /\ UNCHANGED <<roots, snap, objs, chunks, head, latest, cj, restore,
                       mode, todo, scan, gcPlan>>
    BY <1>23 DEF BeginDelete
  <2>10. mode' = "run" \/ \A x \in todo' : dj'[x] # None
    BY <2>8, <2>9
  <2>11. QED
    BY <2>2, <2>7, <2>8, <2>9, <2>10
<1>24. CASE StageRoot
  <2>1. dj[cur] \in CheckpointDeletionJournal /\ cur \in Ckpts
    BY <1>24 DEF StageRoot
  <2> DEFINE j == [dj[cur] EXCEPT !.staged = TRUE]
  <2>2. j \in CheckpointDeletionJournal
    BY <2>1, StateWritten
  <2>3. dj' = [dj EXCEPT ![cur] = j]
    BY <1>24 DEF StageRoot
  <2> HIDE DEF j
  <2>4. /\ dj' \in [Ckpts -> CheckpointDeletionJournal \cup {None}]
        /\ dj'[cur] # None /\ \A x \in Ckpts \ {cur} : dj'[x] = dj[x]
    BY <2>1, <2>2, <2>3
  <2>5. /\ pc = "stageRoot" /\ pc' = "markStaged"
        /\ UNCHANGED <<roots, snap, objs, chunks, head, latest, cj, restore,
                       mode, todo, cur, scan, gcPlan>>
    BY <1>24 DEF StageRoot
  <2>6. QED
    BY <2>1, <2>4, <2>5
<1>25. CASE MarkStaged
  <2>1. dj[cur] \in CheckpointDeletionJournal /\ cur \in Ckpts
    BY <1>25 DEF MarkStaged, MarkDelete
  <2> DEFINE j == [dj[cur] EXCEPT !.state = "Staged"]
  <2>2. j \in CheckpointDeletionJournal
    BY <2>1, StateWritten DEF CheckpointDeletionState
  <2>3. dj' = [dj EXCEPT ![cur] = j]
    BY <1>25 DEF MarkStaged, MarkDelete
  <2> HIDE DEF j
  <2>4. QED
    BY <1>25, <2>1, <2>2, <2>3 DEF MarkStaged, MarkDelete
<1>26. CASE UnlinkRoot
  BY <1>26 DEF UnlinkRoot
<1>27. CASE RemoveFromInventory
  <2>1. dj[cur] \in CheckpointDeletionJournal /\ cur \in Ckpts
    BY <1>27 DEF RemoveFromInventory
  <2>2. head' \in Lineage
    BY <1>27, <2>1, ExtendedType DEF RemoveFromInventory, CheckpointDeletionJournal
  <2>3. QED
    BY <1>27, <2>2 DEF RemoveFromInventory
<1>28. CASE MarkRemoved
  <2>1. dj[cur] \in CheckpointDeletionJournal /\ cur \in Ckpts
    BY <1>28 DEF MarkRemoved, MarkDelete
  <2> DEFINE j == [dj[cur] EXCEPT !.state = "InventoryUpdated"]
  <2>2. j \in CheckpointDeletionJournal
    BY <2>1, StateWritten DEF CheckpointDeletionState
  <2>3. dj' = [dj EXCEPT ![cur] = j]
    BY <1>28 DEF MarkRemoved, MarkDelete
  <2> HIDE DEF j
  <2>4. QED
    BY <1>28, <2>1, <2>2, <2>3 DEF MarkRemoved, MarkDelete
<1>29. CASE MoveLatest
  <2>1. dj[cur] \in CheckpointDeletionJournal
    BY <1>29 DEF MoveLatest
  <2>2. latest' \in Ckpts \cup {None}
    BY <1>29, <2>1 DEF MoveLatest, CheckpointDeletionJournal
  <2>3. QED
    BY <1>29, <2>2 DEF MoveLatest
<1>30. CASE CommitDelete
  <2>1. dj[cur] \in CheckpointDeletionJournal /\ cur \in Ckpts
    BY <1>30 DEF CommitDelete, MarkDelete
  <2> DEFINE j == [dj[cur] EXCEPT !.state = "Committed"]
  <2>2. j \in CheckpointDeletionJournal
    BY <2>1, StateWritten DEF CheckpointDeletionState
  <2>3. dj' = [dj EXCEPT ![cur] = j]
    BY <1>30 DEF CommitDelete, MarkDelete
  <2> HIDE DEF j
  <2>4. QED
    BY <1>30, <2>1, <2>2, <2>3 DEF CommitDelete, MarkDelete
<1>31. CASE CleanupDelete
  BY <1>31 DEF CleanupDelete, NextJournal
<1>32. CASE AnalyzeGc
  <2>1. CurrentGcPlan \in GcPlan
    BY DEF CurrentGcPlan, GcPlan
  <2>2. QED
    BY <1>32, <2>1 DEF AnalyzeGc
<1>33. CASE BeginGc
  <2>1. CurrentGcPlan \in GcPlan
    BY DEF CurrentGcPlan, GcPlan
  <2>2. QED
    BY <1>33, <2>1 DEF BeginGc
<1>34. ASSUME NEW o \in Objects, GcDeleteObject(o) PROVE TypeInv'
  BY <1>34 DEF GcDeleteObject, Disk
<1>35. ASSUME NEW k \in Contents, GcDeleteChunk(k) PROVE TypeInv'
  BY <1>35 DEF GcDeleteChunk, Disk
<1>36. ASSUME NEW c \in Ckpts, BeginRestore(c) PROVE TypeInv'
  BY <1>36 DEF BeginRestore
<1>37. CASE EndRestore
  BY <1>37 DEF EndRestore
<1>38. CASE Release
  BY <1>38 DEF Release
<1>39. CASE PowerLoss
  BY <1>39 DEF PowerLoss, Disk
<1>40. CASE UNCHANGED vars
  BY <1>40 DEF vars
<1>41. CASE CommitDeleteFails
  BY <1>41 DEF CommitDeleteFails, NextJournal
<1>42. QED
  BY <1>1, <1>2, <1>3, <1>4, <1>5, <1>6, <1>7, <1>8, <1>9, <1>10, <1>11,
     <1>12, <1>13, <1>14, <1>15, <1>16, <1>17, <1>18, <1>19, <1>20, <1>21,
     <1>22, <1>23, <1>24, <1>25, <1>26, <1>27, <1>28, <1>29, <1>30, <1>31,
     <1>32, <1>33, <1>34, <1>35, <1>36, <1>37, <1>38, <1>39, <1>40, <1>41
     DEF Next, Recovery, Create, Delete, Gc, Restore

(* The repository's variables keep their types: journals are complete      *)
(* records whenever they exist, and the head is always a lineage.          *)
THEOREM TypeCorrect == Spec => []TypeOK
<1>1. TypeInv => TypeOK
  BY DEF TypeInv
<1>2. QED
  BY <1>1, TypeInit, TypeStep, PTL DEF Spec

-----------------------------------------------------------------------------
(* What a published checkpoint names is durable. *)

(* Nothing is published at first. *)
LEMMA DurableInit == Init => DurableInv
BY DEF Init, DurableInv, PublishedIsDurable, ParentPublished, ObjectsOnTheWay,
       ManifestOnTheWay, AboutToPublish, CollectsUnreferenced, ScanSteps

(* No step publishes what is not synced, or loses what is published. *)
LEMMA DurableStep == TypeInv /\ TypeInv' /\ DurableInv /\ [Next]_vars => DurableInv'
<1> SUFFICES ASSUME TypeInv, TypeInv', DurableInv, [Next]_vars PROVE DurableInv'
  OBVIOUS
<1> USE RepoAssumption, NoneAssumption
    DEF DurableInv, PublishedIsDurable, ParentPublished, ObjectsOnTheWay,
        ManifestOnTheWay, AboutToPublish, CollectsUnreferenced, FilesDurable,
        ReferencedObjects, ReferencedChunks,
        TypeInv, TypeOK, JournalDriven, BytesKnown, Steps, ScanSteps, CreateSteps,
        DeleteSteps, disk, control, scan, Goto, Forget
<1>1. CASE Lock
  BY <1>1 DEF Lock
<1>2. ASSUME NEW c \in Ckpts, AbortCreation(c) PROVE DurableInv'
  BY <1>2 DEF AbortCreation
<1>3. ASSUME NEW c \in Ckpts, ResumeCreation(c) PROVE DurableInv'
  <2>1. cj[c] \in CreateJournal
    BY <1>3 DEF ResumeCreation
  <2>2. cj[c].state \in CreateJournalState
    BY <2>1 DEF CreateJournal
  <2>3. pc' \in CreateSteps \ {"publish"}
    BY <1>3, <2>2 DEF ResumeCreation, CreateJournalState
  <2>4. QED
    BY <1>3, <2>3 DEF ResumeCreation
<1>4. CASE CreationsRecovered
  BY <1>4 DEF CreationsRecovered
<1>5. ASSUME NEW c \in Ckpts, AbortDeletion(c) PROVE DurableInv'
  BY <1>5 DEF AbortDeletion
<1>6. ASSUME NEW c \in Ckpts, ResumeDeletion(c) PROVE DurableInv'
  <2>1. dj[c] \in CheckpointDeletionJournal
    BY <1>6 DEF ResumeDeletion
  <2>2. dj[c].state \in CheckpointDeletionState
    BY <2>1 DEF CheckpointDeletionJournal
  <2>3. pc' \in DeleteSteps
    BY <1>6, <2>2 DEF ResumeDeletion, CheckpointDeletionState
  <2>4. QED
    BY <1>6, <2>3 DEF ResumeDeletion
<1>7. CASE DeletionsRecovered
  BY <1>7 DEF DeletionsRecovered
<1>8. ASSUME NEW S \in Contents, BeginCreate(S) PROVE DurableInv'
  BY <1>8 DEF BeginCreate, Loadable
<1>9. CASE PreloadObjects
  BY <1>9 DEF PreloadObjects, FilesOf, Disk
<1>10. ASSUME NEW o \in Objects, StoreObject(o) PROVE DurableInv'
  BY <1>10 DEF StoreObject, Disk
<1>11. CASE StoreManifest
  BY <1>11 DEF StoreManifest, FilesOf
<1>12. CASE FlushObjects
  <2>1. pc = "flushObjects" /\ pc' = "flushManifest"
    BY <1>12 DEF FlushObjects
  <2>2. \A o \in Objects : objs'[o] = IF o \in batch THEN "durable" ELSE objs[o]
    BY <1>12 DEF FlushObjects
  <2>3. FilesDurable(files)'
    BY <1>12, <2>1, <2>2 DEF FlushObjects
  <2>4. PublishedIsDurable'
    <3>1. ASSUME NEW x \in roots PROVE snap[x] \in Snapshot /\ snap[x].files \subseteq Objects
      BY <3>1 DEF Snapshot
    <3>2. QED
      BY <1>12, <2>2, <3>1 DEF FlushObjects
  <2>5. QED
    BY <1>12, <2>1, <2>3, <2>4 DEF FlushObjects
<1>13. CASE FlushManifest
  <2>1. pc = "flushManifest" /\ pc' = "prepare" /\ files \in Contents
    BY <1>13 DEF FlushManifest
  <2>2. \A k \in Contents : chunks'[k] = IF k \in mbatch THEN "durable" ELSE chunks[k]
    BY <1>13 DEF FlushManifest
  <2>3. chunks'[files] = "durable"
    BY <2>1, <2>2
  <2>4. PublishedIsDurable'
    <3>1. ASSUME NEW x \in roots PROVE snap[x] \in Snapshot /\ snap[x].files \in Contents
      BY <3>1 DEF Snapshot
    <3>2. QED
      BY <1>13, <2>2, <3>1 DEF FlushManifest
  <2>5. QED
    BY <1>13, <2>1, <2>3, <2>4 DEF FlushManifest
<1>14. ASSUME NEW c \in Ckpts, PrepareCreate(c) PROVE DurableInv'
  BY <1>14 DEF PrepareCreate
<1>15. CASE PublishRoot
  BY <1>15 DEF PublishRoot
<1>16. CASE MarkRootPublished
  BY <1>16 DEF MarkRootPublished, MarkCreate
<1>17. CASE AddToInventory
  BY <1>17 DEF AddToInventory
<1>18. CASE MarkAdded
  BY <1>18 DEF MarkAdded, MarkCreate
<1>19. CASE WriteLatest
  BY <1>19 DEF WriteLatest
<1>20. CASE MarkLatestUpdated
  BY <1>20 DEF MarkLatestUpdated, MarkCreate
<1>21. CASE CommitCreate
  BY <1>21 DEF CommitCreate, MarkCreate
<1>22. CASE CleanupCreate
  BY <1>22 DEF CleanupCreate, NextJournal
<1>23. ASSUME NEW c \in Ckpts, BeginDelete(c) PROVE DurableInv'
  BY <1>23 DEF BeginDelete
<1>24. CASE StageRoot
  BY <1>24 DEF StageRoot
<1>25. CASE MarkStaged
  BY <1>25 DEF MarkStaged, MarkDelete
<1>26. CASE UnlinkRoot
  BY <1>26 DEF UnlinkRoot
<1>27. CASE RemoveFromInventory
  BY <1>27 DEF RemoveFromInventory
<1>28. CASE MarkRemoved
  BY <1>28 DEF MarkRemoved, MarkDelete
<1>29. CASE MoveLatest
  BY <1>29 DEF MoveLatest
<1>30. CASE CommitDelete
  BY <1>30 DEF CommitDelete, MarkDelete
<1>31. CASE CleanupDelete
  BY <1>31 DEF CleanupDelete, NextJournal
<1>32. CASE AnalyzeGc
  BY <1>32 DEF AnalyzeGc
<1>33. CASE BeginGc
  BY <1>33 DEF BeginGc, CurrentGcPlan
<1>34. ASSUME NEW o \in Objects, GcDeleteObject(o) PROVE DurableInv'
  BY <1>34 DEF GcDeleteObject
<1>35. ASSUME NEW k \in Contents, GcDeleteChunk(k) PROVE DurableInv'
  BY <1>35 DEF GcDeleteChunk
<1>36. ASSUME NEW c \in Ckpts, BeginRestore(c) PROVE DurableInv'
  BY <1>36 DEF BeginRestore
<1>37. CASE EndRestore
  BY <1>37 DEF EndRestore
<1>38. CASE Release
  BY <1>38 DEF Release
<1>39. CASE PowerLoss
  <2>1. pc' = "idle" /\ roots' = roots /\ snap' = snap
    BY <1>39 DEF PowerLoss
  <2>2. \A o \in Objects : objs[o] = "durable" => objs'[o] = "durable"
    BY <1>39 DEF PowerLoss
  <2>3. \A k \in Contents : chunks[k] = "durable" => chunks'[k] = "durable"
    BY <1>39 DEF PowerLoss
  <2>4. \A x \in roots : /\ snap[x] \in Snapshot
                         /\ snap[x].files \in Contents /\ snap[x].files \subseteq Objects
    BY DEF Snapshot
  <2>5. QED
    BY <2>1, <2>2, <2>3, <2>4
<1>40. CASE UNCHANGED vars
  BY <1>40 DEF vars
<1>41. CASE CommitDeleteFails
  BY <1>41 DEF CommitDeleteFails, NextJournal
<1>42. QED
  BY <1>1, <1>2, <1>3, <1>4, <1>5, <1>6, <1>7, <1>8, <1>9, <1>10, <1>11,
     <1>12, <1>13, <1>14, <1>15, <1>16, <1>17, <1>18, <1>19, <1>20, <1>21,
     <1>22, <1>23, <1>24, <1>25, <1>26, <1>27, <1>28, <1>29, <1>30, <1>31,
     <1>32, <1>33, <1>34, <1>35, <1>36, <1>37, <1>38, <1>39, <1>40, <1>41
     DEF Next, Recovery, Create, Delete, Gc, Restore

(* Whatever was interrupted, reused from an earlier attempt or collected,  *)
(* the manifest and every object of a published checkpoint are synced:     *)
(* the barriers of create_checkpoint_internal precede its journal, and GC  *)
(* deletes only what no published root names.                              *)
THEOREM PublishedStaysDurable == Spec => []PublishedIsDurable
<1>1. Init => TypeInv /\ DurableInv
  BY TypeInit, DurableInit
<1>2. TypeInv /\ DurableInv /\ [Next]_vars => (TypeInv /\ DurableInv)'
  BY TypeStep, DurableStep
<1>3. TypeInv /\ DurableInv => PublishedIsDurable
  BY DEF DurableInv
<1>4. QED
  BY <1>1, <1>2, <1>3, PTL DEF Spec

-----------------------------------------------------------------------------
(* Published roots, inventory and refs/latest agree whenever no journal is *)
(* unfinished, and at most one journal is.                                 *)

(* Writing the state of a journal changes that field of that journal. *)
LEMMA CreationMarked ==
    ASSUME cj \in [Ckpts -> CreateJournal \cup {None}], cur \in Ckpts, cj[cur] # None,
           NEW st \in CreateJournalState, cj' = [cj EXCEPT ![cur].state = st]
    PROVE  /\ cj'[cur] # None /\ cj'[cur].state = st
           /\ cj'[cur].oldLatest = cj[cur].oldLatest
           /\ cj'[cur].headBefore = cj[cur].headBefore
           /\ \A c \in Ckpts \ {cur} : cj'[c] = cj[c]
<1> DEFINE j == [cj[cur] EXCEPT !.state = st]
<1>1. cj[cur] \in CreateJournal
  OBVIOUS
<1>2. j \in CreateJournal
  BY <1>1, StateWritten
<1>3. /\ j.state = st /\ j.oldLatest = cj[cur].oldLatest
      /\ j.headBefore = cj[cur].headBefore
  BY <1>1 DEF CreateJournal
<1>4. cj' = [cj EXCEPT ![cur] = j]
  OBVIOUS
<1> HIDE DEF j
<1>5. QED
  BY <1>2, <1>3, <1>4, NoneAssumption

(* The same of a deletion journal. *)
LEMMA DeletionMarked ==
    ASSUME dj \in [Ckpts -> CheckpointDeletionJournal \cup {None}], cur \in Ckpts,
           dj[cur] # None, NEW st \in CheckpointDeletionState,
           dj' = [dj EXCEPT ![cur].state = st]
    PROVE  /\ dj'[cur] # None /\ dj'[cur].state = st
           /\ dj'[cur].newLatest = dj[cur].newLatest
           /\ dj'[cur].headBefore = dj[cur].headBefore
           /\ \A c \in Ckpts \ {cur} : dj'[c] = dj[c]
<1> DEFINE j == [dj[cur] EXCEPT !.state = st]
<1>1. dj[cur] \in CheckpointDeletionJournal
  OBVIOUS
<1>2. j \in CheckpointDeletionJournal
  BY <1>1, StateWritten
<1>3. /\ j.state = st /\ j.newLatest = dj[cur].newLatest
      /\ j.headBefore = dj[cur].headBefore
  BY <1>1 DEF CheckpointDeletionJournal
<1>4. dj' = [dj EXCEPT ![cur] = j]
  OBVIOUS
<1> HIDE DEF j
<1>5. QED
  BY <1>2, <1>3, <1>4, NoneAssumption

(* Staging the root leaves the rest of the journal alone. *)
LEMMA DeletionStaged ==
    ASSUME dj \in [Ckpts -> CheckpointDeletionJournal \cup {None}], cur \in Ckpts,
           dj[cur] # None, dj' = [dj EXCEPT ![cur].staged = TRUE]
    PROVE  /\ dj'[cur] # None /\ dj'[cur].state = dj[cur].state
           /\ dj'[cur].newLatest = dj[cur].newLatest
           /\ dj'[cur].headBefore = dj[cur].headBefore
           /\ \A c \in Ckpts \ {cur} : dj'[c] = dj[c]
<1> DEFINE j == [dj[cur] EXCEPT !.staged = TRUE]
<1>1. dj[cur] \in CheckpointDeletionJournal
  OBVIOUS
<1>2. j \in CheckpointDeletionJournal
  BY <1>1, StateWritten
<1>3. /\ j.state = dj[cur].state /\ j.newLatest = dj[cur].newLatest
      /\ j.headBefore = dj[cur].headBefore
  BY <1>1 DEF CheckpointDeletionJournal
<1>4. dj' = [dj EXCEPT ![cur] = j]
  OBVIOUS
<1> HIDE DEF j
<1>5. QED
  BY <1>2, <1>3, <1>4, NoneAssumption

(* The part of ConsistencyInv that does not depend on where the operation  *)
(* is: a step that leaves roots, inventory, refs/latest and journals alone *)
(* preserves it.                                                           *)
Durably ==
    /\ OneUnfinished
    /\ Agreement
    /\ \A c \in UnfinishedCreations : CreationProgress(c)
    /\ \A c \in UnfinishedDeletions : DeletionProgress(c)

Written == <<roots, head, latest, cj, dj>>

(* A step that writes none of these five preserves it, and the sets of     *)
(* unfinished journals with it.                                            *)
LEMMA NothingWritten ==
    ASSUME Durably, UNCHANGED Written
    PROVE  /\ Durably'
           /\ UnfinishedCreations' = UnfinishedCreations
           /\ UnfinishedDeletions' = UnfinishedDeletions
<1>1. /\ UnfinishedCreations' = UnfinishedCreations
      /\ UnfinishedDeletions' = UnfinishedDeletions
  BY DEF Written, UnfinishedCreations, UnfinishedDeletions
<1>2. \A c : CreationProgress(c)' = CreationProgress(c)
  BY DEF Written, CreationProgress
<1>3. \A c : DeletionProgress(c)' = DeletionProgress(c)
  BY DEF Written, DeletionProgress
<1>4. Agreement' = Agreement
  BY <1>1 DEF Written, Agreement
<1>5. OneUnfinished' = OneUnfinished
  BY <1>1 DEF OneUnfinished
<1>6. QED
  BY <1>1, <1>2, <1>3, <1>4, <1>5 DEF Durably

(* A repository that was just initialised has no journal and no checkpoint. *)
LEMMA ConsistencyInit == Init => ConsistencyInv
<1> SUFFICES ASSUME Init PROVE ConsistencyInv
  OBVIOUS
<1>1. UnfinishedCreations = {} /\ UnfinishedDeletions = {}
  BY DEF Init, UnfinishedCreations, UnfinishedDeletions
<1>2. InventorySet(head) = {}
  BY DEF Init, InventorySet
<1>3. Agreement
  BY <1>2 DEF Init, Agreement, LatestFits
<1>4. Phase /\ CreateStep /\ DeleteStep
  BY <1>1 DEF Init, Phase, CreateStep, DeleteStep, ScanSteps, CreateSteps, DeleteSteps
<1>5. QED
  BY <1>1, <1>3, <1>4 DEF ConsistencyInv, OneUnfinished

(* Every durable write of a creation, a deletion or a recovery, and every   *)
(* interruption, keeps the journals and the state they describe in step.    *)
LEMMA ConsistencyStep ==
    ASSUME RecoveryMayNotFinalize = FALSE
    PROVE  TypeInv /\ TypeInv' /\ ConsistencyInv /\ [Next]_vars => ConsistencyInv'
<1> SUFFICES ASSUME TypeInv, TypeInv', ConsistencyInv, [Next]_vars PROVE ConsistencyInv'
  OBVIOUS
<1>a. Durably /\ Phase /\ CreateStep /\ DeleteStep
  BY DEF ConsistencyInv, Durably
<1>b. SUFFICES Durably' /\ Phase' /\ CreateStep' /\ DeleteStep'
  BY DEF ConsistencyInv, Durably
<1>c. /\ \A c \in Ckpts : cj[c] # None =>
           /\ cj[c].state \in CreateJournalState
           /\ cj[c].headBefore \in Lineage
           /\ cj[c].oldLatest \in Ckpts \cup {None}
      /\ \A c \in Ckpts : dj[c] # None =>
           /\ dj[c].state \in CheckpointDeletionState
           /\ dj[c].headBefore \in Lineage
           /\ dj[c].newLatest \in Ckpts \cup {None}
  BY NoneAssumption DEF TypeInv, TypeOK, CreateJournal, CheckpointDeletionJournal
<1>d. /\ UnfinishedCreations \subseteq Ckpts
      /\ UnfinishedDeletions \subseteq Ckpts
  BY DEF UnfinishedCreations, UnfinishedDeletions
<1>e. /\ cj \in [Ckpts -> CreateJournal \cup {None}]
      /\ dj \in [Ckpts -> CheckpointDeletionJournal \cup {None}]
      /\ roots \subseteq Ckpts /\ head \in Lineage /\ JournalDriven /\ BytesKnown
      /\ pc \in Steps /\ mode \in {"run", "recover"}
  BY DEF TypeInv, TypeOK
<1> USE DEF Steps, ScanSteps, CreateSteps, DeleteSteps, disk, control, scan, Goto, Forget
<1>1. CASE Lock
  <2>1. Durably' /\ UnfinishedCreations' = UnfinishedCreations
                  /\ UnfinishedDeletions' = UnfinishedDeletions
    BY <1>1, <1>a, NothingWritten DEF Lock, Written
  <2>2. UnfinishedCreations \subseteq todo'
    BY <1>1 DEF Lock, UnfinishedCreations
  <2>3. QED
    BY <1>1, <2>1, <2>2 DEF Lock, Phase, CreateStep, DeleteStep
<1>2. ASSUME NEW c \in Ckpts, AbortCreation(c)
      PROVE  Durably' /\ Phase' /\ CreateStep' /\ DeleteStep'
  <2>1. /\ pc = "recoverCreations" /\ c \in todo /\ todo' = todo \ {c}
        /\ c \notin roots /\ cj[c].state = "Prepared"
        /\ cj' = [cj EXCEPT ![c] = None]
        /\ UNCHANGED <<roots, head, latest, dj, pc, mode, cur>>
    BY <1>2 DEF AbortCreation, CreationAborts
  <2>2. c \in UnfinishedCreations
    BY <1>e, <2>1 DEF JournalDriven, UnfinishedCreations
  <2>3. UnfinishedCreations = {c} /\ UnfinishedDeletions = {} /\ CreationProgress(c)
    BY <1>a, <2>2 DEF Durably, OneUnfinished
  <2>4. UnfinishedCreations' = {} /\ UnfinishedDeletions' = {}
    <3>1. UnfinishedDeletions' = UnfinishedDeletions
      BY <2>1 DEF UnfinishedDeletions
    <3>2. cj'[c] = None /\ \A x \in Ckpts \ {c} : cj'[x] = cj[x]
      BY <1>e, <2>1
    <3>3. \A x \in Ckpts \ {c} : x \notin UnfinishedCreations'
      BY <3>2, <2>3 DEF UnfinishedCreations
    <3>4. QED
      BY <2>3, <3>1, <3>2, <3>3 DEF UnfinishedCreations
  <2>5. InventorySet(head) = roots /\ LatestFits(latest, roots)
    <3>1. roots \ {c} = roots
      BY <2>1
    <3>2. QED
      BY <2>1, <2>3, <3>1 DEF CreationProgress
  <2>6. Durably'
    BY <2>1, <2>4, <2>5 DEF Durably, OneUnfinished, Agreement, LatestFits, InventorySet
  <2>7. Phase' /\ CreateStep' /\ DeleteStep'
    BY <2>1, <2>4 DEF Phase, CreateStep, DeleteStep
  <2>8. QED
    BY <2>6, <2>7
<1>3. ASSUME NEW c \in Ckpts, ResumeCreation(c)
      PROVE  Durably' /\ Phase' /\ CreateStep' /\ DeleteStep'
  <2>1. Durably' /\ UnfinishedCreations' = UnfinishedCreations
                  /\ UnfinishedDeletions' = UnfinishedDeletions
    BY <1>3, <1>a, NothingWritten DEF ResumeCreation, Written
  <2>2. /\ pc = "recoverCreations" /\ c \in todo /\ cur' = c /\ c \in roots
        /\ UNCHANGED <<disk, mode, todo, scan, gcPlan>>
    BY <1>3 DEF ResumeCreation, CreationRejected, Loadable
  <2>3. cj[c] # None /\ cj[c].state \in CreateJournalState
    BY <1>c, <1>e, <2>2 DEF JournalDriven
  <2>4. /\ pc' \in {"addInventory", "writeLatest", "commitCreate", "cleanupCreate"}
        /\ pc' = "addInventory" => cj[c].state \in {"Prepared", "RootPublished"}
        /\ pc' = "writeLatest" => cj[c].state = "InventoryUpdated"
        /\ pc' = "commitCreate" => cj[c].state = "LatestUpdated"
        /\ pc' = "cleanupCreate" => cj[c].state = "Committed"
    BY <1>3, <2>3 DEF ResumeCreation, CreateJournalState
  <2>5. mode = "recover"
    BY <1>e, <2>2 DEF JournalDriven
  <2>6. QED
    BY <1>a, <2>1, <2>2, <2>4, <2>5 DEF Phase, CreateStep, DeleteStep
<1>4. CASE CreationsRecovered
  <2>1. Durably' /\ UnfinishedCreations' = UnfinishedCreations
                  /\ UnfinishedDeletions' = UnfinishedDeletions
    BY <1>4, <1>a, NothingWritten DEF CreationsRecovered, Written
  <2>2. UnfinishedCreations = {} /\ UnfinishedDeletions \subseteq todo'
    BY <1>4, <1>a DEF CreationsRecovered, Phase, UnfinishedDeletions
  <2>3. QED
    BY <1>4, <2>1, <2>2 DEF CreationsRecovered, Phase, CreateStep, DeleteStep
<1>5. ASSUME NEW c \in Ckpts, AbortDeletion(c)
      PROVE  Durably' /\ Phase' /\ CreateStep' /\ DeleteStep'
  <2>1. /\ pc = "recoverDeletions" /\ c \in todo /\ todo' = todo \ {c}
        /\ c \in roots /\ dj[c].state = "Prepared"
        /\ dj' = [dj EXCEPT ![c] = None]
        /\ UNCHANGED <<roots, head, latest, cj, pc, mode, cur>>
    BY <1>5 DEF AbortDeletion, DeletionAborts
  <2>2. c \in UnfinishedDeletions
    BY <1>e, <2>1 DEF JournalDriven, UnfinishedDeletions
  <2>3. UnfinishedDeletions = {c} /\ UnfinishedCreations = {} /\ DeletionProgress(c)
    BY <1>a, <2>2 DEF Durably, OneUnfinished
  <2>4. UnfinishedCreations' = {} /\ UnfinishedDeletions' = {}
    <3>1. UnfinishedCreations' = UnfinishedCreations
      BY <2>1 DEF UnfinishedCreations
    <3>2. dj'[c] = None /\ \A x \in Ckpts \ {c} : dj'[x] = dj[x]
      BY <1>e, <2>1
    <3>3. \A x \in Ckpts \ {c} : x \notin UnfinishedDeletions'
      BY <3>2, <2>3 DEF UnfinishedDeletions
    <3>4. QED
      BY <2>3, <3>1, <3>2, <3>3 DEF UnfinishedDeletions
  <2>5. InventorySet(head) = roots /\ LatestFits(latest, roots)
    <3>1. roots \cup {c} = roots
      BY <2>1
    <3>2. QED
      BY <2>1, <2>3, <3>1 DEF DeletionProgress
  <2>6. Durably'
    BY <2>1, <2>4, <2>5 DEF Durably, OneUnfinished, Agreement, LatestFits, InventorySet
  <2>7. Phase' /\ CreateStep' /\ DeleteStep'
    BY <2>1, <2>4 DEF Phase, CreateStep, DeleteStep
  <2>8. QED
    BY <2>6, <2>7
<1>6. ASSUME NEW c \in Ckpts, ResumeDeletion(c)
      PROVE  Durably' /\ Phase' /\ CreateStep' /\ DeleteStep'
  <2>1. Durably' /\ UnfinishedCreations' = UnfinishedCreations
                  /\ UnfinishedDeletions' = UnfinishedDeletions
    BY <1>6, <1>a, NothingWritten DEF ResumeDeletion, Written
  <2>2. /\ pc = "recoverDeletions" /\ c \in todo /\ cur' = c
        /\ UNCHANGED <<disk, mode, todo, scan, gcPlan>>
    BY <1>6 DEF ResumeDeletion
  <2>3. dj[c] # None /\ dj[c].state \in CheckpointDeletionState
    BY <1>c, <1>e, <2>2 DEF JournalDriven
  <2>4. dj[c].state # "Prepared"
    <3> SUFFICES ASSUME dj[c].state = "Prepared" PROVE FALSE
      OBVIOUS
    <3>1. c \in UnfinishedDeletions
      BY <2>3 DEF UnfinishedDeletions
    <3>2. c \in roots
      BY <1>a, <3>1 DEF Durably, DeletionProgress
    <3>3. QED
      BY <1>6, <3>2 DEF ResumeDeletion, DeletionAborts
  <2>5. /\ pc' \in {"unlinkRoot", "removeInventory", "moveLatest", "cleanupDelete"}
        /\ pc' \in {"unlinkRoot", "removeInventory"} => dj[c].state = "Staged"
        /\ pc' = "removeInventory" => c \notin roots
        /\ pc' = "moveLatest" => dj[c].state = "InventoryUpdated"
        /\ pc' = "cleanupDelete" => dj[c].state = "Committed"
    BY <1>6, <2>3, <2>4 DEF ResumeDeletion, CheckpointDeletionState
  <2>6. mode = "recover"
    BY <1>e, <2>2 DEF JournalDriven
  <2>7. QED
    BY <1>a, <2>1, <2>2, <2>5, <2>6 DEF Phase, CreateStep, DeleteStep
<1>7. CASE DeletionsRecovered
  <2>1. Durably' /\ UnfinishedCreations' = UnfinishedCreations
                  /\ UnfinishedDeletions' = UnfinishedDeletions
    BY <1>7, <1>a, NothingWritten DEF DeletionsRecovered, Written
  <2>2. QED
    BY <1>7, <1>a, <2>1 DEF DeletionsRecovered, Phase, CreateStep, DeleteStep
<1>8. ASSUME NEW S \in Contents, BeginCreate(S)
      PROVE  Durably' /\ Phase' /\ CreateStep' /\ DeleteStep'
  <2>1. Durably' /\ UnfinishedCreations' = UnfinishedCreations
                  /\ UnfinishedDeletions' = UnfinishedDeletions
    BY <1>8, <1>a, NothingWritten DEF BeginCreate, Written
  <2>2. QED
    BY <1>8, <1>a, <2>1 DEF BeginCreate, Phase, CreateStep, DeleteStep
<1>9. CASE PreloadObjects
  <2>1. Durably' /\ UnfinishedCreations' = UnfinishedCreations
                  /\ UnfinishedDeletions' = UnfinishedDeletions
    BY <1>9, <1>a, NothingWritten DEF PreloadObjects, Written
  <2>2. QED
    BY <1>9, <1>a, <2>1 DEF PreloadObjects, Phase, CreateStep, DeleteStep
<1>10. ASSUME NEW o \in Objects, StoreObject(o)
       PROVE  Durably' /\ Phase' /\ CreateStep' /\ DeleteStep'
  <2>1. Durably' /\ UnfinishedCreations' = UnfinishedCreations
                  /\ UnfinishedDeletions' = UnfinishedDeletions
    BY <1>10, <1>a, NothingWritten DEF StoreObject, Written
  <2>2. QED
    BY <1>10, <1>a, <2>1 DEF StoreObject, Phase, CreateStep, DeleteStep
<1>11. CASE StoreManifest
  <2>1. Durably' /\ UnfinishedCreations' = UnfinishedCreations
                  /\ UnfinishedDeletions' = UnfinishedDeletions
    BY <1>11, <1>a, NothingWritten DEF StoreManifest, Written
  <2>2. QED
    BY <1>11, <1>a, <2>1 DEF StoreManifest, Phase, CreateStep, DeleteStep
<1>12. CASE FlushObjects
  <2>1. Durably' /\ UnfinishedCreations' = UnfinishedCreations
                  /\ UnfinishedDeletions' = UnfinishedDeletions
    BY <1>12, <1>a, NothingWritten DEF FlushObjects, Written
  <2>2. QED
    BY <1>12, <1>a, <2>1 DEF FlushObjects, Phase, CreateStep, DeleteStep
<1>13. CASE FlushManifest
  <2>1. Durably' /\ UnfinishedCreations' = UnfinishedCreations
                  /\ UnfinishedDeletions' = UnfinishedDeletions
    BY <1>13, <1>a, NothingWritten DEF FlushManifest, Written
  <2>2. QED
    BY <1>13, <1>a, <2>1 DEF FlushManifest, Phase, CreateStep, DeleteStep
<1>14. ASSUME NEW c \in Ckpts, PrepareCreate(c)
       PROVE  Durably' /\ Phase' /\ CreateStep' /\ DeleteStep'
  <2> DEFINE j == [state |-> "Prepared", oldLatest |-> base, headBefore |-> head]
  <2>1. /\ pc = "prepare" /\ pc' = "publish" /\ cur' = c /\ snap[c] = None
        /\ cj' = [cj EXCEPT ![c] = j]
        /\ UNCHANGED <<roots, head, latest, dj, mode, todo>>
    BY <1>14 DEF PrepareCreate
  <2>2. /\ j.state = "Prepared" /\ j.oldLatest = base /\ j.headBefore = head
        /\ j # None
    <3>1. j \in CreateJournal
      BY DEF TypeInv, TypeOK, CreateJournal, CreateJournalState
    <3>2. QED
      BY <3>1, NoneAssumption
  <2> HIDE DEF j
  <2>3. cj'[c] = j /\ \A x \in Ckpts \ {c} : cj'[x] = cj[x]
    BY <1>e, <2>1
  <2>4. UnfinishedCreations = {} /\ UnfinishedDeletions = {} /\ c \notin roots
    BY <1>a, <1>e, <2>1 DEF Phase, BytesKnown
  <2>5. UnfinishedCreations' = {c} /\ UnfinishedDeletions' = {}
    <3>1. UnfinishedDeletions' = UnfinishedDeletions
      BY <2>1 DEF UnfinishedDeletions
    <3>2. \A x \in Ckpts \ {c} : x \notin UnfinishedCreations'
      BY <2>3, <2>4 DEF UnfinishedCreations
    <3>3. QED
      BY <2>2, <2>3, <2>4, <3>1, <3>2 DEF UnfinishedCreations
  <2>6. InventorySet(head) = roots /\ LatestFits(latest, roots) /\ latest = base
    BY <1>a, <2>1, <2>4 DEF Durably, Agreement, Phase
  <2>7. \A x \in {c} : CreationProgress(x)'
    <3>1. roots \ {c} = roots
      BY <2>4
    <3>2. QED
      BY <2>1, <2>2, <2>3, <2>4, <2>6, <3>1 DEF CreationProgress, LatestFits, InventorySet
  <2>8. Durably'
    BY <2>5, <2>7 DEF Durably, OneUnfinished, Agreement
  <2>9. mode = "run"
    BY <1>e, <2>1 DEF JournalDriven
  <2>10. Phase' /\ CreateStep' /\ DeleteStep'
    BY <2>1, <2>2, <2>3, <2>5, <2>9 DEF Phase, CreateStep, DeleteStep
  <2>11. QED
    BY <2>8, <2>10
<1>15. CASE PublishRoot
  <2>1. cur \in Ckpts /\ cj[cur] # None /\ UNCHANGED <<cj, dj>>
    BY <1>15, <1>e DEF PublishRoot, JournalDriven
  <2>2. cur \in UnfinishedCreations
    BY <1>15, <1>a, <2>1 DEF PublishRoot, CreateStep, UnfinishedCreations
  <2>3. UnfinishedCreations = {cur} /\ UnfinishedDeletions = {} /\ CreationProgress(cur)
    BY <1>a, <2>2 DEF Durably, OneUnfinished
  <2>4. UnfinishedCreations' = {cur} /\ UnfinishedDeletions' = {}
    BY <2>1, <2>3 DEF UnfinishedCreations, UnfinishedDeletions
  <2>5. \A c \in {cur} : CreationProgress(c)'
    BY <1>15, <1>a, <1>c, <1>e, <2>1, <2>3, ExtendedSet
       DEF PublishRoot, CreationProgress, CreateStep, LatestFits
  <2>6. Durably'
    BY <2>4, <2>5 DEF Durably, OneUnfinished, Agreement
  <2>7. Phase' /\ CreateStep' /\ DeleteStep'
    BY <1>15, <1>a, <2>1, <2>3, <2>4, <2>5
       DEF PublishRoot, Phase, CreateStep, DeleteStep, CreationProgress
  <2>8. QED
    BY <2>6, <2>7
<1>16. CASE MarkRootPublished
  <2>1. cur \in Ckpts /\ cj[cur] # None
    BY <1>16, <1>e DEF MarkRootPublished, MarkCreate, JournalDriven
  <2>2. cj' = [cj EXCEPT ![cur].state = "RootPublished"] /\ UNCHANGED <<roots, head, latest, dj>>
    BY <1>16 DEF MarkRootPublished, MarkCreate
  <2>3. /\ cj'[cur] # None /\ cj'[cur].state = "RootPublished"
        /\ cj'[cur].oldLatest = cj[cur].oldLatest
        /\ cj'[cur].headBefore = cj[cur].headBefore
        /\ \A c \in Ckpts \ {cur} : cj'[c] = cj[c]
    BY <2>1, <2>2, <1>e, CreationMarked DEF CreateJournalState
  <2>4. cur \in UnfinishedCreations
    BY <1>16, <1>a, <2>1 DEF MarkRootPublished, MarkCreate, CreateStep, UnfinishedCreations
  <2>5. UnfinishedCreations = {cur} /\ UnfinishedDeletions = {} /\ CreationProgress(cur)
    BY <1>a, <2>4 DEF Durably, OneUnfinished
  <2>6. UnfinishedCreations' = {cur} /\ UnfinishedDeletions' = {}
    <3>1. UnfinishedDeletions' = UnfinishedDeletions
      BY <2>2 DEF UnfinishedDeletions
    <3>2. \A c \in Ckpts \ {cur} : c \notin UnfinishedCreations'
      BY <2>3, <2>5 DEF UnfinishedCreations
    <3>3. QED
      BY <2>1, <2>3, <2>5, <3>1, <3>2 DEF UnfinishedCreations
  <2>7. \A c \in {cur} : CreationProgress(c)'
    BY <1>16, <1>a, <1>c, <2>1, <2>2, <2>3, <2>5, ExtendedSet
       DEF MarkRootPublished, MarkCreate, CreationProgress, CreateStep, LatestFits
  <2>8. Durably'
    BY <2>1, <2>6, <2>7 DEF Durably, OneUnfinished, Agreement
  <2>9. Phase' /\ CreateStep' /\ DeleteStep'
    BY <1>16, <1>a, <2>1, <2>2, <2>3, <2>5, <2>6, <2>7
       DEF MarkRootPublished, MarkCreate, Phase, CreateStep, DeleteStep, CreationProgress
  <2>10. QED
    BY <2>8, <2>9
<1>17. CASE AddToInventory
  <2>1. cur \in Ckpts /\ cj[cur] # None /\ UNCHANGED <<cj, dj>>
    BY <1>17, <1>e DEF AddToInventory, JournalDriven
  <2>2. cur \in UnfinishedCreations
    BY <1>17, <1>a, <2>1 DEF AddToInventory, CreateStep, UnfinishedCreations
  <2>3. UnfinishedCreations = {cur} /\ UnfinishedDeletions = {} /\ CreationProgress(cur)
    BY <1>a, <2>2 DEF Durably, OneUnfinished
  <2>4. UnfinishedCreations' = {cur} /\ UnfinishedDeletions' = {}
    BY <2>1, <2>3 DEF UnfinishedCreations, UnfinishedDeletions
  <2>5. \A c \in {cur} : CreationProgress(c)'
    BY <1>17, <1>a, <1>c, <1>e, <2>1, <2>3, ExtendedSet
       DEF AddToInventory, CreationProgress, CreateStep, LatestFits
  <2>6. Durably'
    BY <2>4, <2>5 DEF Durably, OneUnfinished, Agreement
  <2>7. Phase' /\ CreateStep' /\ DeleteStep'
    BY <1>17, <1>a, <2>1, <2>3, <2>4, <2>5
       DEF AddToInventory, Phase, CreateStep, DeleteStep, CreationProgress
  <2>8. QED
    BY <2>6, <2>7
<1>18. CASE MarkAdded
  <2>1. cur \in Ckpts /\ cj[cur] # None
    BY <1>18, <1>e DEF MarkAdded, MarkCreate, JournalDriven
  <2>2. cj' = [cj EXCEPT ![cur].state = "InventoryUpdated"] /\ UNCHANGED <<roots, head, latest, dj>>
    BY <1>18 DEF MarkAdded, MarkCreate
  <2>3. /\ cj'[cur] # None /\ cj'[cur].state = "InventoryUpdated"
        /\ cj'[cur].oldLatest = cj[cur].oldLatest
        /\ cj'[cur].headBefore = cj[cur].headBefore
        /\ \A c \in Ckpts \ {cur} : cj'[c] = cj[c]
    BY <2>1, <2>2, <1>e, CreationMarked DEF CreateJournalState
  <2>4. cur \in UnfinishedCreations
    BY <1>18, <1>a, <2>1 DEF MarkAdded, MarkCreate, CreateStep, UnfinishedCreations
  <2>5. UnfinishedCreations = {cur} /\ UnfinishedDeletions = {} /\ CreationProgress(cur)
    BY <1>a, <2>4 DEF Durably, OneUnfinished
  <2>6. UnfinishedCreations' = {cur} /\ UnfinishedDeletions' = {}
    <3>1. UnfinishedDeletions' = UnfinishedDeletions
      BY <2>2 DEF UnfinishedDeletions
    <3>2. \A c \in Ckpts \ {cur} : c \notin UnfinishedCreations'
      BY <2>3, <2>5 DEF UnfinishedCreations
    <3>3. QED
      BY <2>1, <2>3, <2>5, <3>1, <3>2 DEF UnfinishedCreations
  <2>7. \A c \in {cur} : CreationProgress(c)'
    BY <1>18, <1>a, <1>c, <2>1, <2>2, <2>3, <2>5, ExtendedSet
       DEF MarkAdded, MarkCreate, CreationProgress, CreateStep, LatestFits
  <2>8. Durably'
    BY <2>1, <2>6, <2>7 DEF Durably, OneUnfinished, Agreement
  <2>9. Phase' /\ CreateStep' /\ DeleteStep'
    BY <1>18, <1>a, <2>1, <2>2, <2>3, <2>5, <2>6, <2>7
       DEF MarkAdded, MarkCreate, Phase, CreateStep, DeleteStep, CreationProgress
  <2>10. QED
    BY <2>8, <2>9
<1>19. CASE WriteLatest
  <2>1. cur \in Ckpts /\ cj[cur] # None /\ UNCHANGED <<cj, dj>>
    BY <1>19, <1>e DEF WriteLatest, JournalDriven
  <2>2. cur \in UnfinishedCreations
    BY <1>19, <1>a, <2>1 DEF WriteLatest, CreateStep, UnfinishedCreations
  <2>3. UnfinishedCreations = {cur} /\ UnfinishedDeletions = {} /\ CreationProgress(cur)
    BY <1>a, <2>2 DEF Durably, OneUnfinished
  <2>4. UnfinishedCreations' = {cur} /\ UnfinishedDeletions' = {}
    BY <2>1, <2>3 DEF UnfinishedCreations, UnfinishedDeletions
  <2>5. \A c \in {cur} : CreationProgress(c)'
    BY <1>19, <1>a, <1>c, <1>e, <2>1, <2>3, ExtendedSet
       DEF WriteLatest, CreationProgress, CreateStep, LatestFits
  <2>6. Durably'
    BY <2>4, <2>5 DEF Durably, OneUnfinished, Agreement
  <2>7. Phase' /\ CreateStep' /\ DeleteStep'
    BY <1>19, <1>a, <2>1, <2>3, <2>4, <2>5
       DEF WriteLatest, Phase, CreateStep, DeleteStep, CreationProgress
  <2>8. QED
    BY <2>6, <2>7
<1>20. CASE MarkLatestUpdated
  <2>1. cur \in Ckpts /\ cj[cur] # None
    BY <1>20, <1>e DEF MarkLatestUpdated, MarkCreate, JournalDriven
  <2>2. cj' = [cj EXCEPT ![cur].state = "LatestUpdated"] /\ UNCHANGED <<roots, head, latest, dj>>
    BY <1>20 DEF MarkLatestUpdated, MarkCreate
  <2>3. /\ cj'[cur] # None /\ cj'[cur].state = "LatestUpdated"
        /\ cj'[cur].oldLatest = cj[cur].oldLatest
        /\ cj'[cur].headBefore = cj[cur].headBefore
        /\ \A c \in Ckpts \ {cur} : cj'[c] = cj[c]
    BY <2>1, <2>2, <1>e, CreationMarked DEF CreateJournalState
  <2>4. cur \in UnfinishedCreations
    BY <1>20, <1>a, <2>1 DEF MarkLatestUpdated, MarkCreate, CreateStep, UnfinishedCreations
  <2>5. UnfinishedCreations = {cur} /\ UnfinishedDeletions = {} /\ CreationProgress(cur)
    BY <1>a, <2>4 DEF Durably, OneUnfinished
  <2>6. UnfinishedCreations' = {cur} /\ UnfinishedDeletions' = {}
    <3>1. UnfinishedDeletions' = UnfinishedDeletions
      BY <2>2 DEF UnfinishedDeletions
    <3>2. \A c \in Ckpts \ {cur} : c \notin UnfinishedCreations'
      BY <2>3, <2>5 DEF UnfinishedCreations
    <3>3. QED
      BY <2>1, <2>3, <2>5, <3>1, <3>2 DEF UnfinishedCreations
  <2>7. \A c \in {cur} : CreationProgress(c)'
    <3>1. cj[cur].state = "InventoryUpdated" /\ latest = cur
      BY <1>20, <1>a DEF MarkLatestUpdated, MarkCreate, CreateStep
    <3>2. /\ head = Extended(cj[cur].headBefore, "Add", cur) /\ cur \in roots
          /\ InventorySet(cj[cur].headBefore) = roots \ {cur}
      BY <2>5, <3>1 DEF CreationProgress
    <3>3. InventorySet(head) = roots
      <4>1. cj[cur].headBefore \in Lineage
        BY <1>c, <2>1
      <4>2. InventorySet(Extended(cj[cur].headBefore, "Add", cur))
              = InventorySet(cj[cur].headBefore) \cup {cur}
        BY <2>1, <4>1, ExtendedSet
      <4>3. QED
        BY <3>2, <4>2
    <3>4. QED
      BY <2>1, <2>2, <2>3, <3>1, <3>2, <3>3 DEF CreationProgress, InventorySet
  <2>8. Durably'
    BY <2>1, <2>6, <2>7 DEF Durably, OneUnfinished, Agreement
  <2>9. Phase' /\ CreateStep' /\ DeleteStep'
    BY <1>20, <1>a, <2>1, <2>2, <2>3, <2>5, <2>6, <2>7
       DEF MarkLatestUpdated, MarkCreate, Phase, CreateStep, DeleteStep, CreationProgress
  <2>10. QED
    BY <2>8, <2>9
<1>21. CASE CommitCreate
  <2>1. cur \in Ckpts /\ cj[cur] # None
    BY <1>21, <1>e DEF CommitCreate, MarkCreate, JournalDriven
  <2>2. cj' = [cj EXCEPT ![cur].state = "Committed"] /\ UNCHANGED <<roots, head, latest, dj>>
    BY <1>21 DEF CommitCreate, MarkCreate
  <2>3. /\ cj'[cur] # None /\ cj'[cur].state = "Committed"
        /\ cj'[cur].oldLatest = cj[cur].oldLatest
        /\ cj'[cur].headBefore = cj[cur].headBefore
        /\ \A c \in Ckpts \ {cur} : cj'[c] = cj[c]
    BY <2>1, <2>2, <1>e, CreationMarked DEF CreateJournalState
  <2>4. cur \in UnfinishedCreations
    BY <1>21, <1>a, <2>1 DEF CommitCreate, MarkCreate, CreateStep, UnfinishedCreations
  <2>5. UnfinishedCreations = {cur} /\ UnfinishedDeletions = {} /\ CreationProgress(cur)
    BY <1>a, <2>4 DEF Durably, OneUnfinished
  <2>6. UnfinishedCreations' = {} /\ UnfinishedDeletions' = {}
    <3>1. UnfinishedDeletions' = UnfinishedDeletions
      BY <2>2 DEF UnfinishedDeletions
    <3>2. \A c \in Ckpts \ {cur} : c \notin UnfinishedCreations'
      BY <2>3, <2>5 DEF UnfinishedCreations
    <3>3. QED
      BY <2>1, <2>3, <2>5, <3>1, <3>2 DEF UnfinishedCreations
  <2>7. InventorySet(head) = roots /\ latest = cur /\ cur \in roots
    BY <1>21, <1>a, <2>5 DEF CommitCreate, MarkCreate, CreationProgress, CreateStep
  <2>8. Durably'
    BY <2>2, <2>6, <2>7 DEF Durably, OneUnfinished, Agreement, LatestFits, InventorySet
  <2>9. Phase' /\ CreateStep' /\ DeleteStep'
    BY <1>21, <1>a, <2>3, <2>6 DEF CommitCreate, MarkCreate, Phase, CreateStep, DeleteStep
  <2>10. QED
    BY <2>8, <2>9
<1>22. CASE CleanupCreate
  <2>1. /\ pc = "cleanupCreate" /\ NextJournal("recoverCreations")
        /\ cur \in Ckpts /\ cj[cur] # None /\ cj[cur].state = "Committed"
        /\ UNCHANGED <<roots, head, latest, dj>>
    BY <1>22, <1>a, <1>e DEF CleanupCreate, JournalDriven, CreateStep
  <2>2. cj' = [cj EXCEPT ![cur] = None] \/ cj' = cj
    BY <1>22 DEF CleanupCreate
  <2>3. UnfinishedCreations' = UnfinishedCreations /\ UnfinishedDeletions' = UnfinishedDeletions /\ cur \notin UnfinishedCreations
    <3>1. \A x \in Ckpts : x # cur => cj'[x] = cj[x]
      BY <1>e, <2>1, <2>2
    <3>2. cj'[cur] \in {None, cj[cur]}
      BY <1>e, <2>1, <2>2
    <3>3. QED
      BY <2>1, <3>1, <3>2 DEF UnfinishedCreations, UnfinishedDeletions
  <2>4. /\ \A x \in UnfinishedCreations : cj'[x] = cj[x]
    BY <1>d, <1>e, <2>1, <2>2, <2>3
  <2>5. /\ \A x \in UnfinishedCreations' : CreationProgress(x)'
        /\ \A x \in UnfinishedDeletions' : DeletionProgress(x)'
    BY <1>a, <2>1, <2>3, <2>4
       DEF Durably, CreationProgress, DeletionProgress, LatestFits, InventorySet, Extended
  <2>6. Durably'
    BY <1>a, <2>1, <2>3, <2>5
       DEF Durably, OneUnfinished, Agreement, LatestFits, InventorySet
  <2>7. Phase' /\ CreateStep' /\ DeleteStep'
    BY <1>a, <1>e, <2>1, <2>3 DEF NextJournal, Phase, CreateStep, DeleteStep, JournalDriven
  <2>8. QED
    BY <2>6, <2>7
<1>23. ASSUME NEW c \in Ckpts, BeginDelete(c)
       PROVE  Durably' /\ Phase' /\ CreateStep' /\ DeleteStep'
  <2>1. PICK d \in ProjectSnapshotRemoval(c) :
          dj' = [dj EXCEPT ![c] = [state |-> "Prepared", staged |-> FALSE,
                                   newLatest |-> d, headBefore |-> head]]
    BY <1>23 DEF BeginDelete
  <2> DEFINE j == [state |-> "Prepared", staged |-> FALSE,
                   newLatest |-> d, headBefore |-> head]
  <2>2. /\ pc = "locked" /\ pc' = "stageRoot" /\ cur' = c
        /\ c \in roots /\ c \in InventorySet(head)
        /\ dj' = [dj EXCEPT ![c] = j]
        /\ UNCHANGED <<roots, head, latest, cj, mode, todo>>
    BY <1>23, <2>1 DEF BeginDelete, Loadable
  <2>3. j.state = "Prepared" /\ j.newLatest = d /\ j.headBefore = head
    OBVIOUS
  <2> HIDE DEF j
  <2>4. dj'[c] = j /\ \A x \in Ckpts \ {c} : dj'[x] = dj[x]
    BY <1>e, <2>2
  <2>5. j # None
    BY <2>2, <2>4 DEF TypeInv, JournalDriven
  <2>6. UnfinishedCreations = {} /\ UnfinishedDeletions = {}
    BY <1>a, <2>2 DEF Phase
  <2>7. UnfinishedDeletions' = {c} /\ UnfinishedCreations' = {}
    <3>1. UnfinishedCreations' = UnfinishedCreations
      BY <2>2 DEF UnfinishedCreations
    <3>2. \A x \in Ckpts \ {c} : x \notin UnfinishedDeletions'
      BY <2>4, <2>6 DEF UnfinishedDeletions
    <3>3. QED
      BY <2>3, <2>4, <2>5, <2>6, <3>1, <3>2 DEF UnfinishedDeletions
  <2>8. InventorySet(head) = roots /\ LatestFits(latest, roots)
    BY <1>a, <2>6 DEF Durably, Agreement
  <2>9. LatestFits(d, roots \ {c})
    BY <2>1, <2>2, <2>8 DEF ProjectSnapshotRemoval, NewestSurvivor, LatestFits
  <2>10. \A x \in {c} : DeletionProgress(x)'
    <3>1. roots \cup {c} = roots
      BY <2>2
    <3>2. QED
      BY <2>2, <2>3, <2>4, <2>8, <2>9, <3>1
         DEF DeletionProgress, LatestFits, InventorySet
  <2>11. Durably'
    BY <2>7, <2>10 DEF Durably, OneUnfinished, Agreement
  <2>12. mode = "run"
    BY <1>e, <2>2 DEF JournalDriven
  <2>13. Phase' /\ CreateStep' /\ DeleteStep'
    BY <2>2, <2>3, <2>4, <2>7, <2>12 DEF Phase, CreateStep, DeleteStep
  <2>14. QED
    BY <2>11, <2>13
<1>24. CASE StageRoot
  <2>1. cur \in Ckpts /\ dj[cur] # None
    BY <1>24, <1>e DEF StageRoot, JournalDriven
  <2>2. dj' = [dj EXCEPT ![cur].staged = TRUE] /\ UNCHANGED <<roots, head, latest, cj>>
    BY <1>24 DEF StageRoot
  <2>3. /\ dj'[cur] # None /\ dj'[cur].state = dj[cur].state
        /\ dj'[cur].newLatest = dj[cur].newLatest
        /\ dj'[cur].headBefore = dj[cur].headBefore
        /\ \A c \in Ckpts \ {cur} : dj'[c] = dj[c]
    BY <2>1, <2>2, <1>e, DeletionStaged
  <2>4. cur \in UnfinishedDeletions
    BY <1>24, <1>a, <2>1 DEF StageRoot, DeleteStep, UnfinishedDeletions
  <2>5. UnfinishedDeletions = {cur} /\ UnfinishedCreations = {} /\ DeletionProgress(cur)
    BY <1>a, <2>4 DEF Durably, OneUnfinished
  <2>6. UnfinishedDeletions' = {cur} /\ UnfinishedCreations' = {}
    <3>1. UnfinishedCreations' = UnfinishedCreations
      BY <2>2 DEF UnfinishedCreations
    <3>2. \A c \in Ckpts \ {cur} : c \notin UnfinishedDeletions'
      BY <2>3, <2>5 DEF UnfinishedDeletions
    <3>3. QED
      BY <2>1, <2>3, <2>5, <3>1, <3>2 DEF UnfinishedDeletions
  <2>7. \A c \in {cur} : DeletionProgress(c)'
    BY <1>24, <1>a, <1>c, <2>1, <2>2, <2>3, <2>5, ExtendedSet
       DEF StageRoot, DeletionProgress, DeleteStep, LatestFits
  <2>8. Durably'
    BY <2>1, <2>6, <2>7 DEF Durably, OneUnfinished, Agreement
  <2>9. Phase' /\ CreateStep' /\ DeleteStep'
    BY <1>24, <1>a, <2>1, <2>2, <2>3, <2>5, <2>6, <2>7
       DEF StageRoot, Phase, CreateStep, DeleteStep, DeletionProgress
  <2>10. QED
    BY <2>8, <2>9
<1>25. CASE MarkStaged
  <2>1. cur \in Ckpts /\ dj[cur] # None
    BY <1>25, <1>e DEF MarkStaged, MarkDelete, JournalDriven
  <2>2. dj' = [dj EXCEPT ![cur].state = "Staged"] /\ UNCHANGED <<roots, head, latest, cj>>
    BY <1>25 DEF MarkStaged, MarkDelete
  <2>3. /\ dj'[cur] # None /\ dj'[cur].state = "Staged"
        /\ dj'[cur].newLatest = dj[cur].newLatest
        /\ dj'[cur].headBefore = dj[cur].headBefore
        /\ \A c \in Ckpts \ {cur} : dj'[c] = dj[c]
    BY <2>1, <2>2, <1>e, DeletionMarked DEF CheckpointDeletionState
  <2>4. cur \in UnfinishedDeletions
    BY <1>25, <1>a, <2>1 DEF MarkStaged, MarkDelete, DeleteStep, UnfinishedDeletions
  <2>5. UnfinishedDeletions = {cur} /\ UnfinishedCreations = {} /\ DeletionProgress(cur)
    BY <1>a, <2>4 DEF Durably, OneUnfinished
  <2>6. UnfinishedDeletions' = {cur} /\ UnfinishedCreations' = {}
    <3>1. UnfinishedCreations' = UnfinishedCreations
      BY <2>2 DEF UnfinishedCreations
    <3>2. \A c \in Ckpts \ {cur} : c \notin UnfinishedDeletions'
      BY <2>3, <2>5 DEF UnfinishedDeletions
    <3>3. QED
      BY <2>1, <2>3, <2>5, <3>1, <3>2 DEF UnfinishedDeletions
  <2>7. \A c \in {cur} : DeletionProgress(c)'
    BY <1>25, <1>a, <1>c, <2>1, <2>2, <2>3, <2>5, ExtendedSet
       DEF MarkStaged, MarkDelete, DeletionProgress, DeleteStep, LatestFits
  <2>8. Durably'
    BY <2>1, <2>6, <2>7 DEF Durably, OneUnfinished, Agreement
  <2>9. Phase' /\ CreateStep' /\ DeleteStep'
    BY <1>25, <1>a, <2>1, <2>2, <2>3, <2>5, <2>6, <2>7
       DEF MarkStaged, MarkDelete, Phase, CreateStep, DeleteStep, DeletionProgress
  <2>10. QED
    BY <2>8, <2>9
<1>26. CASE UnlinkRoot
  <2>1. cur \in Ckpts /\ dj[cur] # None /\ UNCHANGED <<cj, dj>>
    BY <1>26, <1>e DEF UnlinkRoot, JournalDriven
  <2>2. cur \in UnfinishedDeletions
    BY <1>26, <1>a, <2>1 DEF UnlinkRoot, DeleteStep, UnfinishedDeletions
  <2>3. UnfinishedDeletions = {cur} /\ UnfinishedCreations = {} /\ DeletionProgress(cur)
    BY <1>a, <2>2 DEF Durably, OneUnfinished
  <2>4. UnfinishedDeletions' = {cur} /\ UnfinishedCreations' = {}
    BY <2>1, <2>3 DEF UnfinishedCreations, UnfinishedDeletions
  <2>5. \A c \in {cur} : DeletionProgress(c)'
    BY <1>26, <1>a, <1>c, <1>e, <2>1, <2>3, ExtendedSet
       DEF UnlinkRoot, DeletionProgress, DeleteStep, LatestFits
  <2>6. Durably'
    BY <2>4, <2>5 DEF Durably, OneUnfinished, Agreement
  <2>7. Phase' /\ CreateStep' /\ DeleteStep'
    BY <1>26, <1>a, <2>1, <2>3, <2>4, <2>5
       DEF UnlinkRoot, Phase, CreateStep, DeleteStep, DeletionProgress
  <2>8. QED
    BY <2>6, <2>7
<1>27. CASE RemoveFromInventory
  <2>1. cur \in Ckpts /\ dj[cur] # None /\ UNCHANGED <<cj, dj>>
    BY <1>27, <1>e DEF RemoveFromInventory, JournalDriven
  <2>2. cur \in UnfinishedDeletions
    BY <1>27, <1>a, <2>1 DEF RemoveFromInventory, DeleteStep, UnfinishedDeletions
  <2>3. UnfinishedDeletions = {cur} /\ UnfinishedCreations = {} /\ DeletionProgress(cur)
    BY <1>a, <2>2 DEF Durably, OneUnfinished
  <2>4. UnfinishedDeletions' = {cur} /\ UnfinishedCreations' = {}
    BY <2>1, <2>3 DEF UnfinishedCreations, UnfinishedDeletions
  <2>5. \A c \in {cur} : DeletionProgress(c)'
    BY <1>27, <1>a, <1>c, <1>e, <2>1, <2>3, ExtendedSet
       DEF RemoveFromInventory, DeletionProgress, DeleteStep, LatestFits
  <2>6. Durably'
    BY <2>4, <2>5 DEF Durably, OneUnfinished, Agreement
  <2>7. Phase' /\ CreateStep' /\ DeleteStep'
    BY <1>27, <1>a, <2>1, <2>3, <2>4, <2>5
       DEF RemoveFromInventory, Phase, CreateStep, DeleteStep, DeletionProgress
  <2>8. QED
    BY <2>6, <2>7
<1>28. CASE MarkRemoved
  <2>1. cur \in Ckpts /\ dj[cur] # None
    BY <1>28, <1>e DEF MarkRemoved, MarkDelete, JournalDriven
  <2>2. dj' = [dj EXCEPT ![cur].state = "InventoryUpdated"] /\ UNCHANGED <<roots, head, latest, cj>>
    BY <1>28 DEF MarkRemoved, MarkDelete
  <2>3. /\ dj'[cur] # None /\ dj'[cur].state = "InventoryUpdated"
        /\ dj'[cur].newLatest = dj[cur].newLatest
        /\ dj'[cur].headBefore = dj[cur].headBefore
        /\ \A c \in Ckpts \ {cur} : dj'[c] = dj[c]
    BY <2>1, <2>2, <1>e, DeletionMarked DEF CheckpointDeletionState
  <2>4. cur \in UnfinishedDeletions
    BY <1>28, <1>a, <2>1 DEF MarkRemoved, MarkDelete, DeleteStep, UnfinishedDeletions
  <2>5. UnfinishedDeletions = {cur} /\ UnfinishedCreations = {} /\ DeletionProgress(cur)
    BY <1>a, <2>4 DEF Durably, OneUnfinished
  <2>6. UnfinishedDeletions' = {cur} /\ UnfinishedCreations' = {}
    <3>1. UnfinishedCreations' = UnfinishedCreations
      BY <2>2 DEF UnfinishedCreations
    <3>2. \A c \in Ckpts \ {cur} : c \notin UnfinishedDeletions'
      BY <2>3, <2>5 DEF UnfinishedDeletions
    <3>3. QED
      BY <2>1, <2>3, <2>5, <3>1, <3>2 DEF UnfinishedDeletions
  <2>7. \A c \in {cur} : DeletionProgress(c)'
    <3>1. /\ dj[cur].state = "Staged" /\ cur \notin roots
          /\ head = Extended(dj[cur].headBefore, "Remove", cur)
      BY <1>28, <1>a DEF MarkRemoved, MarkDelete, DeleteStep
    <3>2. /\ InventorySet(dj[cur].headBefore) = roots \cup {cur}
          /\ LatestFits(dj[cur].newLatest, roots \ {cur})
      BY <2>5, <3>1 DEF DeletionProgress
    <3>3. InventorySet(head) = roots
      <4>1. dj[cur].headBefore \in Lineage
        BY <1>c, <2>1
      <4>2. InventorySet(Extended(dj[cur].headBefore, "Remove", cur))
              = InventorySet(dj[cur].headBefore) \ {cur}
        BY <2>1, <4>1, ExtendedSet
      <4>3. QED
        BY <3>1, <3>2, <4>2
    <3>4. QED
      BY <2>1, <2>2, <2>3, <3>1, <3>2, <3>3 DEF DeletionProgress, InventorySet, LatestFits
  <2>8. Durably'
    BY <2>1, <2>6, <2>7 DEF Durably, OneUnfinished, Agreement
  <2>9. Phase' /\ CreateStep' /\ DeleteStep'
    BY <1>28, <1>a, <2>1, <2>2, <2>3, <2>5, <2>6, <2>7
       DEF MarkRemoved, MarkDelete, Phase, CreateStep, DeleteStep, DeletionProgress
  <2>10. QED
    BY <2>8, <2>9
<1>29. CASE MoveLatest
  <2>1. cur \in Ckpts /\ dj[cur] # None /\ UNCHANGED <<cj, dj>>
    BY <1>29, <1>e DEF MoveLatest, JournalDriven
  <2>2. cur \in UnfinishedDeletions
    BY <1>29, <1>a, <2>1 DEF MoveLatest, DeleteStep, UnfinishedDeletions
  <2>3. UnfinishedDeletions = {cur} /\ UnfinishedCreations = {} /\ DeletionProgress(cur)
    BY <1>a, <2>2 DEF Durably, OneUnfinished
  <2>4. UnfinishedDeletions' = {cur} /\ UnfinishedCreations' = {}
    BY <2>1, <2>3 DEF UnfinishedCreations, UnfinishedDeletions
  <2>5. \A c \in {cur} : DeletionProgress(c)'
    BY <1>29, <1>a, <1>c, <1>e, <2>1, <2>3, ExtendedSet
       DEF MoveLatest, DeletionProgress, DeleteStep, LatestFits
  <2>6. Durably'
    BY <2>4, <2>5 DEF Durably, OneUnfinished, Agreement
  <2>7. Phase' /\ CreateStep' /\ DeleteStep'
    BY <1>29, <1>a, <2>1, <2>3, <2>4, <2>5
       DEF MoveLatest, Phase, CreateStep, DeleteStep, DeletionProgress
  <2>8. QED
    BY <2>6, <2>7
<1>30. CASE CommitDelete
  <2>1. cur \in Ckpts /\ dj[cur] # None
    BY <1>30, <1>e DEF CommitDelete, MarkDelete, JournalDriven
  <2>2. dj' = [dj EXCEPT ![cur].state = "Committed"] /\ UNCHANGED <<roots, head, latest, cj>>
    BY <1>30 DEF CommitDelete, MarkDelete
  <2>3. /\ dj'[cur] # None /\ dj'[cur].state = "Committed"
        /\ dj'[cur].newLatest = dj[cur].newLatest
        /\ dj'[cur].headBefore = dj[cur].headBefore
        /\ \A c \in Ckpts \ {cur} : dj'[c] = dj[c]
    BY <2>1, <2>2, <1>e, DeletionMarked DEF CheckpointDeletionState
  <2>4. cur \in UnfinishedDeletions
    BY <1>30, <1>a, <2>1 DEF CommitDelete, MarkDelete, DeleteStep, UnfinishedDeletions
  <2>5. UnfinishedDeletions = {cur} /\ UnfinishedCreations = {} /\ DeletionProgress(cur)
    BY <1>a, <2>4 DEF Durably, OneUnfinished
  <2>6. UnfinishedCreations' = {} /\ UnfinishedDeletions' = {}
    <3>1. UnfinishedCreations' = UnfinishedCreations
      BY <2>2 DEF UnfinishedCreations
    <3>2. \A c \in Ckpts \ {cur} : c \notin UnfinishedDeletions'
      BY <2>3, <2>5 DEF UnfinishedDeletions
    <3>3. QED
      BY <2>1, <2>3, <2>5, <3>1, <3>2 DEF UnfinishedDeletions
  <2>7. InventorySet(head) = roots /\ LatestFits(latest, roots)
    <3>1. cur \notin roots /\ roots \ {cur} = roots
      BY <1>30, <1>a, <2>5 DEF CommitDelete, MarkDelete, DeletionProgress, DeleteStep
    <3>2. QED
      BY <1>30, <1>a, <2>5, <3>1
         DEF CommitDelete, MarkDelete, DeletionProgress, DeleteStep, LatestFits
  <2>8. Durably'
    BY <2>2, <2>6, <2>7 DEF Durably, OneUnfinished, Agreement, LatestFits, InventorySet
  <2>9. Phase' /\ CreateStep' /\ DeleteStep'
    BY <1>30, <1>a, <2>3, <2>6 DEF CommitDelete, MarkDelete, Phase, CreateStep, DeleteStep
  <2>10. QED
    BY <2>8, <2>9
<1>31. CASE CleanupDelete
  <2>1. /\ pc = "cleanupDelete" /\ NextJournal("recoverDeletions")
        /\ cur \in Ckpts /\ dj[cur] # None /\ dj[cur].state = "Committed"
        /\ UNCHANGED <<roots, head, latest, cj>>
    BY <1>31, <1>a, <1>e DEF CleanupDelete, JournalDriven, DeleteStep
  <2>2. dj' = [dj EXCEPT ![cur] = None] \/ dj' = dj
    BY <1>31 DEF CleanupDelete
  <2>3. UnfinishedDeletions' = UnfinishedDeletions /\ UnfinishedCreations' = UnfinishedCreations /\ cur \notin UnfinishedDeletions
    <3>1. \A x \in Ckpts : x # cur => dj'[x] = dj[x]
      BY <1>e, <2>1, <2>2
    <3>2. dj'[cur] \in {None, dj[cur]}
      BY <1>e, <2>1, <2>2
    <3>3. QED
      BY <2>1, <3>1, <3>2 DEF UnfinishedCreations, UnfinishedDeletions
  <2>4. /\ \A x \in UnfinishedDeletions : dj'[x] = dj[x]
    BY <1>d, <1>e, <2>1, <2>2, <2>3
  <2>5. /\ \A x \in UnfinishedCreations' : CreationProgress(x)'
        /\ \A x \in UnfinishedDeletions' : DeletionProgress(x)'
    BY <1>a, <2>1, <2>3, <2>4
       DEF Durably, CreationProgress, DeletionProgress, LatestFits, InventorySet, Extended
  <2>6. Durably'
    BY <1>a, <2>1, <2>3, <2>5
       DEF Durably, OneUnfinished, Agreement, LatestFits, InventorySet
  <2>7. Phase' /\ CreateStep' /\ DeleteStep'
    BY <1>a, <1>e, <2>1, <2>3 DEF NextJournal, Phase, CreateStep, DeleteStep, JournalDriven
  <2>8. QED
    BY <2>6, <2>7
<1>32. CASE AnalyzeGc
  <2>1. Durably' /\ UnfinishedCreations' = UnfinishedCreations
                  /\ UnfinishedDeletions' = UnfinishedDeletions
    BY <1>32, <1>a, NothingWritten DEF AnalyzeGc, Written
  <2>2. QED
    BY <1>32, <1>a, <2>1 DEF AnalyzeGc, Phase, CreateStep, DeleteStep
<1>33. CASE BeginGc
  <2>1. Durably' /\ UnfinishedCreations' = UnfinishedCreations
                  /\ UnfinishedDeletions' = UnfinishedDeletions
    BY <1>33, <1>a, NothingWritten DEF BeginGc, Written
  <2>2. QED
    BY <1>33, <1>a, <2>1 DEF BeginGc, Phase, CreateStep, DeleteStep
<1>34. ASSUME NEW o \in Objects, GcDeleteObject(o)
       PROVE  Durably' /\ Phase' /\ CreateStep' /\ DeleteStep'
  <2>1. Durably' /\ UnfinishedCreations' = UnfinishedCreations
                  /\ UnfinishedDeletions' = UnfinishedDeletions
    BY <1>34, <1>a, NothingWritten DEF GcDeleteObject, Written
  <2>2. QED
    BY <1>34, <1>a, <2>1 DEF GcDeleteObject, Phase, CreateStep, DeleteStep
<1>35. ASSUME NEW k \in Contents, GcDeleteChunk(k)
       PROVE  Durably' /\ Phase' /\ CreateStep' /\ DeleteStep'
  <2>1. Durably' /\ UnfinishedCreations' = UnfinishedCreations
                  /\ UnfinishedDeletions' = UnfinishedDeletions
    BY <1>35, <1>a, NothingWritten DEF GcDeleteChunk, Written
  <2>2. QED
    BY <1>35, <1>a, <2>1 DEF GcDeleteChunk, Phase, CreateStep, DeleteStep
<1>36. ASSUME NEW c \in Ckpts, BeginRestore(c)
       PROVE  Durably' /\ Phase' /\ CreateStep' /\ DeleteStep'
  <2>1. Durably' /\ UnfinishedCreations' = UnfinishedCreations
                  /\ UnfinishedDeletions' = UnfinishedDeletions
    BY <1>36, <1>a, NothingWritten DEF BeginRestore, Written
  <2>2. QED
    BY <1>36, <1>a, <2>1 DEF BeginRestore, Phase, CreateStep, DeleteStep
<1>37. CASE EndRestore
  <2>1. Durably' /\ UnfinishedCreations' = UnfinishedCreations
                  /\ UnfinishedDeletions' = UnfinishedDeletions
    BY <1>37, <1>a, NothingWritten DEF EndRestore, Written
  <2>2. QED
    BY <1>37, <1>a, <2>1 DEF EndRestore, Phase, CreateStep, DeleteStep
<1>38. CASE Release
  <2>1. Durably' /\ UnfinishedCreations' = UnfinishedCreations
                  /\ UnfinishedDeletions' = UnfinishedDeletions
    BY <1>38, <1>a, NothingWritten DEF Release, Written
  <2>2. QED
    BY <1>38, <1>a, <2>1 DEF Release, Phase, CreateStep, DeleteStep
<1>39. CASE PowerLoss
  <2>1. Durably' /\ UnfinishedCreations' = UnfinishedCreations
                  /\ UnfinishedDeletions' = UnfinishedDeletions
    BY <1>39, <1>a, NothingWritten DEF PowerLoss, Written
  <2>2. QED
    BY <1>39, <1>a, <2>1 DEF PowerLoss, Phase, CreateStep, DeleteStep
<1>40. CASE UNCHANGED vars
  <2>1. Durably' /\ UnfinishedCreations' = UnfinishedCreations
                  /\ UnfinishedDeletions' = UnfinishedDeletions
    BY <1>40, <1>a, NothingWritten DEF vars, Written
  <2>2. QED
    BY <1>40, <1>a, <2>1 DEF vars, Phase, CreateStep, DeleteStep
<1>41. CASE CommitDeleteFails
  <2>1. Durably' /\ UnfinishedCreations' = UnfinishedCreations
                  /\ UnfinishedDeletions' = UnfinishedDeletions
    BY <1>41, <1>a, NothingWritten DEF CommitDeleteFails, Written
  <2>2. mode = "run"
    BY <1>41, <1>e DEF CommitDeleteFails
  <2>3. QED
    BY <1>41, <1>a, <2>1, <2>2 DEF CommitDeleteFails, NextJournal, Phase, CreateStep, DeleteStep
<1>42. QED
  BY <1>1, <1>2, <1>3, <1>4, <1>5, <1>6, <1>7, <1>8, <1>9, <1>10, <1>11,
     <1>12, <1>13, <1>14, <1>15, <1>16, <1>17, <1>18, <1>19, <1>20, <1>21,
     <1>22, <1>23, <1>24, <1>25, <1>26, <1>27, <1>28, <1>29, <1>30, <1>31,
     <1>32, <1>33, <1>34, <1>35, <1>36, <1>37, <1>38, <1>39, <1>40, <1>41
     DEF Next, Recovery, Create, Delete, Gc, Restore

(* At most one creation or deletion is ever unfinished, and when none is,  *)
(* the inventory lists exactly the published roots and refs/latest is one  *)
(* of them: the journals of create and delete, with their recoveries, make *)
(* each operation atomic wherever it is cut short.  Premise: a recovery    *)
(* that cannot write the last state of a deletion journal fails.  The code *)
(* grants the lock (finish_checkpoint_deletion returns Ok), and this is    *)
(* not so then: RecoveryMayNotFinalize = TRUE.                             *)
THEOREM ConsistentAtRest ==
    ASSUME RecoveryMayNotFinalize = FALSE
    PROVE  Spec => []QuiescentConsistency
<1>1. Init => TypeInv /\ ConsistencyInv
  BY TypeInit, ConsistencyInit
<1>2. TypeInv /\ ConsistencyInv /\ [Next]_vars => (TypeInv /\ ConsistencyInv)'
  BY TypeStep, ConsistencyStep
<1>3. ConsistencyInv => QuiescentConsistency
  <2> SUFFICES ASSUME ConsistencyInv PROVE QuiescentConsistency
    OBVIOUS
  <2>1. OneUnfinished /\ Agreement
    BY DEF ConsistencyInv
  <2>2. \A x, y \in Unfinished : x = y
    BY <2>1 DEF OneUnfinished, Unfinished
  <2>3. Unfinished = {} => UnfinishedCreations = {} /\ UnfinishedDeletions = {}
    <3>1. \A c \in UnfinishedCreations : <<"create", c>> \in Unfinished
      BY DEF Unfinished
    <3>2. \A c \in UnfinishedDeletions : <<"delete", c>> \in Unfinished
      BY DEF Unfinished
    <3>3. QED
      BY <3>1, <3>2
  <2>4. QED
    BY <2>1, <2>2, <2>3 DEF QuiescentConsistency, Agreement
<1>4. QED
  BY <1>1, <1>2, <1>3, PTL DEF Spec

-----------------------------------------------------------------------------
(* A pending restore. *)

(* The steps that publish or unlink a root, write a deletion journal, or   *)
(* begin or end a restore; every other step leaves all three alone.        *)
LEMMA RestoreFrame ==
    ASSUME [Next]_vars
    PROVE  \/ UNCHANGED <<roots, dj, restore>>
           \/ \E c \in Ckpts : AbortDeletion(c) \/ BeginDelete(c) \/ BeginRestore(c)
           \/ PublishRoot \/ StageRoot \/ MarkStaged \/ UnlinkRoot
           \/ MarkRemoved \/ CommitDelete \/ CleanupDelete \/ EndRestore
BY DEF Next, Recovery, Create, Delete, Gc, Restore, vars, disk, control,
       Lock, AbortCreation, ResumeCreation, CreationsRecovered, ResumeDeletion,
       DeletionsRecovered, BeginCreate, PreloadObjects, StoreObject, StoreManifest,
       FlushObjects, FlushManifest, PrepareCreate, MarkRootPublished, MarkAdded,
       MarkLatestUpdated, CommitCreate, MarkCreate, AddToInventory, WriteLatest,
       CleanupCreate, RemoveFromInventory, MoveLatest, AnalyzeGc, BeginGc,
       GcDeleteObject, GcDeleteChunk, Release, PowerLoss, CommitDeleteFails

(* Nothing is pending at first. *)
LEMMA RestoreInit == Init => DriveInv /\ RestoreInv
BY DEF Init, DriveInv, JournalAtStep, EarlyAreSeen, EarlyDeletions, RestoreInv, DeleteSteps

(* What DriveInv says something about: the steps of a creation up to its   *)
(* inventory transition, those of a deletion, and the lock once granted.   *)
DrivenSteps ==
    {"publish", "markRoot", "addInventory", "markAdded", "locked", "recoverDeletions"}
    \cup DeleteSteps

(* Which steps lead there; every other step stays where it was with the    *)
(* journals as they were, or leads elsewhere.                              *)
LEMMA DriveFrame ==
    ASSUME [Next]_vars
    PROVE  \/ pc' \notin DrivenSteps \/ UNCHANGED <<pc, mode, todo, cur, cj, dj>>
           \/ \E c \in Ckpts : ResumeCreation(c) \/ PrepareCreate(c) \/ AbortDeletion(c)
                               \/ ResumeDeletion(c) \/ BeginDelete(c)
           \/ PublishRoot \/ MarkRootPublished \/ AddToInventory \/ CreationsRecovered
           \/ DeletionsRecovered \/ StageRoot \/ MarkStaged \/ UnlinkRoot
           \/ RemoveFromInventory \/ MarkRemoved \/ MoveLatest \/ CommitDelete
           \/ CommitDeleteFails \/ CleanupDelete
BY DEF Next, Recovery, Create, Delete, Gc, Restore, vars, disk, control, Lock,
       AbortCreation, BeginCreate, PreloadObjects, StoreObject, StoreManifest,
       FlushObjects, FlushManifest, MarkAdded, MarkLatestUpdated, CommitCreate,
       MarkCreate, WriteLatest, CleanupCreate, AnalyzeGc, BeginGc, GcDeleteObject,
       GcDeleteChunk, BeginRestore, EndRestore, Release, PowerLoss, Goto, Forget,
       NextJournal, DrivenSteps, DeleteSteps

(* Each step finds its journal in the state the step before it wrote, and  *)
(* a journal before its inventory transition is still to be looked at.     *)
LEMMA DriveStep == TypeInv /\ TypeInv' /\ DriveInv /\ [Next]_vars => DriveInv'
<1> SUFFICES ASSUME TypeInv, TypeInv', DriveInv, [Next]_vars
             PROVE  JournalAtStep' /\ EarlyAreSeen'
  BY DEF DriveInv
<1>a. /\ cj \in [Ckpts -> CreateJournal \cup {None}]
      /\ dj \in [Ckpts -> CheckpointDeletionJournal \cup {None}]
      /\ JournalDriven /\ JournalAtStep /\ EarlyAreSeen
  BY DEF TypeInv, TypeOK, DriveInv
<1>b. pc \in DeleteSteps => cur \in Ckpts /\ dj[cur] # None
  BY <1>a DEF JournalDriven
<1>c. pc \in CreateSteps => cur \in Ckpts /\ cj[cur] # None
  BY <1>a DEF JournalDriven
<1>1. CASE pc' \notin DrivenSteps
  BY <1>1 DEF JournalAtStep, EarlyAreSeen, DrivenSteps, DeleteSteps
<1>2. CASE UNCHANGED <<pc, mode, todo, cur, cj, dj>>
  BY <1>2, <1>a DEF JournalAtStep, EarlyAreSeen, EarlyDeletions
<1>3. ASSUME NEW c \in Ckpts, ResumeCreation(c) PROVE JournalAtStep' /\ EarlyAreSeen'
  <2>1. cj[c] # None /\ cj[c].state \in CreateJournalState
    BY <1>3, <1>a DEF ResumeCreation, JournalDriven, CreateJournal
  <2>2. /\ pc' \in {"addInventory", "writeLatest", "commitCreate", "cleanupCreate"}
        /\ pc' = "addInventory" => cj[c].state \in {"Prepared", "RootPublished"}
        /\ cur' = c /\ cj' = cj
    BY <1>3, <2>1 DEF ResumeCreation, CreateJournalState, disk
  <2>3. QED
    BY <2>2 DEF JournalAtStep, EarlyAreSeen, DeleteSteps
<1>4. ASSUME NEW c \in Ckpts, PrepareCreate(c) PROVE JournalAtStep' /\ EarlyAreSeen'
  <2>1. cur' = c /\ pc' = "publish" /\ cj'[c].state = "Prepared"
    BY <1>4, <1>a DEF PrepareCreate
  <2>2. QED
    BY <2>1 DEF JournalAtStep, EarlyAreSeen, DeleteSteps
<1>5. ASSUME NEW c \in Ckpts, AbortDeletion(c) PROVE JournalAtStep' /\ EarlyAreSeen'
  <2>1. /\ pc = "recoverDeletions" /\ pc' = pc /\ todo' = todo \ {c}
        /\ dj' = [dj EXCEPT ![c] = None]
    BY <1>5 DEF AbortDeletion
  <2>2. EarlyDeletions' \subseteq EarlyDeletions \ {c}
    BY <1>a, <2>1 DEF EarlyDeletions
  <2>3. QED
    BY <1>a, <2>1, <2>2 DEF JournalAtStep, EarlyAreSeen, DeleteSteps
<1>6. ASSUME NEW c \in Ckpts, ResumeDeletion(c) PROVE JournalAtStep' /\ EarlyAreSeen'
  <2>1. dj[c] # None /\ dj[c].state \in CheckpointDeletionState
    BY <1>6, <1>a DEF ResumeDeletion, JournalDriven, CheckpointDeletionJournal
  <2>2. /\ pc' \in {"markStaged", "unlinkRoot", "removeInventory", "moveLatest", "cleanupDelete"}
        /\ pc' = "markStaged" => dj[c].state = "Prepared"
        /\ pc' \in {"unlinkRoot", "removeInventory"} => dj[c].state = "Staged"
        /\ pc' = "moveLatest" => dj[c].state = "InventoryUpdated"
        /\ pc' = "cleanupDelete" => dj[c].state = "Committed"
        /\ cur' = c /\ UNCHANGED <<dj, mode, todo>>
    BY <1>6, <2>1 DEF ResumeDeletion, CheckpointDeletionState, disk
  <2>3. EarlyDeletions' = EarlyDeletions /\ EarlyDeletions \subseteq todo
    BY <1>6, <1>a, <2>2 DEF EarlyDeletions, EarlyAreSeen, ResumeDeletion
  <2>4. QED
    BY <2>2, <2>3 DEF JournalAtStep, EarlyAreSeen
<1>7. ASSUME NEW c \in Ckpts, BeginDelete(c) PROVE JournalAtStep' /\ EarlyAreSeen'
  <2>1. /\ cur' = c /\ pc' = "stageRoot" /\ mode' = "run"
        /\ dj'[c].state = "Prepared"
    BY <1>7, <1>a DEF BeginDelete, JournalDriven
  <2>2. QED
    BY <2>1 DEF JournalAtStep, EarlyAreSeen
<1>8. CASE PublishRoot \/ AddToInventory
  <2>1. /\ pc \in CreateSteps /\ UNCHANGED <<cur, cj>>
        /\ \/ pc = "publish" /\ pc' = "markRoot"
           \/ pc = "addInventory" /\ pc' = "markAdded"
    BY <1>8 DEF PublishRoot, AddToInventory, Goto, CreateSteps
  <2>2. QED
    BY <1>a, <2>1 DEF JournalAtStep, EarlyAreSeen, DeleteSteps
<1>9. CASE MarkRootPublished
  <2>1. /\ pc = "markRoot" /\ pc' = "addInventory" /\ cur' = cur
        /\ cj' = [cj EXCEPT ![cur].state = "RootPublished"]
    BY <1>9 DEF MarkRootPublished, MarkCreate, Goto
  <2>2. cj'[cur].state = "RootPublished"
    BY <1>a, <1>c, <2>1, CreationMarked DEF CreateSteps, CreateJournalState
  <2>3. QED
    BY <2>1, <2>2 DEF JournalAtStep, EarlyAreSeen, DeleteSteps
<1>10. CASE CreationsRecovered
  <2>1. /\ pc' = "recoverDeletions" /\ dj' = dj /\ todo' = {c \in Ckpts : dj[c] # None}
    BY <1>10 DEF CreationsRecovered, disk
  <2>2. QED
    BY <2>1 DEF JournalAtStep, EarlyAreSeen, EarlyDeletions, DeleteSteps
<1>11. CASE DeletionsRecovered
  <2>1. pc = "recoverDeletions" /\ todo = {} /\ pc' = "locked" /\ dj' = dj
    BY <1>11 DEF DeletionsRecovered, disk
  <2>2. QED
    BY <1>a, <2>1 DEF JournalAtStep, EarlyAreSeen, EarlyDeletions, DeleteSteps
<1>12. CASE StageRoot
  <2>1. /\ pc = "stageRoot" /\ pc' = "markStaged" /\ UNCHANGED <<mode, todo, cur>>
        /\ dj' = [dj EXCEPT ![cur].staged = TRUE]
    BY <1>12 DEF StageRoot, Goto
  <2>2. /\ cur \in Ckpts /\ dj[cur].state = "Prepared" /\ dj'[cur].state = "Prepared"
        /\ \A c \in Ckpts \ {cur} : dj'[c] = dj[c]
    BY <1>a, <1>b, <2>1, DeletionStaged DEF DeleteSteps, JournalAtStep
  <2>3. EarlyDeletions' \subseteq EarlyDeletions
    BY <1>b, <2>1, <2>2 DEF EarlyDeletions, DeleteSteps
  <2>4. QED
    BY <1>a, <2>1, <2>2, <2>3 DEF JournalAtStep, EarlyAreSeen, DeleteSteps
<1>13. CASE MarkStaged \/ MarkRemoved \/ CommitDelete
  <2> DEFINE st == IF MarkStaged THEN "Staged"
                   ELSE IF MarkRemoved THEN "InventoryUpdated" ELSE "Committed"
  <2>1. /\ \/ pc = "markStaged" /\ pc' = "unlinkRoot" /\ st = "Staged"
           \/ pc = "markRemoved" /\ pc' = "moveLatest" /\ st = "InventoryUpdated"
           \/ pc = "commitDelete" /\ pc' = "cleanupDelete" /\ st = "Committed"
        /\ UNCHANGED <<mode, todo, cur>> /\ dj' = [dj EXCEPT ![cur].state = st]
    BY <1>13 DEF MarkStaged, MarkRemoved, CommitDelete, MarkDelete, Goto
  <2> HIDE DEF st
  <2>2. /\ cur \in Ckpts /\ dj[cur] # None /\ dj'[cur].state = st
        /\ \A c \in Ckpts \ {cur} : dj'[c] = dj[c]
    BY <1>a, <1>b, <2>1, DeletionMarked DEF DeleteSteps, CheckpointDeletionState
  <2>3. EarlyDeletions' \subseteq EarlyDeletions
    BY <1>a, <2>1, <2>2 DEF EarlyDeletions, JournalAtStep
  <2>4. QED
    BY <1>a, <2>1, <2>2, <2>3 DEF JournalAtStep, EarlyAreSeen, DeleteSteps
<1>14. CASE UnlinkRoot \/ RemoveFromInventory \/ MoveLatest
  <2>1. /\ UNCHANGED <<mode, todo, cur, dj>>
        /\ \/ pc = "unlinkRoot" /\ pc' = "removeInventory"
           \/ pc = "removeInventory" /\ pc' = "markRemoved"
           \/ pc = "moveLatest" /\ pc' = "commitDelete"
    BY <1>14 DEF UnlinkRoot, RemoveFromInventory, MoveLatest, Goto
  <2>2. QED
    BY <1>a, <2>1 DEF JournalAtStep, EarlyAreSeen, EarlyDeletions, DeleteSteps
<1>15. CASE CommitDeleteFails \/ CleanupDelete
  <2>1. /\ pc \in {"commitDelete", "cleanupDelete"} /\ dj' \in {dj, [dj EXCEPT ![cur] = None]}
        /\ \/ pc' = "idle"
           \/ mode = "recover" /\ pc' = "recoverDeletions" /\ todo' = todo \ {cur}
    BY <1>15 DEF CommitDeleteFails, CleanupDelete, NextJournal, Forget, disk
  <2>2. cur \in Ckpts /\ cur \notin EarlyDeletions
    BY <1>a, <1>b, <2>1 DEF DeleteSteps, JournalAtStep, EarlyDeletions
  <2>3. EarlyDeletions' \subseteq EarlyDeletions
    BY <1>a, <2>1, <2>2 DEF EarlyDeletions
  <2>4. QED
    BY <1>a, <2>1, <2>2, <2>3 DEF JournalAtStep, EarlyAreSeen, DeleteSteps
<1>16. QED
  BY <1>1, <1>2, <1>3, <1>4, <1>5, <1>6, <1>7, <1>8, <1>9, <1>10, <1>11, <1>12, <1>13,
     <1>14, <1>15, DriveFrame

(* While a restore is pending, nothing deletes its checkpoint. *)
LEMMA RestoreStep ==
    TypeInv /\ TypeInv' /\ DriveInv /\ RestoreInv /\ [Next]_vars => RestoreInv'
<1> SUFFICES ASSUME TypeInv, TypeInv', DriveInv, RestoreInv, [Next]_vars
             PROVE  RestoreInv'
  OBVIOUS
<1>a. /\ dj \in [Ckpts -> CheckpointDeletionJournal \cup {None}]
      /\ JournalDriven /\ JournalAtStep /\ EarlyAreSeen
  BY DEF TypeInv, TypeOK, DriveInv
<1>b. ASSUME NEW c \in Ckpts, dj[c] # None, dj[c].state \in {"Prepared", "Staged"}
      PROVE  restore = None
  BY <1>b DEF RestoreInv, EarlyDeletions
<1>1. CASE UNCHANGED <<roots, dj, restore>>
  BY <1>1 DEF RestoreInv, EarlyDeletions
<1>2. ASSUME NEW c \in Ckpts, AbortDeletion(c) PROVE RestoreInv'
  <2>1. dj[c] # None /\ dj[c].state = "Prepared" /\ restore' = restore
    BY <1>2, <1>a DEF AbortDeletion, DeletionAborts, JournalDriven
  <2>2. QED
    BY <1>b, <2>1 DEF RestoreInv
<1>3. ASSUME NEW c \in Ckpts, BeginDelete(c) PROVE RestoreInv'
  BY <1>3 DEF BeginDelete, RestoreInv
<1>4. ASSUME NEW c \in Ckpts, BeginRestore(c) PROVE RestoreInv'
  <2>1. EarlyDeletions = {} /\ c \in roots /\ UNCHANGED <<roots, dj>> /\ restore' = c
    BY <1>4, <1>a DEF BeginRestore, Loadable, EarlyAreSeen
  <2>2. QED
    BY <2>1 DEF RestoreInv, EarlyDeletions
<1>5. CASE PublishRoot
  <2>1. roots \subseteq roots' /\ UNCHANGED <<dj, restore>>
    BY <1>5 DEF PublishRoot
  <2>2. QED
    BY <2>1 DEF RestoreInv, EarlyDeletions
<1>6. CASE StageRoot \/ MarkStaged \/ UnlinkRoot \/ MarkRemoved
  <2>1. /\ pc \in {"stageRoot", "markStaged", "unlinkRoot", "markRemoved"}
        /\ restore' = restore
    BY <1>6 DEF StageRoot, MarkStaged, UnlinkRoot, MarkRemoved, MarkDelete
  <2>2. cur \in Ckpts /\ dj[cur] # None /\ dj[cur].state \in {"Prepared", "Staged"}
    BY <1>a, <2>1 DEF JournalDriven, JournalAtStep, DeleteSteps
  <2>3. QED
    BY <1>b, <2>1, <2>2 DEF RestoreInv
<1>7. CASE CleanupDelete \/ CommitDelete
  <2>1. /\ UNCHANGED <<roots, restore>> /\ cur \in Ckpts /\ dj[cur] # None
        /\ \/ dj' \in {dj, [dj EXCEPT ![cur] = None]}
           \/ dj' = [dj EXCEPT ![cur].state = "Committed"]
    BY <1>7, <1>a DEF CleanupDelete, CommitDelete, MarkDelete, JournalDriven, DeleteSteps
  <2>2. \A c \in Ckpts : dj'[c] \in {dj[c], None} \/ dj'[c].state = "Committed"
    BY <1>a, <2>1, DeletionMarked DEF CheckpointDeletionState
  <2>3. EarlyDeletions' \subseteq EarlyDeletions
    BY <2>2 DEF EarlyDeletions
  <2>4. QED
    BY <2>1, <2>3 DEF RestoreInv
<1>8. CASE EndRestore
  BY <1>8 DEF EndRestore, RestoreInv
<1>9. QED
  BY <1>1, <1>2, <1>3, <1>4, <1>5, <1>6, <1>7, <1>8, RestoreFrame

(* Whatever ends, crashes or is recovered while a restore is pending, the  *)
(* checkpoint it was made for can still be read: recovery keeps the target *)
(* of restore_project and discard readable until they are terminal.        *)
THEOREM RestoreTargetIsKept == Spec => []RestoreTargetSurvives
<1> DEFINE Inv == TypeInv /\ DurableInv /\ DriveInv /\ RestoreInv
<1>1. Init => Inv
  BY TypeInit, DurableInit, RestoreInit
<1>2. Inv /\ [Next]_vars => Inv'
  BY TypeStep, DurableStep, DriveStep, RestoreStep
<1>3. Inv => RestoreTargetSurvives
  <2> SUFFICES ASSUME Inv, restore # None
               PROVE  Loadable(restore) /\ \A o \in snap[restore].files : objs[o] # "absent"
    BY DEF RestoreTargetSurvives
  <2>1. restore \in roots /\ PublishedIsDurable
    BY DEF RestoreInv, DurableInv
  <2>2. QED
    BY <2>1 DEF PublishedIsDurable, Loadable
<1>4. QED
  BY <1>1, <1>2, <1>3, PTL DEF Spec
-----------------------------------------------------------------------------
(* The lineage. *)

(* What a transition adds to a lineage is its last entry. *)
LEMMA ExtendedEntries ==
    ASSUME NEW h \in Lineage, NEW c \in Ckpts, NEW op \in {"Add", "Remove"}
    PROVE  /\ Len(h) \in Nat \ {0} /\ DOMAIN h = 1..Len(h)
           /\ DOMAIN Extended(h, op, c) = 1..(Len(h) + 1)
           /\ \A i \in 1..Len(h) : Extended(h, op, c)[i] = h[i]
           /\ Extended(h, op, c)[Len(h) + 1].op = op
           /\ Extended(h, op, c)[Len(h) + 1].id = c
<1>1. h \in Seq(InventoryState) /\ Len(h) \in Nat /\ Len(h) # 0
  BY DEF Lineage
<1> DEFINE s == [op  |-> op, id  |-> c,
                 set |-> IF op = "Add" THEN InventorySet(h) \cup {c}
                                       ELSE InventorySet(h) \ {c}]
<1>2. Extended(h, op, c) = Append(h, s) /\ s.op = op /\ s.id = c
  BY DEF Extended
<1> HIDE DEF s
<1>3. QED
  BY <1>1, <1>2

(* The steps that write the inventory, fix the bytes of an id or write a   *)
(* creation journal; every other step leaves all three alone.              *)
LEMMA LineageFrame ==
    ASSUME [Next]_vars
    PROVE  \/ UNCHANGED <<head, snap, cj>>
           \/ \E c \in Ckpts : AbortCreation(c) \/ PrepareCreate(c)
           \/ MarkRootPublished \/ MarkAdded \/ MarkLatestUpdated \/ CommitCreate
           \/ AddToInventory \/ CleanupCreate \/ RemoveFromInventory
BY DEF Next, Recovery, Create, Delete, Gc, Restore, vars, disk, control,
       Lock, AbortDeletion, ResumeCreation, CreationsRecovered, ResumeDeletion,
       DeletionsRecovered, BeginCreate, PreloadObjects, StoreObject, StoreManifest,
       FlushObjects, FlushManifest, PublishRoot, WriteLatest, BeginDelete, StageRoot,
       MarkStaged, MarkRemoved, CommitDelete, CommitDeleteFails, MarkDelete, UnlinkRoot,
       CleanupDelete,
       MoveLatest, AnalyzeGc, BeginGc, GcDeleteObject, GcDeleteChunk,
       BeginRestore, EndRestore, Release, PowerLoss

(* The first lineage has one state, of no checkpoint. *)
LEMMA LineageInit == Init => LineageInv
<1> SUFFICES ASSUME Init PROVE LineageInv
  OBVIOUS
<1>1. DOMAIN head = {1} /\ head[1].op = "Initialize" /\ head[1].id = None
  BY DEF Init
<1>2. UnfinishedCreations = {}
  BY DEF Init, UnfinishedCreations
<1>3. QED
  BY <1>1, <1>2, NoneAssumption
     DEF LineageInv, RecordedOnce, ListedIsKnown, RemovedIsGone, NewToTheLineage

(* An id enters the lineage once and leaves it once, however often the     *)
(* transition is replayed.                                                 *)
LEMMA LineageStep ==
    TypeInv /\ TypeInv' /\ DriveInv /\ LineageInv /\ [Next]_vars => LineageInv'
<1> SUFFICES ASSUME TypeInv, TypeInv', DriveInv, LineageInv, [Next]_vars
             PROVE  LineageInv'
  OBVIOUS
<1>a. /\ cj \in [Ckpts -> CreateJournal \cup {None}] /\ head \in Lineage
      /\ dj \in [Ckpts -> CheckpointDeletionJournal \cup {None}]
      /\ snap \in [Ckpts -> Snapshot \cup {None}]
      /\ JournalDriven /\ BytesKnown /\ JournalAtStep
  BY DEF TypeInv, TypeOK, DriveInv
<1>b. RecordedOnce /\ ListedIsKnown /\ RemovedIsGone /\ NewToTheLineage
  BY DEF LineageInv
<1>c. /\ \A c \in Ckpts : cj[c] # None => cj[c].headBefore \in Lineage
      /\ \A c \in Ckpts : dj[c] # None => dj[c].headBefore \in Lineage
  BY <1>a, NoneAssumption DEF CreateJournal, CheckpointDeletionJournal
<1>1. CASE UNCHANGED <<head, snap, cj>>
  BY <1>1 DEF LineageInv, RecordedOnce, ListedIsKnown, RemovedIsGone,
              NewToTheLineage, UnfinishedCreations, InventorySet
<1>2. ASSUME UNCHANGED <<head, snap>>, NewToTheLineage' PROVE LineageInv'
  BY <1>2, <1>b DEF LineageInv, RecordedOnce, ListedIsKnown, RemovedIsGone, InventorySet
<1>3. ASSUME NEW c \in Ckpts, AbortCreation(c) PROVE LineageInv'
  <2>1. /\ \A x \in Ckpts : cj'[x] \in {cj[x], None} /\ UNCHANGED <<head, snap>>
    BY <1>3, <1>a DEF AbortCreation
  <2>2. NewToTheLineage'
    BY <1>b, <2>1 DEF NewToTheLineage, UnfinishedCreations
  <2>3. QED
    BY <1>2, <2>1, <2>2
<1>4. ASSUME NEW c \in Ckpts, PrepareCreate(c) PROVE LineageInv'
  <2> DEFINE j == [state |-> "Prepared", oldLatest |-> base, headBefore |-> head]
             b == [files |-> files, parent |-> base]
  <2>1. j.headBefore = head /\ j.state = "Prepared"
    OBVIOUS
  <2>2. /\ cj' = [cj EXCEPT ![c] = j] /\ snap' = [snap EXCEPT ![c] = b]
        /\ snap[c] = None /\ head' = head /\ pc = "prepare"
    BY <1>4 DEF PrepareCreate
  <2>3. b \in Snapshot
    BY <2>2, <1>a DEF Snapshot, JournalDriven, ScanSteps, TypeInv, TypeOK
  <2> HIDE DEF j, b
  <2>4. cj'[c] = j /\ \A x \in Ckpts \ {c} : cj'[x] = cj[x]
    BY <1>a, <2>2
  <2>5. \A x \in Ckpts : snap[x] # None => snap'[x] # None
    BY <1>a, <2>2, <2>3, NoneAssumption
  <2>6. \A i \in DOMAIN head : head[i].id # c
    BY <1>b, <2>2 DEF ListedIsKnown
  <2>7. NewToTheLineage'
    BY <1>b, <2>1, <2>4, <2>6 DEF NewToTheLineage, UnfinishedCreations
  <2>8. QED
    BY <1>b, <2>2, <2>5, <2>7
       DEF LineageInv, RecordedOnce, ListedIsKnown, RemovedIsGone, InventorySet
<1>5. ASSUME NEW st \in CreateJournalState, cur \in Ckpts, cj[cur] # None,
             cj' = [cj EXCEPT ![cur].state = st], UNCHANGED <<head, snap>>,
             st \in {"Prepared", "RootPublished"} =>
                 cj[cur].state \in {"Prepared", "RootPublished"}
      PROVE  LineageInv'
  <2>1. /\ cj'[cur] # None /\ cj'[cur].state = st
        /\ cj'[cur].headBefore = cj[cur].headBefore
        /\ \A c \in Ckpts \ {cur} : cj'[c] = cj[c]
    BY <1>5, <1>a, CreationMarked
  <2>2. NewToTheLineage'
    BY <1>5, <1>b, <2>1 DEF NewToTheLineage, UnfinishedCreations
  <2>3. QED
    BY <1>2, <1>5, <2>2
<1>6. CASE MarkRootPublished
  <2>1. /\ cur \in Ckpts /\ cj[cur] # None /\ cj[cur].state = "Prepared"
        /\ cj' = [cj EXCEPT ![cur].state = "RootPublished"] /\ UNCHANGED <<head, snap>>
    BY <1>6, <1>a DEF MarkRootPublished, MarkCreate, JournalDriven, CreateSteps, JournalAtStep
  <2>2. QED
    BY <1>5, <2>1 DEF CreateJournalState
<1>7. CASE MarkAdded
  <2>1. /\ cur \in Ckpts /\ cj[cur] # None
        /\ cj' = [cj EXCEPT ![cur].state = "InventoryUpdated"] /\ UNCHANGED <<head, snap>>
    BY <1>7, <1>a DEF MarkAdded, MarkCreate, JournalDriven, CreateSteps
  <2>2. QED
    BY <1>5, <2>1 DEF CreateJournalState
<1>8. CASE MarkLatestUpdated
  <2>1. /\ cur \in Ckpts /\ cj[cur] # None
        /\ cj' = [cj EXCEPT ![cur].state = "LatestUpdated"] /\ UNCHANGED <<head, snap>>
    BY <1>8, <1>a DEF MarkLatestUpdated, MarkCreate, JournalDriven, CreateSteps
  <2>2. QED
    BY <1>5, <2>1 DEF CreateJournalState
<1>9. CASE CommitCreate
  <2>1. /\ cur \in Ckpts /\ cj[cur] # None
        /\ cj' = [cj EXCEPT ![cur].state = "Committed"] /\ UNCHANGED <<head, snap>>
    BY <1>9, <1>a DEF CommitCreate, MarkCreate, JournalDriven, CreateSteps
  <2>2. QED
    BY <1>5, <2>1 DEF CreateJournalState
<1>10. CASE AddToInventory
  <2>1. /\ cur \in Ckpts /\ cj[cur] # None /\ cur \in roots /\ UNCHANGED <<snap, cj>>
        /\ head' = Extended(cj[cur].headBefore, "Add", cur)
        /\ cj[cur].state \in {"Prepared", "RootPublished"}
        /\ head \in {cj[cur].headBefore, Extended(cj[cur].headBefore, "Add", cur)}
    BY <1>10, <1>a DEF AddToInventory, TransitionAllowed, JournalDriven, CreateSteps, JournalAtStep
  <2>2. CASE head' = head
    BY <1>1, <2>1, <2>2
  <2>3. CASE head = cj[cur].headBefore
    <3>1. \A i \in DOMAIN head : head[i].id # cur
      BY <1>b, <2>1, <2>3 DEF NewToTheLineage, UnfinishedCreations
    <3>2. /\ Len(head) \in Nat \ {0} /\ DOMAIN head = 1..Len(head)
          /\ DOMAIN head' = 1..(Len(head) + 1)
          /\ \A i \in 1..Len(head) : head'[i] = head[i]
          /\ head'[Len(head) + 1].op = "Add" /\ head'[Len(head) + 1].id = cur
      <4>1. head' = Extended(head, "Add", cur) /\ head \in Lineage /\ cur \in Ckpts
        BY <1>a, <2>1, <2>3
      <4>2. QED
        BY <4>1, ExtendedEntries
    <3>3. RecordedOnce'
      BY <1>b, <3>1, <3>2 DEF RecordedOnce
    <3>4. ListedIsKnown'
      BY <1>a, <1>b, <2>1, <3>2 DEF ListedIsKnown, BytesKnown
    <3>5. InventorySet(head') = InventorySet(head) \cup {cur}
      BY <1>a, <2>1, <2>3, ExtendedSet
    <3>6. RemovedIsGone'
      <4>1. \A i \in 1..Len(head) : head[i].op = "Remove" => head[i].id \notin InventorySet(head')
        BY <1>b, <3>1, <3>2, <3>5 DEF RemovedIsGone
      <4>2. QED
        BY <3>2, <4>1 DEF RemovedIsGone
    <3>7. NewToTheLineage'
      BY <1>b, <2>1 DEF NewToTheLineage, UnfinishedCreations
    <3>8. QED
      BY <3>3, <3>4, <3>6, <3>7 DEF LineageInv
  <2>4. QED
    BY <2>1, <2>2, <2>3
<1>11. CASE CleanupCreate
  <2>1. \A x \in Ckpts : cj'[x] \in {cj[x], None} /\ UNCHANGED <<head, snap>>
    BY <1>11, <1>a DEF CleanupCreate
  <2>2. NewToTheLineage'
    BY <1>b, <2>1 DEF NewToTheLineage, UnfinishedCreations
  <2>3. UNCHANGED <<head, snap>>
    BY <1>11 DEF CleanupCreate
  <2>4. QED
    BY <1>2, <2>2, <2>3
<1>12. CASE RemoveFromInventory
  <2>1. /\ cur \in Ckpts /\ dj[cur] # None /\ UNCHANGED <<snap, cj>>
        /\ cur \in InventorySet(dj[cur].headBefore)
        /\ head' = Extended(dj[cur].headBefore, "Remove", cur)
        /\ head \in {dj[cur].headBefore, Extended(dj[cur].headBefore, "Remove", cur)}
    BY <1>12, <1>a DEF RemoveFromInventory, TransitionAllowed, MutationAllowed,
                       JournalDriven, DeleteSteps
  <2>2. CASE head' = head
    BY <1>1, <2>1, <2>2
  <2>3. CASE head = dj[cur].headBefore
    <3>1. \A i \in DOMAIN head : head[i].op = "Remove" => head[i].id # cur
      BY <1>b, <2>1, <2>3 DEF RemovedIsGone
    <3>2. /\ Len(head) \in Nat \ {0} /\ DOMAIN head = 1..Len(head)
          /\ DOMAIN head' = 1..(Len(head) + 1)
          /\ \A i \in 1..Len(head) : head'[i] = head[i]
          /\ head'[Len(head) + 1].op = "Remove" /\ head'[Len(head) + 1].id = cur
      <4>1. head' = Extended(head, "Remove", cur) /\ head \in Lineage /\ cur \in Ckpts
        BY <1>a, <2>1, <2>3
      <4>2. QED
        BY <4>1, ExtendedEntries
    <3>3. RecordedOnce'
      BY <1>b, <3>1, <3>2 DEF RecordedOnce
    <3>4. ListedIsKnown'
      BY <1>a, <1>b, <2>1, <3>2 DEF ListedIsKnown, BytesKnown
    <3>5. InventorySet(head') = InventorySet(head) \ {cur}
      BY <1>a, <2>1, <2>3, ExtendedSet
    <3>6. RemovedIsGone'
      <4>1. \A i \in 1..Len(head) : head[i].op = "Remove" => head[i].id \notin InventorySet(head')
        BY <1>b, <3>2, <3>5 DEF RemovedIsGone
      <4>2. QED
        BY <3>2, <3>5, <4>1 DEF RemovedIsGone
    <3>7. NewToTheLineage'
      BY <1>b, <2>1 DEF NewToTheLineage, UnfinishedCreations
    <3>8. QED
      BY <3>3, <3>4, <3>6, <3>7 DEF LineageInv
  <2>4. QED
    BY <2>1, <2>2, <2>3
<1>13. QED
  BY <1>1, <1>3, <1>4, <1>6, <1>7, <1>8, <1>9, <1>10, <1>11, <1>12, LineageFrame

(* The inventory records each creation and each deletion exactly once: the *)
(* replayed compare-and-swap of transition_inventory never writes a second *)
(* entry for the same operation.                                           *)
THEOREM InventoryRecordsOnce == Spec => []RecordedOnce
<1> DEFINE Inv == TypeInv /\ DriveInv /\ LineageInv
<1>1. Init => Inv
  BY TypeInit, RestoreInit, LineageInit
<1>2. Inv /\ [Next]_vars => Inv'
  BY TypeStep, DriveStep, LineageStep
<1>3. Inv => RecordedOnce
  BY DEF LineageInv
<1>4. QED
  BY <1>1, <1>2, <1>3, PTL DEF Spec
-----------------------------------------------------------------------------
(* Recovery. *)

(* Only storage GC takes away what is durable, and the bytes an id stands  *)
(* for are fixed once.                                                     *)
LEMMA BytesKept ==
    ASSUME TypeInv, [Next]_vars
    PROVE  /\ pc # "gc" => \A k \in Contents : chunks[k] = "durable" => chunks'[k] = "durable"
           /\ \A c \in Ckpts : snap[c] # None => snap'[c] = snap[c]
<1>1. chunks \in [Contents -> Disk] /\ snap \in [Ckpts -> Snapshot \cup {None}]
      /\ JournalDriven
  BY DEF TypeInv, TypeOK
<1>2. \/ UNCHANGED <<chunks, snap>>
      \/ StoreManifest \/ FlushManifest \/ PowerLoss
      \/ \E c \in Ckpts : PrepareCreate(c)
      \/ \E k \in Contents : GcDeleteChunk(k)
  BY DEF Next, Recovery, Create, Delete, Gc, Restore, vars, disk, control,
         Lock, AbortCreation, AbortDeletion, ResumeCreation, CreationsRecovered,
         ResumeDeletion, DeletionsRecovered, BeginCreate, PreloadObjects, StoreObject,
         FlushObjects, PublishRoot, MarkRootPublished, MarkAdded, MarkLatestUpdated,
         CommitCreate, MarkCreate, AddToInventory, WriteLatest, CleanupCreate,
         BeginDelete, StageRoot, MarkStaged, MarkRemoved, CommitDelete, CommitDeleteFails,
         MarkDelete, UnlinkRoot, RemoveFromInventory, CleanupDelete, MoveLatest, AnalyzeGc,
         BeginGc, GcDeleteObject, BeginRestore, EndRestore, Release
<1>3. CASE UNCHANGED <<chunks, snap>>
  BY <1>3
<1>4. CASE StoreManifest
  BY <1>1, <1>4 DEF StoreManifest
<1>5. CASE FlushManifest
  BY <1>1, <1>5 DEF FlushManifest
<1>6. CASE PowerLoss
  BY <1>1, <1>6 DEF PowerLoss
<1>7. ASSUME NEW c \in Ckpts, PrepareCreate(c)
      PROVE  chunks' = chunks /\ \A x \in Ckpts : snap[x] # None => snap'[x] = snap[x]
  BY <1>1, <1>7 DEF PrepareCreate
<1>8. ASSUME NEW k \in Contents, GcDeleteChunk(k) PROVE pc = "gc" /\ snap' = snap
  BY <1>8 DEF GcDeleteChunk
<1>9. QED
  BY <1>2, <1>3, <1>4, <1>5, <1>6, <1>7, <1>8

(* There is no journal at first. *)
LEMMA RecoveryInit == Init => RecoveryInv
BY DEF Init, RecoveryInv, JournalsLeft, CreationReadable, DeletionReadable,
       Creations, Deletions, ScanSteps, CreateSteps, DeleteSteps

(* If a finished journal is always removed, every journal is one recovery  *)
(* can read when it meets it.                                              *)
LEMMA RecoveryStep ==
    ASSUME CleanupMayFail = FALSE, RecoveryMayNotFinalize = FALSE
    PROVE  TypeInv /\ TypeInv' /\ DurableInv /\ ConsistencyInv /\ RecoveryInv /\ [Next]_vars
             => RecoveryInv'
<1> SUFFICES ASSUME TypeInv, TypeInv', DurableInv, ConsistencyInv, RecoveryInv, [Next]_vars
             PROVE  RecoveryInv'
  OBVIOUS
<1>a. /\ cj \in [Ckpts -> CreateJournal \cup {None}]
      /\ dj \in [Ckpts -> CheckpointDeletionJournal \cup {None}]
      /\ snap \in [Ckpts -> Snapshot \cup {None}]
      /\ JournalDriven /\ BytesKnown /\ pc \in Steps /\ mode \in {"run", "recover"}
  BY DEF TypeInv, TypeOK
<1>b. JournalsLeft /\ CreationReadable /\ DeletionReadable
  BY DEF RecoveryInv
<1>c. \A c \in Deletions : snap'[c] = snap[c] /\ snap[c].files \in Contents
  <2>1. \A c \in Deletions : c \in Ckpts /\ snap[c] # None
    BY <1>a DEF Deletions, BytesKnown
  <2>2. \A c \in Ckpts : snap[c] # None => snap[c].files \in Contents
    BY <1>a DEF Snapshot
  <2>3. QED
    BY <2>1, <2>2, BytesKept
<1>d. \A c \in Deletions : chunks'[snap'[c].files] = "durable"
  BY <1>b, <1>c, BytesKept DEF JournalsLeft, DeletionReadable
<1>q. ASSUME UNCHANGED <<cj, dj, roots>>, pc' # "markStaged", JournalsLeft'
      PROVE  RecoveryInv'
  <2>1. Creations' = Creations /\ Deletions' = Deletions
    BY <1>q DEF Creations, Deletions
  <2>2. CreationReadable'
    BY <1>b, <1>q, <2>1 DEF CreationReadable
  <2>3. DeletionReadable'
    BY <1>b, <1>d, <1>q, <2>1 DEF DeletionReadable
  <2>4. QED
    BY <1>q, <2>2, <2>3 DEF RecoveryInv
<1> USE DEF Steps, ScanSteps, CreateSteps, DeleteSteps, disk, control, scan, Goto, Forget
<1>m. ASSUME NEW st \in CreateJournalState, cur \in Ckpts, cj[cur] # None,
             cj' = [cj EXCEPT ![cur].state = st], st = "Committed" => cur \in roots,
             pc \in CreateSteps, pc' \in CreateSteps \ {"publish", "markRoot"},
             UNCHANGED <<dj, roots, mode, todo, cur, chunks, snap>>
      PROVE  RecoveryInv'
  <2>1. /\ cj'[cur] # None /\ cj'[cur].state = st
        /\ \A c \in Ckpts \ {cur} : cj'[c] = cj[c]
    BY <1>m, <1>a, CreationMarked
  <2>2. Creations' = Creations /\ Deletions' = Deletions
    BY <1>m, <2>1 DEF Creations, Deletions
  <2>3. CreationReadable'
    BY <1>b, <1>m, <2>1 DEF CreationReadable, Creations
  <2>4. DeletionReadable'
    BY <1>b, <1>m, <2>2 DEF DeletionReadable
  <2>5. JournalsLeft'
    BY <1>b, <1>m, <2>2 DEF JournalsLeft
  <2>6. QED
    BY <2>3, <2>4, <2>5 DEF RecoveryInv
<1>n. ASSUME NEW st \in CheckpointDeletionState, cur \in Ckpts, dj[cur] # None,
             dj' = [dj EXCEPT ![cur].state = st], st = "Committed" => cur \notin roots,
             dj[cur].staged, pc \in DeleteSteps, pc' \in DeleteSteps \ {"markStaged"},
             UNCHANGED <<cj, roots, mode, todo, cur, chunks, snap>>
      PROVE  RecoveryInv'
  <2>1. /\ dj'[cur] # None /\ dj'[cur].state = st
        /\ \A c \in Ckpts \ {cur} : dj'[c] = dj[c]
    BY <1>n, <1>a, DeletionMarked
  <2>2. dj'[cur].staged
    <3> DEFINE j == [dj[cur] EXCEPT !.state = st]
    <3>1. j.staged /\ dj' = [dj EXCEPT ![cur] = j]
      BY <1>a, <1>n, NoneAssumption DEF CheckpointDeletionJournal
    <3> HIDE DEF j
    <3>2. QED
      BY <1>a, <1>n, <3>1
  <2>3. Creations' = Creations /\ Deletions' = Deletions
    BY <1>n, <2>1 DEF Creations, Deletions
  <2>4. CreationReadable'
    BY <1>b, <1>n, <2>3 DEF CreationReadable
  <2>5. DeletionReadable'
    BY <1>b, <1>n, <2>1, <2>2, <2>3 DEF DeletionReadable, Deletions
  <2>6. JournalsLeft'
    BY <1>b, <1>n, <2>3 DEF JournalsLeft
  <2>7. QED
    BY <2>4, <2>5, <2>6 DEF RecoveryInv
<1>1. CASE Lock
  <2>1. UNCHANGED <<cj, dj, roots>> /\ pc' # "markStaged"
    BY <1>1 DEF Lock
  <2>2. JournalsLeft'
    BY <1>1, <1>b, <2>1 DEF Lock, JournalsLeft, Creations, Deletions
  <2>3. QED
    BY <1>q, <2>1, <2>2
<1>2. CASE CreationsRecovered
  <2>1. UNCHANGED <<cj, dj, roots>> /\ pc' # "markStaged"
    BY <1>2 DEF CreationsRecovered
  <2>2. JournalsLeft'
    BY <1>2, <1>b, <2>1 DEF CreationsRecovered, JournalsLeft, Creations, Deletions
  <2>3. QED
    BY <1>q, <2>1, <2>2
<1>3. CASE DeletionsRecovered
  <2>1. UNCHANGED <<cj, dj, roots>> /\ pc' # "markStaged"
    BY <1>3 DEF DeletionsRecovered
  <2>2. JournalsLeft'
    BY <1>3, <1>b, <2>1 DEF DeletionsRecovered, JournalsLeft, Creations, Deletions
  <2>3. QED
    BY <1>q, <2>1, <2>2
<1>4. ASSUME NEW S \in Contents, BeginCreate(S) PROVE RecoveryInv'
  <2>1. UNCHANGED <<cj, dj, roots>> /\ pc' # "markStaged"
    BY <1>4 DEF BeginCreate
  <2>2. JournalsLeft'
    BY <1>4, <1>b, <2>1 DEF BeginCreate, JournalsLeft, Creations, Deletions
  <2>3. QED
    BY <1>q, <2>1, <2>2
<1>5. CASE PreloadObjects
  <2>1. UNCHANGED <<cj, dj, roots>> /\ pc' # "markStaged"
    BY <1>5 DEF PreloadObjects
  <2>2. JournalsLeft'
    BY <1>5, <1>b, <2>1 DEF PreloadObjects, JournalsLeft, Creations, Deletions
  <2>3. QED
    BY <1>q, <2>1, <2>2
<1>6. ASSUME NEW o \in Objects, StoreObject(o) PROVE RecoveryInv'
  <2>1. UNCHANGED <<cj, dj, roots>> /\ pc' # "markStaged"
    BY <1>6 DEF StoreObject
  <2>2. JournalsLeft'
    BY <1>6, <1>b, <2>1 DEF StoreObject, JournalsLeft, Creations, Deletions
  <2>3. QED
    BY <1>q, <2>1, <2>2
<1>7. CASE StoreManifest
  <2>1. UNCHANGED <<cj, dj, roots>> /\ pc' # "markStaged"
    BY <1>7 DEF StoreManifest
  <2>2. JournalsLeft'
    BY <1>7, <1>b, <2>1 DEF StoreManifest, JournalsLeft, Creations, Deletions
  <2>3. QED
    BY <1>q, <2>1, <2>2
<1>8. CASE FlushObjects
  <2>1. UNCHANGED <<cj, dj, roots>> /\ pc' # "markStaged"
    BY <1>8 DEF FlushObjects
  <2>2. JournalsLeft'
    BY <1>8, <1>b, <2>1 DEF FlushObjects, JournalsLeft, Creations, Deletions
  <2>3. QED
    BY <1>q, <2>1, <2>2
<1>9. CASE FlushManifest
  <2>1. UNCHANGED <<cj, dj, roots>> /\ pc' # "markStaged"
    BY <1>9 DEF FlushManifest
  <2>2. JournalsLeft'
    BY <1>9, <1>b, <2>1 DEF FlushManifest, JournalsLeft, Creations, Deletions
  <2>3. QED
    BY <1>q, <2>1, <2>2
<1>10. CASE AddToInventory
  <2>1. UNCHANGED <<cj, dj, roots>> /\ pc' # "markStaged"
    BY <1>10 DEF AddToInventory
  <2>2. JournalsLeft'
    BY <1>10, <1>b, <2>1 DEF AddToInventory, JournalsLeft, Creations, Deletions
  <2>3. QED
    BY <1>q, <2>1, <2>2
<1>11. CASE WriteLatest
  <2>1. UNCHANGED <<cj, dj, roots>> /\ pc' # "markStaged"
    BY <1>11 DEF WriteLatest
  <2>2. JournalsLeft'
    BY <1>11, <1>b, <2>1 DEF WriteLatest, JournalsLeft, Creations, Deletions
  <2>3. QED
    BY <1>q, <2>1, <2>2
<1>12. CASE RemoveFromInventory
  <2>1. UNCHANGED <<cj, dj, roots>> /\ pc' # "markStaged"
    BY <1>12 DEF RemoveFromInventory
  <2>2. JournalsLeft'
    BY <1>12, <1>b, <2>1 DEF RemoveFromInventory, JournalsLeft, Creations, Deletions
  <2>3. QED
    BY <1>q, <2>1, <2>2
<1>13. CASE MoveLatest
  <2>1. UNCHANGED <<cj, dj, roots>> /\ pc' # "markStaged"
    BY <1>13 DEF MoveLatest
  <2>2. JournalsLeft'
    BY <1>13, <1>b, <2>1 DEF MoveLatest, JournalsLeft, Creations, Deletions
  <2>3. QED
    BY <1>q, <2>1, <2>2
<1>14. CASE AnalyzeGc
  <2>1. UNCHANGED <<cj, dj, roots>> /\ pc' # "markStaged"
    BY <1>14 DEF AnalyzeGc
  <2>2. JournalsLeft'
    BY <1>14, <1>b, <2>1 DEF AnalyzeGc, JournalsLeft, Creations, Deletions
  <2>3. QED
    BY <1>q, <2>1, <2>2
<1>15. CASE BeginGc
  <2>1. UNCHANGED <<cj, dj, roots>> /\ pc' # "markStaged"
    BY <1>15 DEF BeginGc
  <2>2. JournalsLeft'
    BY <1>15, <1>b, <2>1 DEF BeginGc, JournalsLeft, Creations, Deletions
  <2>3. QED
    BY <1>q, <2>1, <2>2
<1>16. ASSUME NEW o \in Objects, GcDeleteObject(o) PROVE RecoveryInv'
  <2>1. UNCHANGED <<cj, dj, roots>> /\ pc' # "markStaged"
    BY <1>16 DEF GcDeleteObject
  <2>2. JournalsLeft'
    BY <1>16, <1>b, <2>1 DEF GcDeleteObject, JournalsLeft, Creations, Deletions
  <2>3. QED
    BY <1>q, <2>1, <2>2
<1>17. ASSUME NEW k \in Contents, GcDeleteChunk(k) PROVE RecoveryInv'
  <2>1. UNCHANGED <<cj, dj, roots>> /\ pc' # "markStaged"
    BY <1>17 DEF GcDeleteChunk
  <2>2. JournalsLeft'
    BY <1>17, <1>b, <2>1 DEF GcDeleteChunk, JournalsLeft, Creations, Deletions
  <2>3. QED
    BY <1>q, <2>1, <2>2
<1>18. ASSUME NEW c \in Ckpts, BeginRestore(c) PROVE RecoveryInv'
  <2>1. UNCHANGED <<cj, dj, roots>> /\ pc' # "markStaged"
    BY <1>18 DEF BeginRestore
  <2>2. JournalsLeft'
    BY <1>18, <1>b, <2>1 DEF BeginRestore, JournalsLeft, Creations, Deletions
  <2>3. QED
    BY <1>q, <2>1, <2>2
<1>19. CASE EndRestore
  <2>1. UNCHANGED <<cj, dj, roots>> /\ pc' # "markStaged"
    BY <1>19 DEF EndRestore
  <2>2. JournalsLeft'
    BY <1>19, <1>b, <2>1 DEF EndRestore, JournalsLeft, Creations, Deletions
  <2>3. QED
    BY <1>q, <2>1, <2>2
<1>20. CASE Release
  <2>1. UNCHANGED <<cj, dj, roots>> /\ pc' # "markStaged"
    BY <1>20 DEF Release
  <2>2. JournalsLeft'
    BY <1>20, <1>b, <2>1 DEF Release, JournalsLeft, Creations, Deletions
  <2>3. QED
    BY <1>q, <2>1, <2>2
<1>21. CASE PowerLoss
  <2>1. UNCHANGED <<cj, dj, roots>> /\ pc' # "markStaged"
    BY <1>21 DEF PowerLoss
  <2>2. JournalsLeft'
    BY <1>21, <1>b, <2>1 DEF PowerLoss, JournalsLeft, Creations, Deletions
  <2>3. QED
    BY <1>q, <2>1, <2>2
<1>22. CASE UNCHANGED vars
  BY <1>22 DEF vars, RecoveryInv, JournalsLeft, CreationReadable, DeletionReadable,
            Creations, Deletions
<1>23. ASSUME NEW c \in Ckpts, ResumeCreation(c) PROVE RecoveryInv'
  <2>1. /\ pc = "recoverCreations" /\ mode = "recover" /\ c \in todo /\ cj[c] # None
        /\ UNCHANGED <<cj, dj, roots, mode, todo>>
    BY <1>23, <1>a DEF ResumeCreation, JournalDriven
  <2>2. cj[c].state \in CreateJournalState
    BY <1>a, <2>1 DEF CreateJournal
  <2>3. pc' \in {"addInventory", "writeLatest", "commitCreate", "cleanupCreate"}
    BY <1>23, <2>2 DEF ResumeCreation, CreateJournalState
  <2>4. JournalsLeft'
    BY <1>b, <2>1, <2>3 DEF JournalsLeft, Creations, Deletions
  <2>5. QED
    BY <1>q, <2>1, <2>3, <2>4
<1>24. ASSUME NEW c \in Ckpts, ResumeDeletion(c) PROVE RecoveryInv'
  <2>1. /\ pc = "recoverDeletions" /\ mode = "recover" /\ c \in todo /\ dj[c] # None
        /\ UNCHANGED <<cj, dj, roots, mode, todo>>
    BY <1>24, <1>a DEF ResumeDeletion, JournalDriven
  <2>2. dj[c].state \in CheckpointDeletionState
    BY <1>a, <2>1 DEF CheckpointDeletionJournal
  <2>3. dj[c].state # "Prepared"
    <3>1. dj[c].state = "Prepared" => c \in roots
      BY <2>1 DEF ConsistencyInv, UnfinishedDeletions, DeletionProgress
    <3>2. QED
      BY <1>24, <3>1 DEF ResumeDeletion, DeletionAborts
  <2>4. pc' \in {"unlinkRoot", "removeInventory", "moveLatest", "cleanupDelete"}
    BY <1>24, <2>2, <2>3 DEF ResumeDeletion, CheckpointDeletionState
  <2>5. JournalsLeft'
    BY <1>b, <2>1, <2>4 DEF JournalsLeft, Creations, Deletions
  <2>6. QED
    BY <1>q, <2>1, <2>4, <2>5
<1>25. ASSUME NEW c \in Ckpts, AbortCreation(c) PROVE RecoveryInv'
  <2>1. /\ pc = "recoverCreations" /\ todo' = todo \ {c} /\ pc' = pc
        /\ UNCHANGED <<dj, roots, mode, cur, chunks, snap>>
    BY <1>25 DEF AbortCreation
  <2>2. cj'[c] = None /\ \A x \in Ckpts \ {c} : cj'[x] = cj[x]
    BY <1>25, <1>a DEF AbortCreation
  <2>3. JournalsLeft'
    BY <1>b, <2>1, <2>2 DEF JournalsLeft, Creations, Deletions
  <2>4. QED
    BY <1>b, <2>1, <2>2, <2>3
       DEF RecoveryInv, CreationReadable, DeletionReadable, Creations, Deletions
<1>26. ASSUME NEW c \in Ckpts, AbortDeletion(c) PROVE RecoveryInv'
  <2>1. /\ pc = "recoverDeletions" /\ todo' = todo \ {c} /\ pc' = pc
        /\ UNCHANGED <<cj, roots, mode, cur, chunks, snap>>
    BY <1>26 DEF AbortDeletion
  <2>2. dj'[c] = None /\ \A x \in Ckpts \ {c} : dj'[x] = dj[x]
    BY <1>26, <1>a DEF AbortDeletion
  <2>3. JournalsLeft'
    BY <1>b, <2>1, <2>2 DEF JournalsLeft, Creations, Deletions
  <2>4. QED
    BY <1>b, <2>1, <2>2, <2>3
       DEF RecoveryInv, CreationReadable, DeletionReadable, Creations, Deletions
<1>27. ASSUME NEW c \in Ckpts, PrepareCreate(c) PROVE RecoveryInv'
  <2> DEFINE j == [state |-> "Prepared", oldLatest |-> base, headBefore |-> head]
  <2>1. /\ pc = "prepare" /\ pc' = "publish" /\ cur' = c /\ cj' = [cj EXCEPT ![c] = j]
        /\ UNCHANGED <<dj, roots, mode, todo>>
    BY <1>27 DEF PrepareCreate
  <2>2. j.state = "Prepared"
    OBVIOUS
  <2> HIDE DEF j
  <2>3. cj'[c] = j /\ \A x \in Ckpts \ {c} : cj'[x] = cj[x]
    BY <1>a, <2>1
  <2>4. Creations = {} /\ Deletions = {} /\ mode = "run"
    BY <1>a, <1>b, <2>1 DEF JournalsLeft, JournalDriven
  <2>5. Creations' \subseteq {c} /\ Deletions' = {}
    BY <2>1, <2>3, <2>4 DEF Creations, Deletions
  <2>6. JournalsLeft'
    BY <2>1, <2>4, <2>5 DEF JournalsLeft
  <2>7. QED
    BY <2>1, <2>2, <2>3, <2>5, <2>6
       DEF RecoveryInv, CreationReadable, DeletionReadable
<1>28. CASE PublishRoot
  <2>1. /\ pc = "publish" /\ pc' = "markRoot" /\ roots \subseteq roots'
        /\ UNCHANGED <<cj, dj, mode, todo, cur>>
    BY <1>28 DEF PublishRoot
  <2>2. Deletions = {} /\ Deletions' = {} /\ Creations' = Creations
    BY <1>b, <2>1 DEF JournalsLeft, Creations, Deletions
  <2>3. JournalsLeft'
    BY <1>b, <2>1, <2>2 DEF JournalsLeft
  <2>4. QED
    BY <1>b, <2>1, <2>2, <2>3
       DEF RecoveryInv, CreationReadable, DeletionReadable
<1>29. CASE MarkRootPublished
  <2>1. /\ pc \in CreateSteps /\ pc' = "addInventory" /\ UNCHANGED <<dj, roots, mode, todo, cur, chunks, snap>>
        /\ cur \in Ckpts /\ cj[cur] # None /\ cj' = [cj EXCEPT ![cur].state = "RootPublished"]
    BY <1>29, <1>a DEF MarkRootPublished, MarkCreate, JournalDriven
  <2>2. "RootPublished" = "Committed" => cur \in roots
    BY <1>29, <2>1 DEF MarkRootPublished, MarkCreate, ConsistencyInv, CreateStep,
       CreationProgress, UnfinishedCreations
  <2>3. QED
    BY <1>m, <2>1, <2>2 DEF CreateJournalState
<1>30. CASE MarkAdded
  <2>1. /\ pc \in CreateSteps /\ pc' = "writeLatest" /\ UNCHANGED <<dj, roots, mode, todo, cur, chunks, snap>>
        /\ cur \in Ckpts /\ cj[cur] # None /\ cj' = [cj EXCEPT ![cur].state = "InventoryUpdated"]
    BY <1>30, <1>a DEF MarkAdded, MarkCreate, JournalDriven
  <2>2. "InventoryUpdated" = "Committed" => cur \in roots
    BY <1>30, <2>1 DEF MarkAdded, MarkCreate, ConsistencyInv, CreateStep, CreationProgress,
                     UnfinishedCreations
  <2>3. QED
    BY <1>m, <2>1, <2>2 DEF CreateJournalState
<1>31. CASE MarkLatestUpdated
  <2>1. /\ pc \in CreateSteps /\ pc' = "commitCreate" /\ UNCHANGED <<dj, roots, mode, todo, cur, chunks, snap>>
        /\ cur \in Ckpts /\ cj[cur] # None /\ cj' = [cj EXCEPT ![cur].state = "LatestUpdated"]
    BY <1>31, <1>a DEF MarkLatestUpdated, MarkCreate, JournalDriven
  <2>2. "LatestUpdated" = "Committed" => cur \in roots
    BY <1>31, <2>1 DEF MarkLatestUpdated, MarkCreate, ConsistencyInv, CreateStep,
       CreationProgress, UnfinishedCreations
  <2>3. QED
    BY <1>m, <2>1, <2>2 DEF CreateJournalState
<1>32. CASE CommitCreate
  <2>1. /\ pc \in CreateSteps /\ pc' = "cleanupCreate" /\ UNCHANGED <<dj, roots, mode, todo, cur, chunks, snap>>
        /\ cur \in Ckpts /\ cj[cur] # None /\ cj' = [cj EXCEPT ![cur].state = "Committed"]
    BY <1>32, <1>a DEF CommitCreate, MarkCreate, JournalDriven
  <2>2. "Committed" = "Committed" => cur \in roots
    BY <1>32, <2>1 DEF CommitCreate, MarkCreate, ConsistencyInv, CreateStep, CreationProgress,
                     UnfinishedCreations
  <2>3. QED
    BY <1>m, <2>1, <2>2 DEF CreateJournalState
<1>33. CASE CleanupCreate
  <2>1. /\ pc = "cleanupCreate" /\ cj' = [cj EXCEPT ![cur] = None] /\ cur \in Ckpts
        /\ NextJournal("recoverCreations") /\ UNCHANGED <<dj, roots, chunks, snap>>
    BY <1>33, <1>a DEF CleanupCreate, JournalDriven
  <2>2. cj'[cur] = None /\ \A x \in Ckpts \ {cur} : cj'[x] = cj[x]
    BY <1>a, <2>1
  <2>3. JournalsLeft'
    BY <1>a, <1>b, <2>1, <2>2 DEF JournalsLeft, Creations, Deletions, NextJournal, JournalDriven
  <2>4. QED
    BY <1>b, <2>1, <2>2, <2>3
       DEF RecoveryInv, CreationReadable, DeletionReadable, Creations, Deletions, NextJournal
<1>34. ASSUME NEW c \in Ckpts, BeginDelete(c) PROVE RecoveryInv'
  <2>1. PICK d : dj' = [dj EXCEPT ![c] = [state |-> "Prepared", staged |-> FALSE,
                                          newLatest |-> d, headBefore |-> head]]
    BY <1>34 DEF BeginDelete
  <2> DEFINE j == [state |-> "Prepared", staged |-> FALSE,
                   newLatest |-> d, headBefore |-> head]
  <2>2. dj' = [dj EXCEPT ![c] = j] /\ j.state = "Prepared"
    BY <2>1
  <2> HIDE DEF j
  <2>3. /\ pc = "locked" /\ pc' = "stageRoot" /\ cur' = c /\ c \in roots
        /\ UNCHANGED <<cj, roots, mode, todo, chunks, snap>>
    BY <1>34 DEF BeginDelete, Loadable
  <2>4. dj'[c] = j /\ \A x \in Ckpts \ {c} : dj'[x] = dj[x]
    BY <1>a, <2>2
  <2>5. Creations = {} /\ Deletions = {} /\ mode = "run"
    BY <1>a, <1>b, <2>3 DEF JournalsLeft, JournalDriven
  <2>6. Creations' = {} /\ Deletions' \subseteq {c}
    BY <2>3, <2>4, <2>5 DEF Creations, Deletions
  <2>7. JournalsLeft'
    BY <2>3, <2>5, <2>6 DEF JournalsLeft
  <2>8. chunks[snap[c].files] = "durable"
    BY <2>3 DEF DurableInv, PublishedIsDurable
  <2>9. QED
    BY <2>2, <2>3, <2>4, <2>6, <2>7, <2>8
       DEF RecoveryInv, CreationReadable, DeletionReadable
<1>35. CASE StageRoot
  <2>1. /\ pc = "stageRoot" /\ pc' = "markStaged" /\ cur \in Ckpts /\ dj[cur] # None
        /\ dj' = [dj EXCEPT ![cur].staged = TRUE]
        /\ UNCHANGED <<cj, roots, mode, todo, cur, chunks, snap>>
    BY <1>35, <1>a DEF StageRoot, JournalDriven
  <2> DEFINE j == [dj[cur] EXCEPT !.staged = TRUE]
  <2>2. j.staged /\ j.state = dj[cur].state /\ dj' = [dj EXCEPT ![cur] = j]
    BY <1>a, <2>1, NoneAssumption DEF CheckpointDeletionJournal
  <2> HIDE DEF j
  <2>3. dj'[cur] = j /\ \A x \in Ckpts \ {cur} : dj'[x] = dj[x]
    BY <1>a, <2>1, <2>2
  <2>4. Deletions' \subseteq Deletions /\ Creations' = Creations
    BY <2>1, <2>3 DEF Creations, Deletions
  <2>5. JournalsLeft'
    BY <1>b, <2>1, <2>4 DEF JournalsLeft
  <2>6. QED
    BY <1>b, <2>1, <2>2, <2>3, <2>4, <2>5
       DEF RecoveryInv, CreationReadable, DeletionReadable, Deletions
<1>36. CASE MarkStaged
  <2>1. /\ pc \in DeleteSteps /\ pc' = "unlinkRoot" /\ UNCHANGED <<cj, roots, mode, todo, cur, chunks, snap>>
        /\ cur \in Ckpts /\ dj[cur] # None /\ dj' = [dj EXCEPT ![cur].state = "Staged"]
    BY <1>36, <1>a DEF MarkStaged, MarkDelete, JournalDriven
  <2>2. dj[cur].staged
    BY <1>36, <1>b, <2>1 DEF MarkStaged, MarkDelete, ConsistencyInv, DeleteStep,
       DeletionReadable, Deletions
  <2>3. "Staged" = "Committed" => cur \notin roots
    BY <1>36, <2>1 DEF MarkStaged, MarkDelete, ConsistencyInv, DeleteStep, DeletionProgress,
                     UnfinishedDeletions
  <2>4. QED
    BY <1>n, <2>1, <2>2, <2>3 DEF CheckpointDeletionState
<1>37. CASE MarkRemoved
  <2>1. /\ pc \in DeleteSteps /\ pc' = "moveLatest" /\ UNCHANGED <<cj, roots, mode, todo, cur, chunks, snap>>
        /\ cur \in Ckpts /\ dj[cur] # None /\ dj' = [dj EXCEPT ![cur].state = "InventoryUpdated"]
    BY <1>37, <1>a DEF MarkRemoved, MarkDelete, JournalDriven
  <2>2. dj[cur].staged
    BY <1>37, <1>b, <2>1 DEF MarkRemoved, MarkDelete, ConsistencyInv, DeleteStep,
       DeletionReadable, Deletions
  <2>3. "InventoryUpdated" = "Committed" => cur \notin roots
    BY <1>37, <2>1 DEF MarkRemoved, MarkDelete, ConsistencyInv, DeleteStep, DeletionProgress,
                     UnfinishedDeletions
  <2>4. QED
    BY <1>n, <2>1, <2>2, <2>3 DEF CheckpointDeletionState
<1>38. CASE CommitDelete
  <2>1. /\ pc \in DeleteSteps /\ pc' = "cleanupDelete" /\ UNCHANGED <<cj, roots, mode, todo, cur, chunks, snap>>
        /\ cur \in Ckpts /\ dj[cur] # None /\ dj' = [dj EXCEPT ![cur].state = "Committed"]
    BY <1>38, <1>a DEF CommitDelete, MarkDelete, JournalDriven
  <2>2. dj[cur].staged
    BY <1>38, <1>b, <2>1 DEF CommitDelete, MarkDelete, ConsistencyInv, DeleteStep,
       DeletionReadable, Deletions
  <2>3. "Committed" = "Committed" => cur \notin roots
    BY <1>38, <2>1 DEF CommitDelete, MarkDelete, ConsistencyInv, DeleteStep, DeletionProgress,
                     UnfinishedDeletions
  <2>4. QED
    BY <1>n, <2>1, <2>2, <2>3 DEF CheckpointDeletionState
<1>39. CASE UnlinkRoot
  <2>1. /\ pc = "unlinkRoot" /\ pc' = "removeInventory" /\ roots' \subseteq roots
        /\ UNCHANGED <<cj, dj, mode, todo, cur, chunks, snap>>
    BY <1>39 DEF UnlinkRoot
  <2>2. Creations = {} /\ Creations' = {} /\ Deletions' = Deletions
    BY <1>b, <2>1 DEF JournalsLeft, Creations, Deletions
  <2>3. JournalsLeft'
    BY <1>b, <2>1, <2>2 DEF JournalsLeft
  <2>4. QED
    BY <1>b, <2>1, <2>2, <2>3
       DEF RecoveryInv, CreationReadable, DeletionReadable
<1>40. CASE CleanupDelete
  <2>1. /\ pc = "cleanupDelete" /\ dj' = [dj EXCEPT ![cur] = None] /\ cur \in Ckpts
        /\ NextJournal("recoverDeletions") /\ UNCHANGED <<cj, roots, chunks, snap>>
    BY <1>40, <1>a DEF CleanupDelete, JournalDriven
  <2>2. dj'[cur] = None /\ \A x \in Ckpts \ {cur} : dj'[x] = dj[x]
    BY <1>a, <2>1
  <2>3. JournalsLeft'
    BY <1>a, <1>b, <2>1, <2>2 DEF JournalsLeft, Creations, Deletions, NextJournal, JournalDriven
  <2>4. QED
    BY <1>b, <2>1, <2>2, <2>3
       DEF RecoveryInv, CreationReadable, DeletionReadable, Creations, Deletions, NextJournal
<1>41. CASE CommitDeleteFails
  <2>1. mode = "run" /\ UNCHANGED <<cj, dj, roots>> /\ pc' = "idle"
    BY <1>41, <1>a DEF CommitDeleteFails, NextJournal
  <2>2. JournalsLeft'
    BY <2>1 DEF JournalsLeft
  <2>3. QED
    BY <1>q, <2>1, <2>2
<1>42. QED
  BY <1>1, <1>2, <1>3, <1>4, <1>5, <1>6, <1>7, <1>8, <1>9, <1>10,
     <1>11, <1>12, <1>13, <1>14, <1>15, <1>16, <1>17, <1>18, <1>19,
     <1>20, <1>21, <1>22, <1>23, <1>24, <1>25, <1>26, <1>27, <1>28,
     <1>29, <1>30, <1>31, <1>32, <1>33, <1>34, <1>35, <1>36, <1>37,
     <1>38, <1>39, <1>40, <1>41
     DEF Next, Recovery, Create, Delete, Gc, Restore

(* Nothing an interruption leaves makes recovery refuse: every journal it  *)
(* meets can be replayed or dropped, and the compare-and-swap it replays   *)
(* is accepted.  Premises: the cleanup of a finished journal does not fail *)
(* (the warning path of cleanup_committed_create_journal is not covered),  *)
(* and a recovery finishes the deletion journals it replays (nor is the    *)
(* early Ok of finish_checkpoint_deletion).                                *)
THEOREM RecoveryGoesThrough ==
    ASSUME CleanupMayFail = FALSE, RecoveryMayNotFinalize = FALSE
    PROVE  Spec => []RecoveryNeverRefuses
<1> DEFINE Inv == TypeInv /\ DurableInv /\ ConsistencyInv /\ RecoveryInv
<1>1. Init => Inv
  BY TypeInit, DurableInit, ConsistencyInit, RecoveryInit
<1>2. Inv /\ [Next]_vars => Inv'
  BY TypeStep, DurableStep, ConsistencyStep, RecoveryStep
<1>3. Inv => RecoveryNeverRefuses
  <2> SUFFICES ASSUME Inv PROVE RecoveryNeverRefuses
    OBVIOUS
  <2>a. /\ JournalDriven /\ PublishedIsDurable /\ JournalsLeft /\ CreationReadable
        /\ DeletionReadable /\ CreateStep /\ DeleteStep
        /\ \A c \in UnfinishedCreations : CreationProgress(c)
        /\ \A c \in UnfinishedDeletions : DeletionProgress(c)
        /\ todo \subseteq Ckpts
    BY DEF TypeInv, TypeOK, DurableInv, ConsistencyInv, RecoveryInv
  <2>1. ASSUME pc = "recoverCreations", NEW c \in todo PROVE ~CreationRejected(c)
    <3>1. cj[c] # None /\ c \in Ckpts
      BY <2>1, <2>a DEF JournalDriven
    <3>2. cj[c].state = "Prepared" \/ c \in roots
      BY <2>a, <3>1 DEF CreationReadable, Creations, UnfinishedCreations, CreationProgress
    <3>3. QED
      BY <2>a, <3>2 DEF CreationRejected, CreationAborts, Loadable, PublishedIsDurable
  <2>2. ASSUME pc = "recoverDeletions", NEW c \in todo PROVE ~DeletionRejected(c)
    <3>1. dj[c] # None /\ c \in Ckpts
      BY <2>2, <2>a DEF JournalDriven
    <3>2. dj[c].state = "Prepared" => c \in roots
      BY <2>a, <3>1 DEF UnfinishedDeletions, DeletionProgress
    <3>3. dj[c].state # "Prepared" => dj[c].staged /\ (c \in roots => dj[c].state = "Staged")
      <4>1. dj[c].state # "Prepared" => dj[c].staged
        BY <2>a, <3>1 DEF DeletionReadable, Deletions
      <4>2. dj[c].state = "Committed" => c \notin roots
        BY <2>a, <3>1 DEF DeletionReadable, Deletions
      <4>3. dj[c].state = "InventoryUpdated" => c \notin roots
        BY <2>a, <3>1 DEF UnfinishedDeletions, DeletionProgress
      <4>4. dj[c].state \in CheckpointDeletionState
        BY <3>1 DEF TypeInv, TypeOK, CheckpointDeletionJournal
      <4>5. QED
        BY <4>1, <4>2, <4>3, <4>4 DEF CheckpointDeletionState
    <3>4. chunks[snap[c].files] # "absent"
      BY <2>a, <3>1 DEF DeletionReadable, Deletions
    <3>5. QED
      BY <3>2, <3>3, <3>4 DEF DeletionRejected, DeletionAborts
  <2>3. ASSUME pc = "addInventory"
        PROVE  TransitionAllowed(cj[cur].headBefore, "Add", cur)
    <3>1. /\ cur \in UnfinishedCreations
          /\ cj[cur].state \in {"Prepared", "RootPublished"}
      BY <2>3, <2>a DEF JournalDriven, CreateSteps, CreateStep, UnfinishedCreations
    <3>2. QED
      BY <2>a, <3>1 DEF CreationProgress, TransitionAllowed, MutationAllowed
  <2>4. ASSUME pc = "removeInventory"
        PROVE  TransitionAllowed(dj[cur].headBefore, "Remove", cur)
    <3>1. cur \in UnfinishedDeletions /\ dj[cur].state = "Staged"
      BY <2>4, <2>a DEF JournalDriven, DeleteSteps, DeleteStep, UnfinishedDeletions
    <3>2. QED
      BY <2>a, <3>1 DEF DeletionProgress, TransitionAllowed, MutationAllowed
  <2>5. QED
    BY <2>1, <2>2, <2>3, <2>4 DEF RecoveryNeverRefuses
<1>4. QED
  BY <1>1, <1>2, <1>3, PTL DEF Spec

-----------------------------------------------------------------------------
(* The refinement mapping. *)

(* What CurrentBar is while a creation arrives, while a deletion leaves,   *)
(* and otherwise; before a step and after it.                              *)
LEMMA CurrentIs ==
    /\ \A c : Arriving = {c} => CurrentBar = c
    /\ \A c : Arriving = {} /\ Leaving = {c} => CurrentBar = dj[c].newLatest
    /\ Arriving = {} /\ Leaving = {} => CurrentBar = latest
    /\ \A c : Arriving' = {c} => CurrentBar' = c
    /\ \A c : Arriving' = {} /\ Leaving' = {c} => CurrentBar' = dj'[c].newLatest
    /\ Arriving' = {} /\ Leaving' = {} => CurrentBar' = latest'
<1>1. \A c : (CHOOSE x \in {c} : TRUE) = c
  OBVIOUS
<1>2. QED
  BY <1>1 DEF CurrentBar

(* Only an unfinished journal makes a checkpoint arrive or leave. *)
LEMMA OnTheMove ==
    ASSUME TypeInv
    PROVE  /\ Arriving = {c \in UnfinishedCreations :
                            c \in roots /\ cj[c].state # "LatestUpdated"}
           /\ Leaving = {c \in UnfinishedDeletions : dj[c].state # "Prepared"}
<1>1. /\ \A c \in Ckpts : cj[c] # None => cj[c].state \in CreateJournalState
      /\ \A c \in Ckpts : dj[c] # None => dj[c].state \in CheckpointDeletionState
      /\ roots \subseteq Ckpts
  BY NoneAssumption DEF TypeInv, TypeOK, CreateJournal, CheckpointDeletionJournal
<1>2. QED
  BY <1>1 DEF Arriving, Leaving, UnfinishedCreations, UnfinishedDeletions,
              CreateJournalState, CheckpointDeletionState

(* What an addition has written is listed. *)
LEMMA AddedIsListed ==
    ASSUME NEW h \in Lineage, NEW c \in Ckpts, head = Extended(h, "Add", c)
    PROVE  c \in Listed
<1>1. /\ DOMAIN head = 1..(Len(h) + 1) /\ Len(h) \in Nat
      /\ head[Len(h) + 1].op = "Add" /\ head[Len(h) + 1].id = c
  BY ExtendedEntries
<1>2. Len(h) + 1 \in DOMAIN head
  BY <1>1
<1>3. QED
  BY <1>1, <1>2 DEF Listed, Added

(* An addition lists one more checkpoint, after all the others; a removal  *)
(* lists none.                                                             *)
LEMMA ListedExtended ==
    ASSUME head \in Lineage, NEW c \in Ckpts, NEW op \in {"Add", "Remove"},
           head' = Extended(head, op, c)
    PROVE  /\ Listed' = IF op = "Add" THEN Listed \cup {c} ELSE Listed
           /\ ListedOrder' = IF op = "Add" THEN ListedOrder \cup (Listed \X {c})
                                           ELSE ListedOrder
<1>1. /\ Len(head) \in Nat \ {0} /\ DOMAIN head = 1..Len(head)
      /\ DOMAIN head' = 1..(Len(head) + 1)
      /\ \A i \in 1..Len(head) : head'[i] = head[i]
      /\ head'[Len(head) + 1].op = op /\ head'[Len(head) + 1].id = c
  BY ExtendedEntries
<1>2. PICK n \in Nat :
        /\ DOMAIN head' = DOMAIN head \cup {n} /\ n \notin DOMAIN head
        /\ \A i \in DOMAIN head : i \in Nat /\ i < n /\ head'[i] = head[i]
        /\ head'[n].op = op /\ head'[n].id = c
  <2>1. Len(head) + 1 \in Nat
    BY <1>1
  <2>2. QED
    BY <1>1, <2>1
<1>3. /\ \A i \in DOMAIN head : Added(i)' <=> Added(i)
      /\ Added(n)' <=> op = "Add"
  BY <1>2 DEF Added
<1>4. Listed' = IF op = "Add" THEN Listed \cup {c} ELSE Listed
  <2>1. \A x \in Ckpts : x \in Listed' <=> x \in Listed \/ (op = "Add" /\ x = c)
    BY <1>2, <1>3 DEF Listed
  <2>2. QED
    BY <2>1 DEF Listed
<1>5. ListedOrder' = IF op = "Add" THEN ListedOrder \cup (Listed \X {c}) ELSE ListedOrder
  <2>1. ASSUME NEW x \in Ckpts, NEW y \in Ckpts
        PROVE  <<x, y>> \in ListedOrder' <=>
                 <<x, y>> \in ListedOrder \/ (op = "Add" /\ x \in Listed /\ y = c)
    <3>1. <<x, y>> \in ListedOrder' <=>
            \E i, j \in DOMAIN head \cup {n} :
               Added(i)' /\ head'[i].id = x /\ Added(j)' /\ head'[j].id = y /\ i < j
      BY <1>2 DEF ListedOrder
    <3>2. <<x, y>> \in ListedOrder <=>
            \E i, j \in DOMAIN head :
               Added(i) /\ head[i].id = x /\ Added(j) /\ head[j].id = y /\ i < j
      BY DEF ListedOrder
    <3>3. x \in Listed <=> \E i \in DOMAIN head : Added(i) /\ head[i].id = x
      BY DEF Listed
    <3>4. \A i \in DOMAIN head \cup {n} : ~(n < i)
      BY <1>2
    <3>5. ASSUME <<x, y>> \in ListedOrder'
          PROVE  <<x, y>> \in ListedOrder \/ (op = "Add" /\ x \in Listed /\ y = c)
      <4>1. PICK i \in DOMAIN head \cup {n}, j \in DOMAIN head \cup {n} :
              Added(i)' /\ head'[i].id = x /\ Added(j)' /\ head'[j].id = y /\ i < j
        BY <3>1, <3>5
      <4>2. i \in DOMAIN head
        BY <3>4, <4>1
      <4>3. CASE j \in DOMAIN head
        BY <1>2, <1>3, <3>2, <4>1, <4>2, <4>3
      <4>4. CASE j = n
        BY <1>2, <1>3, <3>3, <4>1, <4>2, <4>4
      <4>5. QED
        BY <4>3, <4>4
    <3>6. ASSUME <<x, y>> \in ListedOrder PROVE <<x, y>> \in ListedOrder'
      <4>1. PICK i \in DOMAIN head, j \in DOMAIN head :
              Added(i) /\ head[i].id = x /\ Added(j) /\ head[j].id = y /\ i < j
        BY <3>2, <3>6
      <4>2. Added(i)' /\ head'[i].id = x /\ Added(j)' /\ head'[j].id = y /\ i < j
        BY <1>2, <1>3, <4>1
      <4>3. QED
        BY <3>1, <4>2
    <3>7. ASSUME op = "Add", x \in Listed, y = c PROVE <<x, y>> \in ListedOrder'
      <4>1. PICK i \in DOMAIN head : Added(i) /\ head[i].id = x
        BY <3>3, <3>7
      <4>2. Added(i)' /\ head'[i].id = x /\ Added(n)' /\ head'[n].id = y /\ i < n
        BY <1>2, <1>3, <3>7, <4>1
      <4>3. QED
        BY <3>1, <4>2
    <3>8. QED
      BY <3>5, <3>6, <3>7
  <2>2. ListedOrder' \subseteq Ckpts \X Ckpts /\ ListedOrder \subseteq Ckpts \X Ckpts
        /\ Listed \subseteq Ckpts
    BY DEF ListedOrder, Listed
  <2>3. ASSUME NEW p \in Ckpts \X Ckpts
        PROVE  p \in ListedOrder' <=>
                 p \in ListedOrder \/ (op = "Add" /\ p[1] \in Listed /\ p[2] = c)
    <3>1. p[1] \in Ckpts /\ p[2] \in Ckpts /\ p = <<p[1], p[2]>>
      OBVIOUS
    <3>2. QED
      BY <2>1, <3>1
  <2>4. \A p \in Ckpts \X Ckpts : p \in Listed \X {c} <=> p[1] \in Listed /\ p[2] = c
    OBVIOUS
  <2>5. Listed \X {c} \subseteq Ckpts \X Ckpts
    BY <2>2
  <2>6. CASE op = "Add"
    BY <2>2, <2>3, <2>4, <2>5, <2>6
  <2>7. CASE op = "Remove"
    BY <2>2, <2>3, <2>7
  <2>8. QED
    BY <2>6, <2>7
<1>6. QED
  BY <1>4, <1>5
-----------------------------------------------------------------------------
(* Simulation. *)

(* The steps that change what the history depends on. *)
LEMMA HistoryFrame ==
    ASSUME [Next]_vars
    PROVE  \/ UNCHANGED <<roots, head, latest, cj, dj>>
           \/ \E c \in Ckpts : \/ AbortCreation(c) \/ PrepareCreate(c)
                               \/ AbortDeletion(c) \/ BeginDelete(c)
           \/ PublishRoot \/ MarkRootPublished \/ AddToInventory \/ MarkAdded
           \/ WriteLatest \/ MarkLatestUpdated \/ CommitCreate \/ CleanupCreate
           \/ StageRoot \/ MarkStaged \/ UnlinkRoot \/ RemoveFromInventory
           \/ MarkRemoved \/ MoveLatest \/ CommitDelete \/ CleanupDelete
BY DEF Next, Recovery, Create, Delete, Gc, Restore, vars, disk, control,
       Lock, ResumeCreation, CreationsRecovered, ResumeDeletion,
       DeletionsRecovered, BeginCreate, PreloadObjects, StoreObject, StoreManifest,
       FlushObjects, FlushManifest, AnalyzeGc, BeginGc, GcDeleteObject, GcDeleteChunk,
       BeginRestore, EndRestore, Release, PowerLoss, CommitDeleteFails

(* Where refs/latest goes when c is deleted is the youngest of what is     *)
(* left: the parent if it is left, since nothing between the two is.       *)
LEMMA SuccessorChosen ==
    ASSUME NEW c \in Ckpts, c \in roots, InventorySet(head) = roots,
           LatestFits(latest, roots), Arriving = {}, Leaving = {},
           CurrentIsYoungest, ParentIsYoungest, ListsWhatItAdded, head \in Lineage,
           NEW d \in ProjectSnapshotRemoval(c)
    PROVE  d \in History!Youngest(roots \ {c})
<1>1. LiveBar = roots /\ CurrentBar = latest /\ latest \in roots
  BY CurrentIs DEF LiveBar, LatestFits
<1>2. \A x \in roots \ {latest} : <<x, latest>> \in OlderBar
  BY <1>1 DEF CurrentIsYoungest, History!Youngest
<1>3. CASE latest # c
  <2>1. d = latest
    BY <1>3 DEF ProjectSnapshotRemoval
  <2>2. QED
    BY <1>1, <1>2, <1>3, <2>1 DEF History!Youngest
<1>4. CASE roots \ {c} = {}
  <2>1. latest = c
    BY <1>1, <1>4
  <2>2. d = None
    BY <1>4, <2>1 DEF ProjectSnapshotRemoval
  <2>3. QED
    BY <1>4, <2>2 DEF History!Youngest
<1>5. CASE latest = c /\ roots \ {c} # {} /\ snap[c].parent \in roots \ {c}
  <2>1. d = snap[c].parent
    BY <1>5 DEF ProjectSnapshotRemoval
  <2>2. \A x \in roots \ {c} : x = snap[c].parent \/ <<x, snap[c].parent>> \in OlderBar
    BY <1>2, <1>5 DEF ParentIsYoungest
  <2>3. QED
    BY <1>5, <2>1, <2>2 DEF History!Youngest
<1>6. CASE latest = c /\ roots \ {c} # {} /\ snap[c].parent \notin roots \ {c}
  <2>1. d \in NewestSurvivor(roots \ {c})
    BY <1>6 DEF ProjectSnapshotRemoval
  <2>2. PICK k \in DOMAIN head :
          /\ head[k].op = "Add" /\ head[k].id \in roots \ {c} /\ d = head[k].id
          /\ \A j \in DOMAIN head :
               head[j].op = "Add" /\ head[j].id \in roots \ {c} => j <= k
    BY <2>1 DEF NewestSurvivor
  <2>3. ASSUME NEW x \in (roots \ {c}) \ {d} PROVE <<x, d>> \in OlderBar
    <3>1. x \in Listed /\ x \in Ckpts
      BY DEF ListsWhatItAdded, Listed
    <3>2. PICK j \in DOMAIN head : Added(j) /\ head[j].id = x
      BY <3>1 DEF Listed
    <3>3. d \in Ckpts
      BY <2>2 DEF ListsWhatItAdded, Listed
    <3>4. j <= k /\ j # k
      BY <2>2, <3>2 DEF Added
    <3>5. j \in Int /\ k \in Int
      <4>1. head \in Seq(InventoryState)
        BY DEF Lineage
      <4>2. QED
        BY <4>1
    <3>6. j < k
      BY <3>4, <3>5
    <3>7. <<x, d>> \in ListedOrder
      BY <2>2, <3>1, <3>2, <3>3, <3>6 DEF ListedOrder, Added
    <3>8. QED
      BY <3>7 DEF OlderBar
  <2>4. QED
    BY <1>6, <2>2, <2>3 DEF History!Youngest
<1>7. QED
  BY <1>3, <1>4, <1>5, <1>6
(* Every step of the repository is a step of the history or leaves it      *)
(* alone, and keeps the youngest of what is left the current checkpoint.   *)
LEMMA HistoryStep ==
    ASSUME TypeInv, TypeInv', ConsistencyInv, LineageInv, HistoryInv, [Next]_vars
    PROVE  [History!Next]_(History!vars) /\ HistoryInv'
<1> DEFINE Goal == [History!Next]_(History!vars) /\ HistoryInv'
<1>a. /\ cj \in [Ckpts -> CreateJournal \cup {None}]
      /\ dj \in [Ckpts -> CheckpointDeletionJournal \cup {None}]
      /\ roots \subseteq Ckpts /\ head \in Lineage /\ JournalDriven /\ BytesKnown
  BY DEF TypeInv, TypeOK
<1>b. /\ OneUnfinished /\ Phase /\ Agreement /\ CreateStep /\ DeleteStep
      /\ \A c \in UnfinishedCreations : CreationProgress(c)
      /\ \A c \in UnfinishedDeletions : DeletionProgress(c)
  BY DEF ConsistencyInv
<1>c. /\ CurrentIsYoungest /\ ParentIsYoungest /\ SuccessorIsYoungest
      /\ ListsWhatItAdded /\ ParentIsOldLatest
  BY DEF HistoryInv
<1>d. /\ Arriving = {c \in UnfinishedCreations : c \in roots /\ cj[c].state # "LatestUpdated"}
      /\ Leaving = {c \in UnfinishedDeletions : dj[c].state # "Prepared"}
  BY OnTheMove
<1>e. \A c \in Ckpts : c \in roots \/ cj[c] # None => snap'[c] = snap[c]
  BY <1>a, BytesKept DEF BytesKnown
<1>f. /\ \A c \in Ckpts : cj[c] # None => cj[c].headBefore \in Lineage
      /\ \A c \in Ckpts : dj[c] # None => dj[c].headBefore \in Lineage
  BY <1>a, NoneAssumption DEF CreateJournal, CheckpointDeletionJournal
<1>q. ASSUME CreatedBar' = CreatedBar, OlderBar' = OlderBar, LiveBar' = LiveBar,
             CurrentBar' = CurrentBar, roots' \subseteq roots,
             SuccessorIsYoungest', ListsWhatItAdded', ParentIsOldLatest'
      PROVE  Goal
  <2>1. UNCHANGED History!vars
    BY <1>q DEF History!vars
  <2>2. CurrentIsYoungest'
    BY <1>c, <1>q DEF CurrentIsYoungest, History!Youngest
  <2>3. ParentIsYoungest'
    BY <1>a, <1>c, <1>e, <1>q DEF ParentIsYoungest
  <2>4. QED
    BY <1>q, <2>1, <2>2, <2>3 DEF HistoryInv
<1>r. ASSUME head' = head
      PROVE  Listed' = Listed /\ ListedOrder' = ListedOrder /\ ListsWhatItAdded'
  <2>1. Listed' = Listed /\ ListedOrder' = ListedOrder
    BY <1>r DEF Listed, ListedOrder, Added
  <2>2. QED
    BY <1>c, <1>r, <2>1 DEF ListsWhatItAdded, InventorySet
<1>s. ASSUME head' = head, Arriving' = Arriving
      PROVE  CreatedBar' = CreatedBar /\ OlderBar' = OlderBar
  BY <1>r, <1>s DEF CreatedBar, OlderBar
<1>t. ASSUME OlderBar' = OlderBar,
             \A c \in UnfinishedDeletions' : /\ c \in UnfinishedDeletions
                                             /\ dj'[c].newLatest = dj[c].newLatest
                                             /\ roots' \ {c} = roots \ {c}
      PROVE  SuccessorIsYoungest'
  BY <1>c, <1>t DEF SuccessorIsYoungest, History!Youngest
<1>u. ASSUME \A c \in UnfinishedCreations' : /\ c \in UnfinishedCreations
                                             /\ cj'[c].oldLatest = cj[c].oldLatest
      PROVE  ParentIsOldLatest'
  <2>1. \A c \in UnfinishedCreations : snap'[c] = snap[c]
    BY <1>e DEF UnfinishedCreations
  <2>2. QED
    BY <1>c, <1>u, <2>1 DEF ParentIsOldLatest
<1>v. ASSUME UNCHANGED <<head, dj>>, roots' = roots, Arriving' = Arriving,
             CurrentBar' = CurrentBar, ParentIsOldLatest'
      PROVE  Goal
  <2>1. Leaving' = Leaving /\ UnfinishedDeletions' = UnfinishedDeletions
    BY <1>v DEF Leaving, UnfinishedDeletions
  <2>2. LiveBar' = LiveBar
    BY <1>v, <2>1 DEF LiveBar
  <2>3. CreatedBar' = CreatedBar /\ OlderBar' = OlderBar /\ ListsWhatItAdded'
    BY <1>r, <1>s, <1>v
  <2>4. SuccessorIsYoungest'
    BY <1>t, <1>v, <2>1, <2>3
  <2>5. QED
    BY <1>q, <1>v, <2>2, <2>3, <2>4
<1>w. ASSUME UNCHANGED <<head, cj>>, Arriving = {}, Arriving' = {}, Leaving' = Leaving,
             roots' \ Leaving' = roots \ Leaving, roots' \subseteq roots,
             CurrentBar' = CurrentBar,
             \A c \in UnfinishedDeletions' : /\ c \in UnfinishedDeletions
                                             /\ dj'[c].newLatest = dj[c].newLatest
                                             /\ roots' \ {c} = roots \ {c}
      PROVE  Goal
  <2>1. LiveBar' = LiveBar
    BY <1>w DEF LiveBar
  <2>2. CreatedBar' = CreatedBar /\ OlderBar' = OlderBar /\ ListsWhatItAdded'
    BY <1>r, <1>s, <1>w
  <2>3. SuccessorIsYoungest'
    BY <1>t, <1>w, <2>2
  <2>4. ParentIsOldLatest'
    BY <1>u, <1>w DEF UnfinishedCreations
  <2>5. QED
    BY <1>q, <1>w, <2>1, <2>2, <2>3, <2>4
<1>1. CASE UNCHANGED <<roots, head, latest, cj, dj>>
  <2>1. Arriving' = Arriving /\ CurrentBar' = CurrentBar
    BY <1>1 DEF Arriving, Leaving, CurrentBar
  <2>2. ParentIsOldLatest'
    BY <1>1, <1>u DEF UnfinishedCreations
  <2>3. QED
    BY <1>1, <1>v, <2>1, <2>2
<1>2. ASSUME NEW c \in Ckpts, AbortCreation(c) PROVE Goal
  <2>1. /\ c \notin roots /\ cj' = [cj EXCEPT ![c] = None]
        /\ UNCHANGED <<roots, head, latest, dj>>
    BY <1>2 DEF AbortCreation, CreationAborts
  <2>2. cj'[c] = None /\ \A x \in Ckpts \ {c} : cj'[x] = cj[x]
    BY <1>a, <2>1
  <2>3. Arriving' = Arriving
    BY <1>a, <2>1, <2>2 DEF Arriving
  <2>4. CurrentBar' = CurrentBar
    BY <2>1, <2>3 DEF CurrentBar, Leaving
  <2>5. ParentIsOldLatest'
    BY <1>u, <2>2 DEF UnfinishedCreations
  <2>6. QED
    BY <1>v, <2>1, <2>3, <2>4, <2>5
<1>3. ASSUME NEW c \in Ckpts, PrepareCreate(c) PROVE Goal
  <2> DEFINE j == [state |-> "Prepared", oldLatest |-> base, headBefore |-> head]
             b == [files |-> files, parent |-> base]
  <2>1. /\ snap[c] = None /\ cj' = [cj EXCEPT ![c] = j] /\ snap' = [snap EXCEPT ![c] = b]
        /\ UNCHANGED <<roots, head, latest, dj>>
    BY <1>3 DEF PrepareCreate
  <2>2. j.oldLatest = base /\ b.parent = base
    OBVIOUS
  <2> HIDE DEF j, b
  <2>3. c \notin roots /\ cj[c] = None
    BY <1>a, <2>1 DEF BytesKnown
  <2>4. cj'[c] = j /\ (\A x \in Ckpts \ {c} : cj'[x] = cj[x]) /\ snap'[c] = b
    BY <1>a, <2>1 DEF TypeInv, TypeOK
  <2>5. Arriving' = Arriving
    BY <1>a, <2>1, <2>3, <2>4 DEF Arriving
  <2>6. CurrentBar' = CurrentBar
    BY <2>1, <2>5 DEF CurrentBar, Leaving
  <2>7. ParentIsOldLatest'
    BY <1>c, <1>e, <2>2, <2>4 DEF ParentIsOldLatest, UnfinishedCreations
  <2>8. QED
    BY <1>v, <2>1, <2>5, <2>6, <2>7
<1>4. CASE PublishRoot
  <2>1. /\ pc = "publish" /\ roots' = roots \cup {cur}
        /\ UNCHANGED <<snap, head, latest, cj, dj>>
    BY <1>4 DEF PublishRoot
  <2>2. /\ cur \in Ckpts /\ cj[cur] # None /\ cj[cur].state = "Prepared"
    BY <1>a, <1>b, <2>1 DEF JournalDriven, CreateSteps, CreateStep
  <2>3. CASE cur \in roots
    BY <1>1, <2>1, <2>3
  <2>4. CASE cur \notin roots
    <3>1. PICK c \in Ckpts : c = cur
      BY <2>2
    <3>2. UnfinishedCreations = {c} /\ UnfinishedDeletions = {} /\ CreationProgress(c)
      BY <1>b, <2>2, <3>1 DEF UnfinishedCreations, OneUnfinished
    <3>3. Arriving = {} /\ Leaving = {}
      BY <1>d, <2>4, <3>1, <3>2
    <3>4. Arriving' = {c} /\ Leaving' = {}
      <4>1. Leaving' = Leaving
        BY <2>1 DEF Leaving
      <4>2. \A x \in roots : x \notin Arriving
        BY <3>3
      <4>3. QED
        BY <2>1, <2>2, <3>1, <3>3, <4>1, <4>2 DEF Arriving
    <3>5. /\ head = cj[c].headBefore /\ InventorySet(head) = roots
          /\ latest = cj[c].oldLatest
      <4>1. roots \ {c} = roots
        BY <2>4, <3>1
      <4>2. QED
        BY <2>2, <2>4, <3>1, <3>2, <4>1 DEF CreationProgress
    <3>6. c \notin Listed
      BY <2>2, <3>1, <3>2, <3>5 DEF LineageInv, NewToTheLineage, Listed
    <3>7. roots \subseteq Listed /\ Listed \subseteq Ckpts
      BY <1>c, <3>5 DEF ListsWhatItAdded, Listed
    <3>8. Listed' = Listed /\ ListedOrder' = ListedOrder /\ ListsWhatItAdded'
      BY <1>r, <2>1
    <3>9. CreatedBar = Listed /\ OlderBar = ListedOrder
      BY <3>3 DEF CreatedBar, OlderBar
    <3>10. CreatedBar' = CreatedBar \cup {c} /\ OlderBar' = OlderBar \cup (CreatedBar \X {c})
      <4>1. Arriving' \ Listed' = {c}
        BY <3>4, <3>6, <3>8
      <4>2. QED
        BY <3>4, <3>8, <3>9, <4>1 DEF CreatedBar, OlderBar
    <3>11. LiveBar = roots /\ LiveBar' = roots \cup {c}
      BY <2>1, <3>1, <3>3, <3>4 DEF LiveBar
    <3>12. CurrentBar = latest /\ CurrentBar' = c
      BY <3>3, <3>4, CurrentIs
    <3>13. History!Create(c)
      BY <3>6, <3>9, <3>10, <3>11, <3>12 DEF History!Create
    <3>14. CurrentIsYoungest'
      <4>1. \A d \in (roots \cup {c}) \ {c} : <<d, c>> \in OlderBar'
        BY <3>7, <3>9, <3>10
      <4>2. QED
        BY <3>11, <3>12, <4>1 DEF CurrentIsYoungest, History!Youngest
    <3>15. ParentIsYoungest'
      <4> SUFFICES ASSUME NEW x \in roots', NEW d \in roots', <<d, x>> \in OlderBar'
                   PROVE  d = snap'[x].parent \/ <<d, snap'[x].parent>> \in OlderBar'
        BY DEF ParentIsYoungest
      <4>1. CASE <<d, x>> \in ListedOrder
        <5>1. d \in Listed /\ x \in Listed
          BY <4>1 DEF ListedOrder, Listed
        <5>2. d \in roots /\ x \in roots
          BY <2>1, <3>1, <3>6, <5>1
        <5>3. d = snap[x].parent \/ <<d, snap[x].parent>> \in OlderBar
          BY <1>c, <3>9, <4>1, <5>2 DEF ParentIsYoungest
        <5>4. QED
          BY <2>1, <3>10, <5>3
      <4>2. CASE <<d, x>> \in CreatedBar \X {c}
        <5>1. x = c /\ d \in Listed
          BY <3>9, <4>2
        <5>2. d \in roots
          BY <2>1, <3>1, <3>6, <5>1
        <5>3. d = latest \/ <<d, latest>> \in OlderBar
          BY <1>c, <3>11, <3>12, <5>2 DEF CurrentIsYoungest, History!Youngest
        <5>4. snap'[c].parent = latest
          BY <1>c, <2>1, <3>2, <3>5 DEF ParentIsOldLatest
        <5>5. QED
          BY <3>10, <5>1, <5>3, <5>4
      <4>3. QED
        BY <3>9, <3>10, <4>1, <4>2
    <3>16. SuccessorIsYoungest'
      <4>1. UnfinishedDeletions' = {}
        BY <2>1, <3>2 DEF UnfinishedDeletions
      <4>2. QED
        BY <4>1 DEF SuccessorIsYoungest
    <3>17. ParentIsOldLatest'
      BY <1>u, <2>1 DEF UnfinishedCreations
    <3>18. QED
      BY <3>8, <3>13, <3>14, <3>15, <3>16, <3>17 DEF HistoryInv, History!Next
  <2>5. QED
    BY <2>3, <2>4
<1>5. CASE MarkRootPublished
  <2>1. /\ cur \in Ckpts /\ cj[cur] # None
        /\ cj' = [cj EXCEPT ![cur].state = "RootPublished"] /\ UNCHANGED <<roots, head, latest, dj>>
    BY <1>5, <1>a DEF MarkRootPublished, MarkCreate, JournalDriven, CreateSteps
  <2>2. cj[cur].state \in {"Prepared"}
    BY <1>5, <1>b DEF MarkRootPublished, MarkCreate, CreateStep
  <2>3. /\ cj'[cur] # None /\ cj'[cur].state = "RootPublished"
        /\ cj'[cur].oldLatest = cj[cur].oldLatest
        /\ \A c \in Ckpts \ {cur} : cj'[c] = cj[c]
    BY <1>a, <2>1, CreationMarked DEF CreateJournalState
  <2>4. Arriving' = Arriving
    BY <1>a, <2>1, <2>2, <2>3 DEF Arriving
  <2>5. CurrentBar' = CurrentBar
    BY <2>1, <2>4 DEF CurrentBar, Leaving
  <2>6. ParentIsOldLatest'
    BY <1>u, <2>1, <2>2, <2>3 DEF UnfinishedCreations
  <2>7. QED
    BY <1>v, <2>1, <2>4, <2>5, <2>6
<1>6. CASE MarkAdded
  <2>1. /\ cur \in Ckpts /\ cj[cur] # None
        /\ cj' = [cj EXCEPT ![cur].state = "InventoryUpdated"] /\ UNCHANGED <<roots, head, latest, dj>>
    BY <1>6, <1>a DEF MarkAdded, MarkCreate, JournalDriven, CreateSteps
  <2>2. cj[cur].state \in {"Prepared", "RootPublished"}
    BY <1>6, <1>b DEF MarkAdded, MarkCreate, CreateStep
  <2>3. /\ cj'[cur] # None /\ cj'[cur].state = "InventoryUpdated"
        /\ cj'[cur].oldLatest = cj[cur].oldLatest
        /\ \A c \in Ckpts \ {cur} : cj'[c] = cj[c]
    BY <1>a, <2>1, CreationMarked DEF CreateJournalState
  <2>4. Arriving' = Arriving
    BY <1>a, <2>1, <2>2, <2>3 DEF Arriving
  <2>5. CurrentBar' = CurrentBar
    BY <2>1, <2>4 DEF CurrentBar, Leaving
  <2>6. ParentIsOldLatest'
    BY <1>u, <2>1, <2>2, <2>3 DEF UnfinishedCreations
  <2>7. QED
    BY <1>v, <2>1, <2>4, <2>5, <2>6
<1>7. CASE AddToInventory
  <2>1. /\ cur \in Ckpts /\ cj[cur] # None /\ cur \in roots
        /\ UNCHANGED <<roots, latest, cj, dj>>
        /\ head' = Extended(cj[cur].headBefore, "Add", cur)
        /\ cj[cur].state \in {"Prepared", "RootPublished"}
        /\ head \in {cj[cur].headBefore, Extended(cj[cur].headBefore, "Add", cur)}
    BY <1>7, <1>a, <1>b DEF AddToInventory, TransitionAllowed, JournalDriven,
                            CreateSteps, CreateStep
  <2>2. CASE head' = head
    BY <1>1, <2>1, <2>2
  <2>3. CASE head = cj[cur].headBefore
    <3>1. PICK c \in Ckpts : c = cur
      BY <2>1
    <3>2. UnfinishedCreations = {c} /\ UnfinishedDeletions = {}
      BY <1>b, <2>1, <3>1 DEF UnfinishedCreations, OneUnfinished
    <3>3. Arriving = {c}
      BY <1>d, <2>1, <3>1, <3>2
    <3>4. Arriving' = {c} /\ Leaving' = Leaving
      BY <2>1, <3>3 DEF Arriving, Leaving
    <3>5. c \notin Listed
      BY <2>1, <2>3, <3>1, <3>2 DEF LineageInv, NewToTheLineage, Listed
    <3>6. Listed' = Listed \cup {c} /\ ListedOrder' = ListedOrder \cup (Listed \X {c})
      <4>1. head' = Extended(head, "Add", c)
        BY <2>1, <2>3, <3>1
      <4>2. QED
        BY <1>a, <4>1, ListedExtended
    <3>7. CreatedBar' = CreatedBar
      BY <3>3, <3>4, <3>6 DEF CreatedBar
    <3>8. OlderBar' = OlderBar
      <4>1. Arriving' \ Listed' = {} /\ Arriving \ Listed = {c}
        BY <3>3, <3>4, <3>5, <3>6
      <4>2. QED
        BY <3>6, <4>1 DEF OlderBar
    <3>9. LiveBar' = LiveBar
      BY <2>1, <3>4 DEF LiveBar
    <3>10. CurrentBar' = CurrentBar
      BY <3>3, <3>4, CurrentIs
    <3>11. ListsWhatItAdded'
      <4>1. InventorySet(head') = InventorySet(head) \cup {c}
        BY <1>a, <2>1, <2>3, <3>1, ExtendedSet
      <4>2. QED
        BY <1>c, <3>6, <4>1 DEF ListsWhatItAdded
    <3>12. SuccessorIsYoungest'
      BY <1>t, <2>1, <3>8 DEF UnfinishedDeletions
    <3>13. ParentIsOldLatest'
      BY <1>u, <2>1 DEF UnfinishedCreations
    <3>14. QED
      BY <1>q, <2>1, <3>7, <3>8, <3>9, <3>10, <3>11, <3>12, <3>13
  <2>4. QED
    BY <2>1, <2>2, <2>3
<1>8. CASE WriteLatest
  <2>1. /\ cur \in Ckpts /\ cj[cur] # None /\ cj[cur].state = "InventoryUpdated"
        /\ UNCHANGED <<roots, head, cj, dj>>
    BY <1>8, <1>a, <1>b DEF WriteLatest, JournalDriven, CreateSteps, CreateStep
  <2>2. PICK c \in Ckpts : c = cur
    BY <2>1
  <2>3. UnfinishedCreations = {c} /\ c \in roots
    BY <1>b, <2>1, <2>2 DEF UnfinishedCreations, OneUnfinished, CreationProgress
  <2>4. Arriving = {c}
    BY <1>d, <2>1, <2>2, <2>3
  <2>5. Arriving' = {c}
    BY <2>1, <2>4 DEF Arriving
  <2>6. CurrentBar' = CurrentBar
    BY <2>4, <2>5, CurrentIs
  <2>7. ParentIsOldLatest'
    BY <1>u, <2>1 DEF UnfinishedCreations
  <2>8. QED
    BY <1>v, <2>1, <2>4, <2>5, <2>6, <2>7
<1>9. CASE MarkLatestUpdated
  <2>1. /\ cur \in Ckpts /\ cj[cur] # None
        /\ cj' = [cj EXCEPT ![cur].state = "LatestUpdated"] /\ UNCHANGED <<roots, head, latest, dj>>
    BY <1>9, <1>a DEF MarkLatestUpdated, MarkCreate, JournalDriven, CreateSteps
  <2>2. cj[cur].state = "InventoryUpdated" /\ latest = cur
    BY <1>9, <1>b DEF MarkLatestUpdated, MarkCreate, CreateStep
  <2>3. /\ cj'[cur] # None /\ cj'[cur].state = "LatestUpdated"
        /\ cj'[cur].oldLatest = cj[cur].oldLatest
        /\ \A c \in Ckpts \ {cur} : cj'[c] = cj[c]
    BY <1>a, <2>1, CreationMarked DEF CreateJournalState
  <2>4. PICK c \in Ckpts : c = cur
    BY <2>1
  <2>5. UnfinishedCreations = {c} /\ UnfinishedDeletions = {} /\ CreationProgress(c)
    BY <1>b, <2>1, <2>2, <2>4 DEF UnfinishedCreations, OneUnfinished
  <2>6. Arriving = {c} /\ Leaving = {}
    BY <1>d, <2>2, <2>4, <2>5 DEF CreationProgress
  <2>7. Arriving' = {} /\ Leaving' = {}
    <3>1. \A x \in roots : x # c => x \notin Arriving'
      BY <1>a, <2>3, <2>4, <2>6 DEF Arriving
    <3>2. c \notin Arriving'
      BY <2>3, <2>4 DEF Arriving
    <3>3. Arriving' \subseteq roots /\ Leaving' = Leaving
      BY <2>1 DEF Arriving, Leaving
    <3>4. QED
      BY <2>6, <3>1, <3>2, <3>3
  <2>8. CurrentBar' = CurrentBar
    BY <2>1, <2>2, <2>4, <2>6, <2>7, CurrentIs
  <2>9. c \in Listed
    <3>1. head = Extended(cj[c].headBefore, "Add", c)
      BY <2>2, <2>4, <2>5 DEF CreationProgress
    <3>2. QED
      BY <1>f, <2>1, <2>4, <3>1, AddedIsListed
  <2>10. /\ Listed' = Listed /\ ListedOrder' = ListedOrder /\ ListsWhatItAdded'
    BY <1>r, <2>1
  <2>11. CreatedBar' = CreatedBar
    BY <2>6, <2>7, <2>9, <2>10 DEF CreatedBar
  <2>12. OlderBar' = OlderBar
    <3>1. Arriving \ Listed = {} /\ Arriving' \ Listed' = {}
      BY <2>6, <2>7, <2>9, <2>10
    <3>2. QED
      BY <2>10, <3>1 DEF OlderBar
  <2>13. LiveBar' = LiveBar
    BY <2>1, <2>6, <2>7 DEF LiveBar
  <2>14. SuccessorIsYoungest'
    BY <1>t, <2>1, <2>12 DEF UnfinishedDeletions
  <2>15. ParentIsOldLatest'
    BY <1>u, <2>1, <2>2, <2>3 DEF UnfinishedCreations
  <2>16. QED
    BY <1>q, <2>1, <2>8, <2>10, <2>11, <2>12, <2>13, <2>14, <2>15
<1>10. CASE CommitCreate
  <2>1. /\ cur \in Ckpts /\ cj[cur] # None
        /\ cj' = [cj EXCEPT ![cur].state = "Committed"] /\ UNCHANGED <<roots, head, latest, dj>>
    BY <1>10, <1>a DEF CommitCreate, MarkCreate, JournalDriven, CreateSteps
  <2>2. cj[cur].state = "LatestUpdated"
    BY <1>10, <1>b DEF CommitCreate, MarkCreate, CreateStep
  <2>3. /\ cj'[cur] # None /\ cj'[cur].state = "Committed"
        /\ cj'[cur].oldLatest = cj[cur].oldLatest
        /\ \A c \in Ckpts \ {cur} : cj'[c] = cj[c]
    BY <1>a, <2>1, CreationMarked DEF CreateJournalState
  <2>4. Arriving' = Arriving
    BY <1>a, <2>1, <2>2, <2>3 DEF Arriving
  <2>5. CurrentBar' = CurrentBar
    BY <2>1, <2>4 DEF CurrentBar, Leaving
  <2>6. ParentIsOldLatest'
    BY <1>u, <2>1, <2>2, <2>3 DEF UnfinishedCreations
  <2>7. QED
    BY <1>v, <2>1, <2>4, <2>5, <2>6
<1>11. CASE CleanupCreate
  <2>1. /\ cur \in Ckpts /\ cj[cur] # None /\ cj[cur].state = "Committed"
        /\ cj' \in {cj, [cj EXCEPT ![cur] = None]}
        /\ UNCHANGED <<roots, head, latest, dj>>
    BY <1>11, <1>a, <1>b DEF CleanupCreate, JournalDriven, CreateSteps, CreateStep
  <2>2. cj'[cur] \in {cj[cur], None} /\ \A x \in Ckpts \ {cur} : cj'[x] = cj[x]
    BY <1>a, <2>1
  <2>3. Arriving' = Arriving
    BY <1>a, <2>1, <2>2 DEF Arriving
  <2>4. CurrentBar' = CurrentBar
    BY <2>1, <2>3 DEF CurrentBar, Leaving
  <2>5. ParentIsOldLatest'
    BY <1>u, <2>1, <2>2 DEF UnfinishedCreations
  <2>6. QED
    BY <1>v, <2>1, <2>3, <2>4, <2>5
<1>12. ASSUME NEW c \in Ckpts, BeginDelete(c) PROVE Goal
  <2>1. PICK d \in ProjectSnapshotRemoval(c) :
          dj' = [dj EXCEPT ![c] = [state |-> "Prepared", staged |-> FALSE,
                                   newLatest |-> d, headBefore |-> head]]
    BY <1>12 DEF BeginDelete
  <2> DEFINE j == [state |-> "Prepared", staged |-> FALSE,
                   newLatest |-> d, headBefore |-> head]
  <2>2. dj' = [dj EXCEPT ![c] = j] /\ j.state = "Prepared" /\ j.newLatest = d
    BY <2>1
  <2> HIDE DEF j
  <2>3. pc = "locked" /\ c \in roots /\ UNCHANGED <<roots, head, latest, cj>>
    BY <1>12 DEF BeginDelete, Loadable
  <2>4. dj'[c] = j /\ \A x \in Ckpts \ {c} : dj'[x] = dj[x]
    BY <1>a, <2>2
  <2>5. UnfinishedCreations = {} /\ UnfinishedDeletions = {}
    BY <1>b, <2>3 DEF Phase
  <2>6. InventorySet(head) = roots /\ LatestFits(latest, roots)
    BY <1>b, <2>5 DEF Agreement
  <2>7. Arriving = {} /\ Leaving = {}
    BY <1>d, <2>5
  <2>8. Arriving' = {} /\ Leaving' = {}
    <3>1. \A x \in Ckpts : x # c => x \notin Leaving'
      BY <2>4, <2>7 DEF Leaving
    <3>2. c \notin Leaving'
      BY <2>2, <2>4 DEF Leaving
    <3>3. QED
      BY <2>3, <2>7, <3>1, <3>2 DEF Arriving, Leaving
  <2>9. CurrentBar' = CurrentBar
    BY <2>3, <2>7, <2>8, CurrentIs
  <2>10. CreatedBar' = CreatedBar /\ OlderBar' = OlderBar /\ ListsWhatItAdded'
    BY <1>r, <1>s, <2>3, <2>7, <2>8
  <2>11. LiveBar' = LiveBar
    BY <2>3, <2>7, <2>8 DEF LiveBar
  <2>12. d \in History!Youngest(roots \ {c})
    BY <1>a, <1>c, <2>3, <2>6, <2>7, SuccessorChosen
  <2>13. UnfinishedDeletions' \subseteq {c}
    BY <2>4, <2>5 DEF UnfinishedDeletions
  <2>14. SuccessorIsYoungest'
    BY <2>2, <2>3, <2>4, <2>10, <2>12, <2>13 DEF SuccessorIsYoungest, History!Youngest
  <2>15. ParentIsOldLatest'
    BY <1>u, <2>3 DEF UnfinishedCreations
  <2>16. QED
    BY <1>q, <2>3, <2>9, <2>10, <2>11, <2>14, <2>15
<1>13. ASSUME NEW c \in Ckpts, AbortDeletion(c) PROVE Goal
  <2>1. /\ pc = "recoverDeletions" /\ dj[c].state = "Prepared"
        /\ dj' = [dj EXCEPT ![c] = None] /\ UNCHANGED <<roots, head, latest, cj>>
    BY <1>13 DEF AbortDeletion, DeletionAborts
  <2>2. dj'[c] = None /\ \A x \in Ckpts \ {c} : dj'[x] = dj[x]
    BY <1>a, <2>1
  <2>3. Arriving = {} /\ Arriving' = {}
    <3>1. Arriving = {}
      BY <1>b, <1>d, <2>1 DEF Phase
    <3>2. QED
      BY <2>1, <3>1 DEF Arriving
  <2>4. Leaving' = Leaving
    BY <2>1, <2>2 DEF Leaving
  <2>5. c \notin Leaving
    BY <2>1 DEF Leaving
  <2>6. CurrentBar' = CurrentBar
    <3>1. \A x \in Leaving : dj'[x] = dj[x]
      BY <2>2, <2>5 DEF Leaving
    <3>2. CASE Leaving = {}
      BY <2>1, <2>3, <2>4, <3>2, CurrentIs
    <3>3. CASE Leaving # {}
      <4>1. PICK x \in Ckpts : Leaving = {x}
        BY <1>b, <1>d, <3>3 DEF OneUnfinished, UnfinishedDeletions
      <4>2. QED
        BY <2>3, <2>4, <3>1, <4>1, CurrentIs
    <3>4. QED
      BY <3>2, <3>3
  <2>7. QED
    BY <1>w, <2>1, <2>2, <2>3, <2>4, <2>6 DEF UnfinishedDeletions
<1>14. CASE StageRoot
  <2>1. /\ cur \in Ckpts /\ dj[cur] # None /\ UNCHANGED <<roots, head, latest, cj>>
    BY <1>14, <1>a DEF StageRoot, MarkDelete, JournalDriven, DeleteSteps
  <2>2. dj[cur].state = "Prepared"
    BY <1>14, <1>b DEF StageRoot, DeleteStep
  <2>3. /\ dj'[cur] # None /\ dj'[cur].state = "Prepared"
        /\ dj'[cur].newLatest = dj[cur].newLatest
        /\ \A c \in Ckpts \ {cur} : dj'[c] = dj[c]
    BY <1>14, <1>a, <2>1, <2>2, DeletionStaged DEF StageRoot
  <2>4. PICK c \in Ckpts : c = cur
    BY <2>1
  <2>5. /\ UnfinishedDeletions = {c} /\ UnfinishedCreations = {}
        /\ DeletionProgress(c)
    BY <1>b, <2>1, <2>2, <2>4 DEF UnfinishedDeletions, OneUnfinished
  <2>6. Arriving = {} /\ Arriving' = {}
    <3>1. Arriving = {}
      BY <1>d, <2>5
    <3>2. QED
      BY <2>1, <3>1 DEF Arriving
  <2>7. Leaving = {} /\ Leaving' = {}
    <3>1. Leaving = {}
      BY <1>d, <2>2, <2>4, <2>5
    <3>2. QED
      BY <2>3, <3>1 DEF Leaving
  <2>8. CurrentBar' = CurrentBar
    BY <2>1, <2>6, <2>7, CurrentIs
  <2>9. QED
    BY <1>w, <2>1, <2>2, <2>3, <2>6, <2>7, <2>8 DEF UnfinishedDeletions
<1>15. CASE MarkStaged
  <2>1. /\ cur \in Ckpts /\ dj[cur] # None /\ UNCHANGED <<roots, head, latest, cj>>
    BY <1>15, <1>a DEF MarkStaged, MarkDelete, JournalDriven, DeleteSteps
  <2>2. dj[cur].state = "Prepared"
    BY <1>15, <1>b DEF MarkStaged, MarkDelete, DeleteStep
  <2>3. /\ dj'[cur] # None /\ dj'[cur].state = "Staged"
        /\ dj'[cur].newLatest = dj[cur].newLatest
        /\ \A c \in Ckpts \ {cur} : dj'[c] = dj[c]
    BY <1>15, <1>a, <2>1, DeletionMarked DEF MarkStaged, MarkDelete, CheckpointDeletionState
  <2>4. PICK c \in Ckpts : c = cur
    BY <2>1
  <2>5. /\ UnfinishedDeletions = {c} /\ UnfinishedCreations = {}
        /\ DeletionProgress(c)
    BY <1>b, <2>1, <2>2, <2>4 DEF UnfinishedDeletions, OneUnfinished
  <2>6. Arriving = {} /\ Arriving' = {}
    <3>1. Arriving = {}
      BY <1>d, <2>5
    <3>2. QED
      BY <2>1, <3>1 DEF Arriving
  <2>7. Leaving = {} /\ Leaving' = {c}
    <3>1. Leaving = {}
      BY <1>d, <2>2, <2>4, <2>5
    <3>2. \A x \in Ckpts : x # c => x \notin Leaving'
      BY <2>3, <2>4, <3>1 DEF Leaving
    <3>3. c \in Leaving'
      BY <2>3, <2>4 DEF Leaving
    <3>4. QED
      BY <3>1, <3>2, <3>3 DEF Leaving
  <2>8. CreatedBar' = CreatedBar /\ OlderBar' = OlderBar /\ ListsWhatItAdded'
    BY <1>r, <1>s, <2>1, <2>6
  <2>9. LiveBar = roots /\ LiveBar' = roots \ {c} /\ c \in roots
    BY <2>1, <2>2, <2>4, <2>5, <2>7 DEF LiveBar, DeletionProgress
  <2>10. CurrentBar' = dj[c].newLatest
    BY <2>3, <2>4, <2>6, <2>7, CurrentIs
  <2>11. CurrentBar' \in History!Youngest(roots \ {c})
    BY <1>c, <2>5, <2>10 DEF SuccessorIsYoungest
  <2>12. CurrentBar' \in History!Youngest(LiveBar')
    BY <2>9, <2>11
  <2>13. History!Delete(c)
    BY <2>8, <2>9, <2>12 DEF History!Delete
  <2>14. CurrentIsYoungest'
    BY <2>8, <2>12 DEF CurrentIsYoungest, History!Youngest
  <2>15. ParentIsYoungest'
    BY <1>a, <1>c, <1>e, <2>1, <2>8 DEF ParentIsYoungest
  <2>16. SuccessorIsYoungest'
    BY <1>t, <2>1, <2>2, <2>3, <2>8 DEF UnfinishedDeletions
  <2>17. ParentIsOldLatest'
    BY <1>u, <2>1 DEF UnfinishedCreations
  <2>18. QED
    BY <2>8, <2>13, <2>14, <2>15, <2>16, <2>17 DEF HistoryInv, History!Next
<1>16. CASE UnlinkRoot
  <2>1. /\ cur \in Ckpts /\ dj[cur] # None /\ roots' = roots \ {cur}
        /\ UNCHANGED <<head, latest, cj, dj>>
    BY <1>16, <1>a DEF UnlinkRoot, JournalDriven, DeleteSteps
  <2>2. dj[cur].state = "Staged"
    BY <1>16, <1>b DEF UnlinkRoot, DeleteStep
  <2>4. PICK c \in Ckpts : c = cur
    BY <2>1
  <2>5. /\ UnfinishedDeletions = {c} /\ UnfinishedCreations = {}
        /\ DeletionProgress(c)
    BY <1>b, <2>1, <2>2, <2>4 DEF UnfinishedDeletions, OneUnfinished
  <2>6. Arriving = {} /\ Arriving' = {}
    <3>1. Arriving = {}
      BY <1>d, <2>5
    <3>2. QED
      BY <2>1, <3>1 DEF Arriving
  <2>7. Leaving = {c} /\ Leaving' = {c}
    <3>1. Leaving = {c}
      BY <1>d, <2>2, <2>4, <2>5
    <3>2. QED
      BY <2>1, <3>1 DEF Leaving
  <2>8. CurrentBar' = CurrentBar
    BY <2>1, <2>6, <2>7, CurrentIs
  <2>9. UnfinishedDeletions' = {c}
    BY <2>1, <2>5 DEF UnfinishedDeletions
  <2>10. roots' \ {c} = roots \ {c}
    BY <2>1, <2>4
  <2>11. QED
    BY <1>w, <2>1, <2>5, <2>6, <2>7, <2>8, <2>9, <2>10
<1>17. CASE RemoveFromInventory
  <2>1. /\ cur \in Ckpts /\ dj[cur] # None /\ UNCHANGED <<roots, latest, cj, dj>>
        /\ head' = Extended(dj[cur].headBefore, "Remove", cur)
        /\ head \in {dj[cur].headBefore, Extended(dj[cur].headBefore, "Remove", cur)}
    BY <1>17, <1>a DEF RemoveFromInventory, TransitionAllowed, JournalDriven, DeleteSteps
  <2>2. CASE head' = head
    BY <1>1, <2>1, <2>2
  <2>3. CASE head = dj[cur].headBefore
    <3>1. PICK c \in Ckpts : c = cur
      BY <2>1
    <3>2. head' = Extended(head, "Remove", c)
      BY <2>1, <2>3, <3>1
    <3>3. Listed' = Listed /\ ListedOrder' = ListedOrder
      BY <1>a, <3>2, ListedExtended
    <3>4. Arriving' = Arriving /\ Leaving' = Leaving /\ CurrentBar' = CurrentBar
      BY <2>1 DEF Arriving, Leaving, CurrentBar
    <3>5. CreatedBar' = CreatedBar /\ OlderBar' = OlderBar /\ LiveBar' = LiveBar
      BY <2>1, <3>3, <3>4 DEF CreatedBar, OlderBar, LiveBar
    <3>6. ListsWhatItAdded'
      <4>1. InventorySet(head') = InventorySet(head) \ {c}
        BY <1>a, <3>2, ExtendedSet
      <4>2. QED
        BY <1>c, <3>3, <4>1 DEF ListsWhatItAdded
    <3>7. SuccessorIsYoungest'
      BY <1>t, <2>1, <3>5 DEF UnfinishedDeletions
    <3>8. ParentIsOldLatest'
      BY <1>u, <2>1 DEF UnfinishedCreations
    <3>9. QED
      BY <1>q, <2>1, <3>4, <3>5, <3>6, <3>7, <3>8
  <2>4. QED
    BY <2>1, <2>2, <2>3
<1>18. CASE MarkRemoved
  <2>1. /\ cur \in Ckpts /\ dj[cur] # None /\ UNCHANGED <<roots, head, latest, cj>>
    BY <1>18, <1>a DEF MarkRemoved, MarkDelete, JournalDriven, DeleteSteps
  <2>2. dj[cur].state = "Staged"
    BY <1>18, <1>b DEF MarkRemoved, MarkDelete, DeleteStep
  <2>3. /\ dj'[cur] # None /\ dj'[cur].state = "InventoryUpdated"
        /\ dj'[cur].newLatest = dj[cur].newLatest
        /\ \A c \in Ckpts \ {cur} : dj'[c] = dj[c]
    BY <1>18, <1>a, <2>1, DeletionMarked DEF MarkRemoved, MarkDelete, CheckpointDeletionState
  <2>4. PICK c \in Ckpts : c = cur
    BY <2>1
  <2>5. /\ UnfinishedDeletions = {c} /\ UnfinishedCreations = {}
        /\ DeletionProgress(c)
    BY <1>b, <2>1, <2>2, <2>4 DEF UnfinishedDeletions, OneUnfinished
  <2>6. Arriving = {} /\ Arriving' = {}
    <3>1. Arriving = {}
      BY <1>d, <2>5
    <3>2. QED
      BY <2>1, <3>1 DEF Arriving
  <2>7. Leaving = {c} /\ Leaving' = {c}
    <3>1. Leaving = {c}
      BY <1>d, <2>2, <2>4, <2>5
    <3>2. \A x \in Ckpts : x # c => x \notin Leaving'
      BY <2>3, <2>4, <3>1 DEF Leaving
    <3>3. c \in Leaving'
      BY <2>3, <2>4 DEF Leaving
    <3>4. QED
      BY <3>1, <3>2, <3>3 DEF Leaving
  <2>8. CurrentBar' = CurrentBar
    BY <2>3, <2>4, <2>6, <2>7, CurrentIs
  <2>9. QED
    BY <1>w, <2>1, <2>2, <2>3, <2>6, <2>7, <2>8 DEF UnfinishedDeletions
<1>19. CASE MoveLatest
  <2>1. /\ cur \in Ckpts /\ dj[cur] # None /\ UNCHANGED <<roots, head, cj, dj>>
    BY <1>19, <1>a DEF MoveLatest, JournalDriven, DeleteSteps
  <2>2. dj[cur].state = "InventoryUpdated"
    BY <1>19, <1>b DEF MoveLatest, DeleteStep
  <2>4. PICK c \in Ckpts : c = cur
    BY <2>1
  <2>5. /\ UnfinishedDeletions = {c} /\ UnfinishedCreations = {}
        /\ DeletionProgress(c)
    BY <1>b, <2>1, <2>2, <2>4 DEF UnfinishedDeletions, OneUnfinished
  <2>6. Arriving = {} /\ Arriving' = {}
    <3>1. Arriving = {}
      BY <1>d, <2>5
    <3>2. QED
      BY <2>1, <3>1 DEF Arriving
  <2>7. Leaving = {c} /\ Leaving' = {c}
    <3>1. Leaving = {c}
      BY <1>d, <2>2, <2>4, <2>5
    <3>2. QED
      BY <2>1, <3>1 DEF Leaving
  <2>8. CurrentBar' = CurrentBar
    BY <2>1, <2>6, <2>7, CurrentIs
  <2>9. QED
    BY <1>w, <2>1, <2>6, <2>7, <2>8 DEF UnfinishedDeletions
<1>20. CASE CommitDelete
  <2>1. /\ cur \in Ckpts /\ dj[cur] # None /\ UNCHANGED <<roots, head, latest, cj>>
    BY <1>20, <1>a DEF CommitDelete, MarkDelete, JournalDriven, DeleteSteps
  <2>2. dj[cur].state = "InventoryUpdated" /\ latest = dj[cur].newLatest
    BY <1>20, <1>b DEF CommitDelete, MarkDelete, DeleteStep
  <2>3. /\ dj'[cur] # None /\ dj'[cur].state = "Committed"
        /\ dj'[cur].newLatest = dj[cur].newLatest
        /\ \A c \in Ckpts \ {cur} : dj'[c] = dj[c]
    BY <1>20, <1>a, <2>1, DeletionMarked DEF CommitDelete, MarkDelete, CheckpointDeletionState
  <2>4. PICK c \in Ckpts : c = cur
    BY <2>1
  <2>5. /\ UnfinishedDeletions = {c} /\ UnfinishedCreations = {}
        /\ DeletionProgress(c)
    BY <1>b, <2>1, <2>2, <2>4 DEF UnfinishedDeletions, OneUnfinished
  <2>6. Arriving = {} /\ Arriving' = {}
    <3>1. Arriving = {}
      BY <1>d, <2>5
    <3>2. QED
      BY <2>1, <3>1 DEF Arriving
  <2>7. Leaving = {c} /\ Leaving' = {}
    <3>1. Leaving = {c}
      BY <1>d, <2>2, <2>4, <2>5
    <3>2. \A x \in Ckpts : x # c => x \notin Leaving'
      BY <2>3, <2>4, <3>1 DEF Leaving
    <3>3. c \notin Leaving'
      BY <2>3, <2>4 DEF Leaving
    <3>4. QED
      BY <3>1, <3>2, <3>3 DEF Leaving
  <2>8. CurrentBar' = CurrentBar
    BY <2>1, <2>2, <2>4, <2>6, <2>7, CurrentIs
  <2>9. c \notin roots
    BY <2>2, <2>4, <2>5 DEF DeletionProgress
  <2>10. LiveBar' = LiveBar
    BY <2>1, <2>7, <2>9 DEF LiveBar
  <2>11. CreatedBar' = CreatedBar /\ OlderBar' = OlderBar /\ ListsWhatItAdded'
    BY <1>r, <1>s, <2>1, <2>6
  <2>12. SuccessorIsYoungest'
    BY <1>t, <2>1, <2>2, <2>3, <2>11 DEF UnfinishedDeletions
  <2>13. ParentIsOldLatest'
    BY <1>u, <2>1 DEF UnfinishedCreations
  <2>14. QED
    BY <1>q, <2>1, <2>8, <2>10, <2>11, <2>12, <2>13
<1>21. CASE CleanupDelete
  <2>1. /\ cur \in Ckpts /\ dj[cur] # None /\ dj[cur].state = "Committed"
        /\ dj' \in {dj, [dj EXCEPT ![cur] = None]} /\ UNCHANGED <<roots, head, latest, cj>>
        /\ pc \in DeleteSteps
    BY <1>21, <1>a, <1>b DEF CleanupDelete, JournalDriven, DeleteSteps, DeleteStep
  <2>2. dj'[cur] \in {dj[cur], None} /\ \A x \in Ckpts \ {cur} : dj'[x] = dj[x]
    BY <1>a, <2>1
  <2>3. Arriving = {} /\ Arriving' = {}
    <3>1. Arriving = {}
      BY <1>b, <1>d, <2>1 DEF Phase
    <3>2. QED
      BY <2>1, <3>1 DEF Arriving
  <2>4. Leaving' = Leaving /\ cur \notin Leaving
    BY <2>1, <2>2 DEF Leaving
  <2>5. CurrentBar' = CurrentBar
    <3>1. \A x \in Leaving : dj'[x] = dj[x]
      BY <2>2, <2>4 DEF Leaving
    <3>2. CASE Leaving = {}
      BY <2>1, <2>3, <2>4, <3>2, CurrentIs
    <3>3. CASE Leaving # {}
      <4>1. PICK x \in Ckpts : Leaving = {x}
        BY <1>b, <1>d, <3>3 DEF OneUnfinished, UnfinishedDeletions
      <4>2. QED
        BY <2>3, <2>4, <3>1, <4>1, CurrentIs
    <3>4. QED
      BY <3>2, <3>3
  <2>6. QED
    BY <1>w, <2>1, <2>2, <2>3, <2>4, <2>5 DEF UnfinishedDeletions
<1>22. QED
  BY <1>1, <1>2, <1>3, <1>4, <1>5, <1>6, <1>7, <1>8, <1>9, <1>10, <1>11, <1>12,
     <1>13, <1>14, <1>15, <1>16, <1>17, <1>18, <1>19, <1>20, <1>21, HistoryFrame

(* A repository that was just initialised has an empty history. *)
LEMMA HistoryInit == Init => History!Init /\ HistoryInv
<1> SUFFICES ASSUME Init PROVE History!Init /\ HistoryInv
  OBVIOUS
<1>1. /\ UnfinishedCreations = {} /\ UnfinishedDeletions = {} /\ roots = {} /\ latest = None
  BY DEF Init, UnfinishedCreations, UnfinishedDeletions
<1>2. Arriving = {} /\ Leaving = {}
  BY DEF Init, Arriving, Leaving
<1>3. Listed = {} /\ ListedOrder = {} /\ InventorySet(head) = {}
  <2>1. DOMAIN head = {1} /\ head[1].op = "Initialize" /\ InventorySet(head) = {}
    BY DEF Init, InventorySet
  <2>2. QED
    BY <2>1 DEF Listed, ListedOrder, Added
<1>4. CreatedBar = {} /\ OlderBar = {} /\ LiveBar = {} /\ CurrentBar = None
  BY <1>1, <1>2, <1>3, CurrentIs DEF CreatedBar, OlderBar, LiveBar
<1>5. QED
  BY <1>1, <1>3, <1>4
     DEF History!Init, HistoryInv, CurrentIsYoungest, ParentIsYoungest, SuccessorIsYoungest,
         ListsWhatItAdded, ParentIsOldLatest, History!Youngest

(* Every behaviour of the repository, with its crashes and recoveries, is  *)
(* a behaviour of the history its user relies on: create_checkpoint and    *)
(* delete_checkpoint are atomic, an id is created once, and refs/latest    *)
(* stands for the youngest checkpoint that is left.  Premise: a recovery   *)
(* finishes the deletion journals it replays; one that is left behind is   *)
(* replayed over newer checkpoints and sets refs/latest back.              *)
THEOREM RepositoryImplementsHistory ==
    ASSUME RecoveryMayNotFinalize = FALSE
    PROVE  Spec => ImplementsHistory
<1> DEFINE Inv == TypeInv /\ ConsistencyInv /\ DriveInv /\ LineageInv /\ HistoryInv
<1>1. Init => Inv /\ History!Init
  BY TypeInit, ConsistencyInit, RestoreInit, LineageInit, HistoryInit
<1>2. Inv /\ [Next]_vars => Inv' /\ [History!Next]_(History!vars)
  BY TypeStep, ConsistencyStep, DriveStep, LineageStep, HistoryStep
<1>3. QED
  BY <1>1, <1>2, PTL DEF Spec, ImplementsHistory, History!Spec

=============================================================================
