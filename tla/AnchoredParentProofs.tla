------------------------ MODULE AnchoredParentProofs ------------------------
(***************************************************************************)
(* Proofs about AnchoredParent, for any files of other programs and any    *)
(* number of their writes.                                                 *)
(***************************************************************************)
EXTENDS AnchoredParent, TLAPS

-----------------------------------------------------------------------------
(* The inductive invariants. *)

ReplaceSteps == {"verified", "recordCreated", "recordWritten", "recorded", "recordSynced",
                 "detached", "detachSynced", "published", "guarded", "publishSynced",
                 "tombRemoved", "tombSynced", "recordRemoved"}
RecoverySteps == {"recover", "finalize", "finalizeSynced", "leftoverRemoved",
                  "recoverRecord", "recoverSync"}
ExchangeSteps == {"exchanging", "exchanged", "exchangeSynced", "oldRemoved"}

(* Each step belongs to an operation and a platform. *)
Routes ==
    /\ pc \in ReplaceSteps \cup RecoverySteps => platform = "windows" /\ Replacing
    /\ pc \in ExchangeSteps => platform = "unix" /\ Replacing
    /\ pc \in {"unlinking", "unlinked", "checked", "rollback", "rolledBack"} => Unlinking
    /\ pc \in {"unlinked", "rollback", "rolledBack"} => platform = "unix"
    /\ pc = "created" => op = "create"

(* What can be under the names no other program uses, now or after a power *)
(* loss.                                                                   *)
Places ==
    \A d \in disks :
        /\ platform = "windows" => d["temp"] \in {New, None} /\ d["tomb"] \in {Old, None}
        /\ \/ d["tomb"] = None
           \/ IF platform = "unix" THEN Unlinking ELSE Replacing
        /\ Unlinking => d["temp"] = None
        /\ d["dest"] # Rec /\ d["temp"] # Rec /\ d["tomb"] # Rec
        /\ d["record"] = None \/ (d["record"] = Rec /\ platform = "windows" /\ Replacing)

(* What a step finds there, and at the name where it is held. *)
Finds ==
    /\ pc \in {"begin", "unlinking"} => entries["tomb"] = None
    /\ pc \in {"verified", "recordCreated", "recordWritten", "recorded", "recordSynced"} =>
         held = {Old} /\ entries["dest"] = Old /\ entries["tomb"] = None
    /\ pc \in {"verified", "recordCreated", "recordWritten", "recorded", "recordSynced",
               "detached", "detachSynced", "exchanging"} => entries["temp"] = New
    /\ pc \in {"detached", "detachSynced", "published", "guarded", "publishSynced"} =>
         entries["tomb"] = Old
    /\ pc \in {"published", "guarded", "publishSynced", "tombRemoved", "tombSynced",
               "recordRemoved", "oldRemoved", "created"} => entries["temp"] = None
    /\ pc \in {"guarded", "publishSynced", "tombRemoved", "tombSynced", "recordRemoved"} =>
         New \in held /\ entries["dest"] = New
    /\ pc \in {"tombRemoved", "tombSynced", "recordRemoved"} => entries["tomb"] = None
    /\ pc \in ReplaceSteps \ {"verified", "recordRemoved"} => entries["record"] = Rec
    /\ pc \in ReplaceSteps \ {"verified", "recordCreated", "recordWritten"} =>
         content = "durable"
    /\ pc = "recordRemoved" => entries["record"] = None
    /\ pc = "exchangeSynced" => entries["temp"] = Old
    /\ pc \in {"finalize", "finalizeSynced", "leftoverRemoved", "recoverRecord"} =>
         final \in {Old, New} /\ held = {final} /\ entries["dest"] = final
    /\ pc \in {"checked", "rollback"} /\ platform = "unix" => entries["tomb"] = Old
    /\ pc = "checked" /\ platform = "windows" =>
         /\ held = {Old} /\ entries["dest"] = Old
         /\ op = "versioned" => writes = 0

PlacesInv == TypeOK /\ Routes /\ Places /\ Finds

(* While nobody else touches the name: what a power loss may leave during  *)
(* a replacement, ...                                                      *)
Good(d) ==
    \/ d["dest"] = Old /\ d["tomb"] = None
    \/ d["dest"] = None /\ d["tomb"] = Old /\ d["record"] = Rec
    \/ d["dest"] = New

Synced == disks = {entries}

AllGood == Replacing /\ Undisturbed => \A d \in disks : Good(d)

(* where nothing was renamed yet, where a sync has come first, *)
Untouched ==
    Replacing /\ Undisturbed
      /\ pc \in {"begin", "verified", "recordCreated", "recordWritten", "recorded"} =>
        \A d \in disks : d["dest"] = Old /\ d["tomb"] = None

AfterSync ==
    Replacing /\ Undisturbed
      /\ pc \in {"recordSynced", "detachSynced", "publishSynced", "tombSynced",
                 "finalizeSynced", "recoverRecord"} => Synced

(* and what it leaves at the end; ...                                      *)
Replaced ==
    Replacing /\ Undisturbed /\ pc \in {"exchangeSynced", "oldRemoved"} =>
        entries["dest"] = New

Finished ==
    (Replacing \/ op = "create") /\ Undisturbed /\ pc = "ok" =>
        /\ Synced /\ entries["dest"] = New
        /\ entries["temp"] = None /\ entries["tomb"] = None /\ entries["record"] = None

(* a recovery finds the directory in order, ... *)
Understood == Undisturbed => refused \in {"no", "torn"}

AtomicInv ==
    /\ AllGood /\ Untouched /\ AfterSync /\ Replaced /\ Finished
    /\ Understood

(* the old file is where it was as long as the record is not on disk, ... *)
Shielded ==
    platform = "windows" /\ Replacing /\ Undisturbed /\ content # "durable" =>
        \A d \in disks : d["dest"] = Old /\ d["tomb"] = None

(* ... and during the removal of a directory. *)
Has(d, i) == \E n \in Names : d[n] = i

Lone ==
    op = "rmdir" /\ placed = {} =>
        /\ dropped \subseteq {Old}
        /\ \A d \in disks : d["dest"] \in {Old, None} /\ d["tomb"] \in {Old, None}

OnDisk ==
    op = "rmdir" /\ Undisturbed =>
        \/ \A d \in disks : Has(d, Old)
        \/ ~filled /\ ~Present(Old)

Back ==
    op = "rmdir" /\ Undisturbed =>
        /\ pc \in {"unlinked", "rollback"} \/ (pc = "checked" /\ platform = "unix") =>
             entries["dest"] = None /\ entries["tomb"] = Old
        /\ cut = "no" /\ pc \in {"begin", "unlinking", "rolledBack", "failed", "cleanup",
                                 "cleanupSync", "rest"} => entries["dest"] = Old

PlacedStays == \A x \in placed \ dropped : Present(x)

WrittenStays ==
    op = "versioned" /\ writes > 0 /\ Old \notin dropped /\ pc = "ok" => Present(Old)

FilledStays == op = "rmdir" /\ filled /\ Old \notin dropped => Present(Old)

Staying == Lone /\ OnDisk /\ Back /\ WrittenStays /\ FilledStays

SurvivalInv == PlacedStays /\ Staying

-----------------------------------------------------------------------------
(* What the changes of a directory do to it, and to what is on disk. *)

(* The directory and everything a power loss may leave are directories. *)
Directories == entries \in Directory /\ disks \subseteq Directory /\ entries \in disks

(* A rename moves one entry, there and in all that may be left. *)
LEMMA RenameDoes ==
    ASSUME Directories, NEW a \in Names, NEW b \in Names, a # b, Rename(a, b)
    PROVE  /\ Directories'
           /\ entries'[b] = entries[a] /\ entries'[a] = None
           /\ \A n \in Names \ {a, b} : entries'[n] = entries[n]
           /\ \A d \in disks' \ disks : \E e \in disks :
                /\ d[b] = entries[a] /\ d[a] = None
                /\ \A n \in Names \ {a, b} : d[n] = e[n]
<1> DEFINE Change(e) == [e EXCEPT ![b] = entries[a], ![a] = None]
<1>1. entries' = Change(entries) /\ disks' = disks \cup {Change(e) : e \in disks}
  BY DEF Rename, Mutate
<1>2. \A e \in Directory : /\ Change(e) \in Directory
                           /\ Change(e)[b] = entries[a] /\ Change(e)[a] = None
                           /\ \A n \in Names \ {a, b} : Change(e)[n] = e[n]
  BY AnchoredAssumption DEF Directories, Directory
<1> HIDE DEF Change
<1>3. entries' \in Directory /\ disks' \subseteq Directory /\ entries' \in disks'
  BY <1>1, <1>2 DEF Directories
<1>4. QED
  BY <1>1, <1>2, <1>3 DEF Directories

(* A removal, ... *)
LEMMA RemoveDoes ==
    ASSUME Directories, NEW a \in Names, Remove(a)
    PROVE  /\ Directories'
           /\ entries'[a] = None
           /\ \A n \in Names \ {a} : entries'[n] = entries[n]
           /\ \A d \in disks' \ disks : \E e \in disks :
                d[a] = None /\ \A n \in Names \ {a} : d[n] = e[n]
<1> DEFINE Change(e) == [e EXCEPT ![a] = None]
<1>1. entries' = Change(entries) /\ disks' = disks \cup {Change(e) : e \in disks}
  BY DEF Remove, Mutate
<1>2. \A e \in Directory : /\ Change(e) \in Directory
                           /\ Change(e)[a] = None
                           /\ \A n \in Names \ {a} : Change(e)[n] = e[n]
  BY AnchoredAssumption DEF Directories, Directory
<1> HIDE DEF Change
<1>3. entries' \in Directory /\ disks' \subseteq Directory /\ entries' \in disks'
  BY <1>1, <1>2 DEF Directories
<1>4. QED
  BY <1>1, <1>2, <1>3 DEF Directories

(* ... a new entry, ... *)
LEMMA CreateDoes ==
    ASSUME Directories, NEW a \in Names, NEW i \in Ids \cup {None}, Create(a, i)
    PROVE  /\ Directories'
           /\ entries'[a] = i
           /\ \A n \in Names \ {a} : entries'[n] = entries[n]
           /\ \A d \in disks' \ disks : \E e \in disks :
                d[a] = i /\ \A n \in Names \ {a} : d[n] = e[n]
<1> DEFINE Change(e) == [e EXCEPT ![a] = i]
<1>1. entries' = Change(entries) /\ disks' = disks \cup {Change(e) : e \in disks}
  BY DEF Create, Mutate
<1>2. \A e \in Directory : /\ Change(e) \in Directory
                           /\ Change(e)[a] = i
                           /\ \A n \in Names \ {a} : Change(e)[n] = e[n]
  BY AnchoredAssumption DEF Directories, Directory
<1> HIDE DEF Change
<1>3. entries' \in Directory /\ disks' \subseteq Directory /\ entries' \in disks'
  BY <1>1, <1>2 DEF Directories
<1>4. QED
  BY <1>1, <1>2, <1>3 DEF Directories

(* ... and a sync likewise. *)
LEMMA SyncDoes ==
    ASSUME Directories, sync_all
    PROVE  Directories' /\ entries' = entries /\ disks' = {entries}
BY DEF Directories, sync_all

(* The exchange of Unix. *)
LEMMA ExchangeDoes ==
    ASSUME Directories, anchored_exchange_files
    PROVE  /\ Directories'
           /\ \/ UNCHANGED directory /\ Fail
              \/ /\ Plain("exchanged") /\ entries["dest"] # None
                 /\ entries'["dest"] = entries["temp"] /\ entries'["temp"] = entries["dest"]
                 /\ \A n \in Names \ {"dest", "temp"} : entries'[n] = entries[n]
                 /\ \A d \in disks' \ disks : \E e \in disks :
                      /\ d["dest"] = entries["temp"] /\ d["temp"] = entries["dest"]
                      /\ \A n \in Names \ {"dest", "temp"} : d[n] = e[n]
BY DEF Directories, Directory, Names, anchored_exchange_files, Mutate, directory

(* A recovery tells every directory apart that it can meet. *)
LEMMA RecoverDoes ==
    ASSUME TypeOK, Places, recover_windows_replace_record_at
    PROVE  \/ /\ Refuse("corrupt")
              /\ \/ entries["dest"] = Old /\ entries["tomb"] # None
                 \/ entries["dest"] = None /\ entries["tomb"] # Old
           \/ Refuse("changed") /\ entries["dest"] \in Foreign
           \/ \E i \in {Old, New} : Finalize(i) /\ UNCHANGED directory /\ entries["dest"] = i
           \/ /\ Rename("tomb", "dest") /\ Finalize(Old)
              /\ entries["dest"] = None /\ entries["tomb"] = Old
<1>1. entries["dest"] \in {Old, New, None} \cup Foreign
  BY DEF TypeOK, Places, Directory, Ids, Names
<1>2. CASE entries["dest"] = Old
  BY <1>2, AnchoredAssumption DEF recover_windows_replace_record_at, Ids
<1>3. CASE entries["dest"] = New
  BY <1>3, AnchoredAssumption DEF recover_windows_replace_record_at, Ids
<1>4. CASE entries["dest"] = None
  BY <1>4, AnchoredAssumption DEF recover_windows_replace_record_at, Ids
<1>5. CASE entries["dest"] \in Foreign
  BY <1>5, AnchoredAssumption DEF recover_windows_replace_record_at, Ids
<1>6. QED
  BY <1>1, <1>2, <1>3, <1>4, <1>5

-----------------------------------------------------------------------------
(* Types, and what is under the private names. *)

(* Initially only the name and the temporary file are there. *)
LEMMA PlacesInit == Init => PlacesInv
<1> SUFFICES ASSUME Init PROVE PlacesInv
  OBVIOUS
<1>1. Directories
  BY DEF Init, Directories, Directory, Names, Ids, Replacing
<1>2. TypeOK
  <2>1. filled \in BOOLEAN
    BY DEF Init
  <2>2. writes = 0
    BY DEF Init
  <2>3. writes \in 0..MaxWrites
    BY <2>2, AnchoredAssumption
  <2>4. QED
    BY Zenon, <1>1, <2>1, <2>3 DEF Init, TypeOK, Directories
<1>3. Routes
  BY DEF Init, Routes, ReplaceSteps, RecoverySteps, ExchangeSteps
<1>4. Places
  BY AnchoredAssumption DEF Init, Places, Names, Ids, Replacing, Unlinking
<1>5. Finds
  BY DEF Init, Finds, ReplaceSteps, Names
<1>6. QED
  BY <1>2, <1>3, <1>4, <1>5 DEF PlacesInv

(* Every step keeps them. *)
LEMMA PlacesStep ==
    ASSUME PlacesInv, [Next]_vars
    PROVE  PlacesInv'
<1> USE AnchoredAssumption
<1>0. TypeOK /\ Routes /\ Places /\ Finds /\ Directories
  BY DEF PlacesInv, TypeOK, Directories
<1>1. CASE OtherReplaces
  <2>1. Directories'
    BY <1>0, <1>1, CreateDoes DEF Directories, Names, Ids, OtherReplaces, Create, directory
  <2>2. TypeOK'
    BY <1>0, <1>1, <2>1 DEF TypeOK, Directories, Ids, Finds, Directory, Names, OtherReplaces,
       Create, directory, others
  <2>3. Routes'
    BY <1>0, <1>1 DEF Routes, ReplaceSteps, RecoverySteps, ExchangeSteps, Replacing,
       Unlinking, OtherReplaces, Create, directory, others
  <2>4. Places'
    BY <1>0, <1>1, CreateDoes DEF Places, Routes, Finds, Directories, ReplaceSteps,
       RecoverySteps, ExchangeSteps, Replacing, Unlinking, Names, Ids, OtherReplaces, Create,
       directory, others
  <2>5. Finds'
    BY <1>0, <1>1, CreateDoes DEF Places, Routes, Finds, Directories, ReplaceSteps,
       RecoverySteps, ExchangeSteps, Replacing, Unlinking, Names, Ids, OtherReplaces, Create,
       directory, others
  <2>6. QED
    BY <2>2, <2>3, <2>4, <2>5 DEF PlacesInv
<1>2. CASE OtherWrites
  <2>1. Directories'
    BY <1>0, <1>2 DEF Directories, Names, Ids, OtherWrites, directory
  <2>2. TypeOK'
    BY <1>0, <1>2, <2>1 DEF TypeOK, Directories, Ids, Finds, OtherWrites, directory, others
  <2>3. Routes'
    BY <1>0, <1>2 DEF Routes, ReplaceSteps, RecoverySteps, ExchangeSteps, Replacing,
       Unlinking, OtherWrites, directory, others
  <2>4. Places'
    BY <1>0, <1>2 DEF Places, Routes, Finds, Directories, ReplaceSteps, RecoverySteps,
       ExchangeSteps, Replacing, Unlinking, Names, Ids, OtherWrites, directory, others
  <2>5. Finds'
    BY <1>0, <1>2 DEF Places, Routes, Finds, Directories, ReplaceSteps, RecoverySteps,
       ExchangeSteps, Replacing, Unlinking, Names, Ids, OtherWrites, directory, others
  <2>6. QED
    BY <2>2, <2>3, <2>4, <2>5 DEF PlacesInv
<1>3. CASE OtherFills
  <2>1. Directories'
    BY <1>0, <1>3 DEF Directories, Names, Ids, OtherFills, directory
  <2>2. TypeOK'
    BY <1>0, <1>3, <2>1 DEF TypeOK, Directories, Ids, Finds, OtherFills, directory, others
  <2>3. Routes'
    BY <1>0, <1>3 DEF Routes, ReplaceSteps, RecoverySteps, ExchangeSteps, Replacing,
       Unlinking, OtherFills, directory, others
  <2>4. Places'
    BY <1>0, <1>3 DEF Places, Routes, Finds, Directories, ReplaceSteps, RecoverySteps,
       ExchangeSteps, Replacing, Unlinking, Names, Ids, OtherFills, directory, others
  <2>5. Finds'
    BY <1>0, <1>3 DEF Places, Routes, Finds, Directories, ReplaceSteps, RecoverySteps,
       ExchangeSteps, Replacing, Unlinking, Names, Ids, OtherFills, directory, others
  <2>6. QED
    BY <2>2, <2>3, <2>4, <2>5 DEF PlacesInv
<1>4. CASE Crash
  <2>1. Directories'
    BY <1>0, <1>4 DEF Directories, Names, Ids, Crash, directory
  <2>2. TypeOK'
    BY <1>0, <1>4, <2>1 DEF TypeOK, Directories, Ids, Finds, Crash, directory, others
  <2>3. Routes'
    BY <1>0, <1>4 DEF Routes, ReplaceSteps, RecoverySteps, ExchangeSteps, Replacing,
       Unlinking, Crash, directory, others
  <2>4. Places'
    BY <1>0, <1>4 DEF Places, Routes, Finds, Directories, ReplaceSteps, RecoverySteps,
       ExchangeSteps, Replacing, Unlinking, Names, Ids, Crash, directory, others
  <2>5. Finds'
    BY <1>0, <1>4 DEF Places, Routes, Finds, Directories, ReplaceSteps, RecoverySteps,
       ExchangeSteps, Replacing, Unlinking, Names, Ids, Crash, directory, others
  <2>6. QED
    BY <2>2, <2>3, <2>4, <2>5 DEF PlacesInv
<1>5. CASE PowerLoss
  <2>1. Directories'
    BY <1>0, <1>5 DEF Directories, Names, Ids, PowerLoss, directory
  <2>2. TypeOK'
    BY <1>0, <1>5, <2>1 DEF TypeOK, Directories, Ids, Finds, PowerLoss, directory, others
  <2>3. Routes'
    BY <1>0, <1>5 DEF Routes, ReplaceSteps, RecoverySteps, ExchangeSteps, Replacing,
       Unlinking, PowerLoss, directory, others
  <2>4. Places'
    BY <1>0, <1>5 DEF Places, Routes, Finds, Directories, ReplaceSteps, RecoverySteps,
       ExchangeSteps, Replacing, Unlinking, Names, Ids, PowerLoss, directory, others
  <2>5. Finds'
    BY <1>0, <1>5 DEF Places, Routes, Finds, Directories, ReplaceSteps, RecoverySteps,
       ExchangeSteps, Replacing, Unlinking, Names, Ids, PowerLoss, directory, others
  <2>6. QED
    BY <2>2, <2>3, <2>4, <2>5 DEF PlacesInv
<1>6. CASE IoError
  <2>1. Directories'
    BY <1>0, <1>6 DEF Directories, Names, Ids, IoError, AfterRecovery, Recovering, directory
  <2>2. TypeOK'
    BY <1>0, <1>6, <2>1 DEF TypeOK, Directories, Ids, Finds, IoError, AfterRecovery,
       Recovering, directory, others
  <2>3. Routes'
    BY <1>0, <1>6 DEF Routes, ReplaceSteps, RecoverySteps, ExchangeSteps, Replacing,
       Unlinking, IoError, AfterRecovery, Recovering, directory, others
  <2>4. Places'
    BY <1>0, <1>6 DEF Places, Routes, Finds, Directories, ReplaceSteps, RecoverySteps,
       ExchangeSteps, Replacing, Unlinking, Names, Ids, IoError, AfterRecovery, Recovering,
       directory, others
  <2>5. Finds'
    BY <1>0, <1>6 DEF Places, Routes, Finds, Directories, ReplaceSteps, RecoverySteps,
       ExchangeSteps, Replacing, Unlinking, Names, Ids, IoError, AfterRecovery, Recovering,
       directory, others
  <2>6. QED
    BY <2>2, <2>3, <2>4, <2>5 DEF PlacesInv
<1>7. CASE WindowsVerify
  <2>1. Directories'
    BY <1>0, <1>7 DEF Directories, Names, Ids, WindowsVerify, Goto, Fail, Bound, directory
  <2>2. TypeOK'
    BY <1>0, <1>7, <2>1 DEF TypeOK, Directories, Ids, Finds, WindowsVerify, Goto, Fail, Bound,
       directory, others
  <2>3. Routes'
    BY <1>0, <1>7 DEF Routes, ReplaceSteps, RecoverySteps, ExchangeSteps, Replacing,
       Unlinking, WindowsVerify, Goto, Fail, Bound, directory, others
  <2>4. Places'
    BY <1>0, <1>7 DEF Places, Routes, Finds, Directories, ReplaceSteps, RecoverySteps,
       ExchangeSteps, Replacing, Unlinking, Names, Ids, WindowsVerify, Goto, Fail, Bound,
       directory, others
  <2>5. Finds'
    BY <1>0, <1>7 DEF Places, Routes, Finds, Directories, ReplaceSteps, RecoverySteps,
       ExchangeSteps, Replacing, Unlinking, Names, Ids, WindowsVerify, Goto, Fail, Bound,
       directory, others
  <2>6. QED
    BY <2>2, <2>3, <2>4, <2>5 DEF PlacesInv
<1>8. CASE CreateRecord
  <2>1. Directories'
    BY <1>0, <1>8, CreateDoes DEF Directories, Names, Ids, CreateRecord, directory
  <2>2. TypeOK'
    BY <1>0, <1>8, <2>1 DEF TypeOK, Directories, Ids, Finds, CreateRecord, directory, others
  <2>3. Routes'
    BY <1>0, <1>8 DEF Routes, ReplaceSteps, RecoverySteps, ExchangeSteps, Replacing,
       Unlinking, CreateRecord, directory, others
  <2>4. Places'
    BY <1>0, <1>8, CreateDoes DEF Places, Routes, Finds, Directories, ReplaceSteps,
       RecoverySteps, ExchangeSteps, Replacing, Unlinking, Names, Ids,
       CreateRecord, directory, others
  <2>5. Finds'
    BY <1>0, <1>8, CreateDoes DEF Places, Routes, Finds, Directories, ReplaceSteps,
       RecoverySteps, ExchangeSteps, Replacing, Unlinking, Names, Ids,
       CreateRecord, directory, others
  <2>6. QED
    BY <2>2, <2>3, <2>4, <2>5 DEF PlacesInv
<1>9. CASE WriteRecord
  <2>1. Directories'
    BY <1>0, <1>9 DEF Directories, Names, Ids, WriteRecord, directory
  <2>2. TypeOK'
    BY <1>0, <1>9, <2>1 DEF TypeOK, Directories, Ids, Finds, WriteRecord, directory, others
  <2>3. Routes'
    BY <1>0, <1>9 DEF Routes, ReplaceSteps, RecoverySteps, ExchangeSteps, Replacing,
       Unlinking, WriteRecord, directory, others
  <2>4. Places'
    BY <1>0, <1>9 DEF Places, Routes, Finds, Directories, ReplaceSteps,
       RecoverySteps, ExchangeSteps, Replacing, Unlinking, Names, Ids,
       WriteRecord, directory, others
  <2>5. Finds'
    BY <1>0, <1>9 DEF Places, Routes, Finds, Directories, ReplaceSteps,
       RecoverySteps, ExchangeSteps, Replacing, Unlinking, Names, Ids,
       WriteRecord, directory, others
  <2>6. QED
    BY <2>2, <2>3, <2>4, <2>5 DEF PlacesInv
<1>10. CASE RecordFileSynced
  <2>1. Directories'
    BY <1>0, <1>10 DEF Directories, Names, Ids, RecordFileSynced, directory
  <2>2. TypeOK'
    BY <1>0, <1>10, <2>1 DEF TypeOK, Directories, Ids, Finds, RecordFileSynced, directory,
       others
  <2>3. Routes'
    BY <1>0, <1>10 DEF Routes, ReplaceSteps, RecoverySteps, ExchangeSteps, Replacing,
       Unlinking, RecordFileSynced, directory, others
  <2>4. Places'
    BY <1>0, <1>10 DEF Places, Routes, Finds, Directories, ReplaceSteps,
       RecoverySteps, ExchangeSteps, Replacing, Unlinking, Names, Ids,
       RecordFileSynced, directory, others
  <2>5. Finds'
    BY <1>0, <1>10 DEF Places, Routes, Finds, Directories, ReplaceSteps,
       RecoverySteps, ExchangeSteps, Replacing, Unlinking, Names, Ids,
       RecordFileSynced, directory, others
  <2>6. QED
    BY <2>2, <2>3, <2>4, <2>5 DEF PlacesInv
<1>11. CASE RecordSynced
  <2>1. Directories'
    BY <1>0, <1>11, SyncDoes DEF Directories, Names, Ids, RecordSynced, Plain, Goto, directory
  <2>2. TypeOK'
    BY <1>0, <1>11, <2>1 DEF TypeOK, Directories, Ids, Finds, RecordSynced, Plain, Goto,
       directory, others
  <2>3. Routes'
    BY <1>0, <1>11 DEF Routes, ReplaceSteps, RecoverySteps, ExchangeSteps, Replacing,
       Unlinking, RecordSynced, Plain, Goto, directory, others
  <2>4. Places'
    BY <1>0, <1>11, SyncDoes DEF Places, Routes, Finds, Directories, ReplaceSteps,
       RecoverySteps, ExchangeSteps, Replacing, Unlinking, Names, Ids, RecordSynced, Plain,
       Goto, directory, others
  <2>5. Finds'
    BY <1>0, <1>11, SyncDoes DEF Places, Routes, Finds, Directories, ReplaceSteps,
       RecoverySteps, ExchangeSteps, Replacing, Unlinking, Names, Ids, RecordSynced, Plain,
       Goto, directory, others
  <2>6. QED
    BY <2>2, <2>3, <2>4, <2>5 DEF PlacesInv
<1>12. CASE RecordFails
  <2>1. Directories'
    BY <1>0, <1>12, RemoveDoes DEF Directories, Names, Ids, RecordFails, Fail, Goto, directory
  <2>2. TypeOK'
    BY <1>0, <1>12, <2>1 DEF TypeOK, Directories, Ids, Finds, RecordFails, Fail, Goto,
       directory, others
  <2>3. Routes'
    BY <1>0, <1>12 DEF Routes, ReplaceSteps, RecoverySteps, ExchangeSteps, Replacing,
       Unlinking, RecordFails, Fail, Goto, directory, others
  <2>4. Places'
    BY <1>0, <1>12, RemoveDoes DEF Places, Routes, Finds, Directories, ReplaceSteps,
       RecoverySteps, ExchangeSteps, Replacing, Unlinking, Names, Ids, RecordFails, Fail,
       Goto, directory, others
  <2>5. Finds'
    BY <1>0, <1>12, RemoveDoes DEF Places, Routes, Finds, Directories, ReplaceSteps,
       RecoverySteps, ExchangeSteps, Replacing, Unlinking, Names, Ids, RecordFails, Fail,
       Goto, directory, others
  <2>6. QED
    BY <2>2, <2>3, <2>4, <2>5 DEF PlacesInv
<1>13. CASE DetachDestination
  <2>1. Directories'
    BY <1>0, <1>13, RenameDoes DEF Directories, Names, Ids, DetachDestination, Plain, Goto,
       directory
  <2>2. TypeOK'
    BY <1>0, <1>13, <2>1 DEF TypeOK, Directories, Ids, Finds, DetachDestination, Plain, Goto,
       directory, others
  <2>3. Routes'
    BY <1>0, <1>13 DEF Routes, ReplaceSteps, RecoverySteps, ExchangeSteps, Replacing,
       Unlinking, DetachDestination, Plain, Goto, directory, others
  <2>4. Places'
    BY <1>0, <1>13, RenameDoes DEF Places, Routes, Finds, Directories, ReplaceSteps,
       RecoverySteps, ExchangeSteps, Replacing, Unlinking, Names, Ids, DetachDestination,
       Plain, Goto, directory, others
  <2>5. Finds'
    BY <1>0, <1>13, RenameDoes DEF Places, Routes, Finds, Directories, ReplaceSteps,
       RecoverySteps, ExchangeSteps, Replacing, Unlinking, Names, Ids, DetachDestination,
       Plain, Goto, directory, others
  <2>6. QED
    BY <2>2, <2>3, <2>4, <2>5 DEF PlacesInv
<1>14. CASE DetachSynced
  <2>1. Directories'
    BY <1>0, <1>14, SyncDoes DEF Directories, Names, Ids, DetachSynced, Plain, Goto, directory
  <2>2. TypeOK'
    BY <1>0, <1>14, <2>1 DEF TypeOK, Directories, Ids, Finds, DetachSynced, Plain, Goto,
       directory, others
  <2>3. Routes'
    BY <1>0, <1>14 DEF Routes, ReplaceSteps, RecoverySteps, ExchangeSteps, Replacing,
       Unlinking, DetachSynced, Plain, Goto, directory, others
  <2>4. Places'
    BY <1>0, <1>14, SyncDoes DEF Places, Routes, Finds, Directories, ReplaceSteps,
       RecoverySteps, ExchangeSteps, Replacing, Unlinking, Names, Ids, DetachSynced, Plain,
       Goto, directory, others
  <2>5. Finds'
    BY <1>0, <1>14, SyncDoes DEF Places, Routes, Finds, Directories, ReplaceSteps,
       RecoverySteps, ExchangeSteps, Replacing, Unlinking, Names, Ids, DetachSynced, Plain,
       Goto, directory, others
  <2>6. QED
    BY <2>2, <2>3, <2>4, <2>5 DEF PlacesInv
<1>15. CASE PublishReplacement
  <2>1. Directories'
    BY <1>0, <1>15, RenameDoes DEF Directories, Names, Ids, PublishReplacement, Plain, Goto,
       Fail, directory
  <2>2. TypeOK'
    BY <1>0, <1>15, <2>1 DEF TypeOK, Directories, Ids, Finds, PublishReplacement, Plain, Goto,
       Fail, directory, others
  <2>3. Routes'
    BY <1>0, <1>15 DEF Routes, ReplaceSteps, RecoverySteps, ExchangeSteps, Replacing,
       Unlinking, PublishReplacement, Plain, Goto, Fail, directory, others
  <2>4. Places'
    BY <1>0, <1>15, RenameDoes DEF Places, Routes, Finds, Directories, ReplaceSteps,
       RecoverySteps, ExchangeSteps, Replacing, Unlinking, Names, Ids, PublishReplacement,
       Plain, Goto, Fail, directory, others
  <2>5. Finds'
    BY <1>0, <1>15, RenameDoes DEF Places, Routes, Finds, Directories, ReplaceSteps,
       RecoverySteps, ExchangeSteps, Replacing, Unlinking, Names, Ids, PublishReplacement,
       Plain, Goto, Fail, directory, others
  <2>6. QED
    BY <2>2, <2>3, <2>4, <2>5 DEF PlacesInv
<1>16. CASE PublishFails
  <2>1. Directories'
    BY <1>0, <1>16, RenameDoes DEF Directories, Names, Ids, PublishFails, Fail, Goto, directory
  <2>2. TypeOK'
    BY <1>0, <1>16, <2>1 DEF TypeOK, Directories, Ids, Finds, PublishFails, Fail, Goto,
       directory, others
  <2>3. Routes'
    BY <1>0, <1>16 DEF Routes, ReplaceSteps, RecoverySteps, ExchangeSteps, Replacing,
       Unlinking, PublishFails, Fail, Goto, directory, others
  <2>4. Places'
    BY <1>0, <1>16, RenameDoes DEF Places, Routes, Finds, Directories, ReplaceSteps,
       RecoverySteps, ExchangeSteps, Replacing, Unlinking, Names, Ids, PublishFails, Fail,
       Goto, directory, others
  <2>5. Finds'
    BY <1>0, <1>16, RenameDoes DEF Places, Routes, Finds, Directories, ReplaceSteps,
       RecoverySteps, ExchangeSteps, Replacing, Unlinking, Names, Ids, PublishFails, Fail,
       Goto, directory, others
  <2>6. QED
    BY <2>2, <2>3, <2>4, <2>5 DEF PlacesInv
<1>17. CASE open_windows_finalization_guard
  <2>1. Directories'
    BY <1>0, <1>17 DEF Directories, Names, Ids, open_windows_finalization_guard, Goto, Fail,
       Bound, directory
  <2>2. TypeOK'
    BY <1>0, <1>17, <2>1 DEF TypeOK, Directories, Ids, Finds, open_windows_finalization_guard,
       Goto, Fail, Bound, directory, others
  <2>3. Routes'
    BY <1>0, <1>17 DEF Routes, ReplaceSteps, RecoverySteps, ExchangeSteps, Replacing,
       Unlinking, open_windows_finalization_guard, Goto, Fail, Bound, directory, others
  <2>4. Places'
    BY <1>0, <1>17 DEF Places, Routes, Finds, Directories, ReplaceSteps, RecoverySteps,
       ExchangeSteps, Replacing, Unlinking, Names, Ids, open_windows_finalization_guard, Goto,
       Fail, Bound, directory, others
  <2>5. Finds'
    BY <1>0, <1>17 DEF Places, Routes, Finds, Directories, ReplaceSteps, RecoverySteps,
       ExchangeSteps, Replacing, Unlinking, Names, Ids, open_windows_finalization_guard, Goto,
       Fail, Bound, directory, others
  <2>6. QED
    BY <2>2, <2>3, <2>4, <2>5 DEF PlacesInv
<1>18. CASE PublishSynced
  <2>1. Directories'
    BY <1>0, <1>18, SyncDoes DEF Directories, Names, Ids, PublishSynced, Plain, Goto, directory
  <2>2. TypeOK'
    BY <1>0, <1>18, <2>1 DEF TypeOK, Directories, Ids, Finds, PublishSynced, Plain, Goto,
       directory, others
  <2>3. Routes'
    BY <1>0, <1>18 DEF Routes, ReplaceSteps, RecoverySteps, ExchangeSteps, Replacing,
       Unlinking, PublishSynced, Plain, Goto, directory, others
  <2>4. Places'
    BY <1>0, <1>18, SyncDoes DEF Places, Routes, Finds, Directories, ReplaceSteps,
       RecoverySteps, ExchangeSteps, Replacing, Unlinking, Names, Ids, PublishSynced, Plain,
       Goto, directory, others
  <2>5. Finds'
    BY <1>0, <1>18, SyncDoes DEF Places, Routes, Finds, Directories, ReplaceSteps,
       RecoverySteps, ExchangeSteps, Replacing, Unlinking, Names, Ids, PublishSynced, Plain,
       Goto, directory, others
  <2>6. QED
    BY <2>2, <2>3, <2>4, <2>5 DEF PlacesInv
<1>19. CASE RemoveTombstone
  <2>1. Directories'
    BY <1>0, <1>19, RemoveDoes DEF Directories, Names, Ids, RemoveTombstone, Plain, Goto,
       directory
  <2>2. TypeOK'
    BY <1>0, <1>19, <2>1 DEF TypeOK, Directories, Ids, Finds, RemoveTombstone, Plain, Goto,
       directory, others
  <2>3. Routes'
    BY <1>0, <1>19 DEF Routes, ReplaceSteps, RecoverySteps, ExchangeSteps, Replacing,
       Unlinking, RemoveTombstone, Plain, Goto, directory, others
  <2>4. Places'
    BY <1>0, <1>19, RemoveDoes DEF Places, Routes, Finds, Directories, ReplaceSteps,
       RecoverySteps, ExchangeSteps, Replacing, Unlinking, Names, Ids, RemoveTombstone, Plain,
       Goto, directory, others
  <2>5. Finds'
    BY <1>0, <1>19, RemoveDoes DEF Places, Routes, Finds, Directories, ReplaceSteps,
       RecoverySteps, ExchangeSteps, Replacing, Unlinking, Names, Ids, RemoveTombstone, Plain,
       Goto, directory, others
  <2>6. QED
    BY <2>2, <2>3, <2>4, <2>5 DEF PlacesInv
<1>20. CASE TombSynced
  <2>1. Directories'
    BY <1>0, <1>20, SyncDoes DEF Directories, Names, Ids, TombSynced, Plain, Goto, directory
  <2>2. TypeOK'
    BY <1>0, <1>20, <2>1 DEF TypeOK, Directories, Ids, Finds, TombSynced, Plain, Goto,
       directory, others
  <2>3. Routes'
    BY <1>0, <1>20 DEF Routes, ReplaceSteps, RecoverySteps, ExchangeSteps, Replacing,
       Unlinking, TombSynced, Plain, Goto, directory, others
  <2>4. Places'
    BY <1>0, <1>20, SyncDoes DEF Places, Routes, Finds, Directories, ReplaceSteps,
       RecoverySteps, ExchangeSteps, Replacing, Unlinking, Names, Ids, TombSynced, Plain,
       Goto, directory, others
  <2>5. Finds'
    BY <1>0, <1>20, SyncDoes DEF Places, Routes, Finds, Directories, ReplaceSteps,
       RecoverySteps, ExchangeSteps, Replacing, Unlinking, Names, Ids, TombSynced, Plain,
       Goto, directory, others
  <2>6. QED
    BY <2>2, <2>3, <2>4, <2>5 DEF PlacesInv
<1>21. CASE RemoveRecord
  <2>1. Directories'
    BY <1>0, <1>21, RemoveDoes DEF Directories, Names, Ids, RemoveRecord, Plain, Goto, directory
  <2>2. TypeOK'
    BY <1>0, <1>21, <2>1 DEF TypeOK, Directories, Ids, Finds, RemoveRecord, Plain, Goto,
       directory, others
  <2>3. Routes'
    BY <1>0, <1>21 DEF Routes, ReplaceSteps, RecoverySteps, ExchangeSteps, Replacing,
       Unlinking, RemoveRecord, Plain, Goto, directory, others
  <2>4. Places'
    BY <1>0, <1>21, RemoveDoes DEF Places, Routes, Finds, Directories, ReplaceSteps,
       RecoverySteps, ExchangeSteps, Replacing, Unlinking, Names, Ids, RemoveRecord, Plain,
       Goto, directory, others
  <2>5. Finds'
    BY <1>0, <1>21, RemoveDoes DEF Places, Routes, Finds, Directories, ReplaceSteps,
       RecoverySteps, ExchangeSteps, Replacing, Unlinking, Names, Ids, RemoveRecord, Plain,
       Goto, directory, others
  <2>6. QED
    BY <2>2, <2>3, <2>4, <2>5 DEF PlacesInv
<1>22. CASE LastSync
  <2>1. Directories'
    BY <1>0, <1>22, SyncDoes DEF Directories, Names, Ids, LastSync, Goto, directory
  <2>2. TypeOK'
    BY <1>0, <1>22, <2>1 DEF TypeOK, Directories, Ids, Finds, LastSync, Goto, directory, others
  <2>3. Routes'
    BY <1>0, <1>22 DEF Routes, ReplaceSteps, RecoverySteps, ExchangeSteps, Replacing,
       Unlinking, LastSync, Goto, directory, others
  <2>4. Places'
    BY <1>0, <1>22, SyncDoes DEF Places, Routes, Finds, Directories, ReplaceSteps,
       RecoverySteps, ExchangeSteps, Replacing, Unlinking, Names, Ids, LastSync, Goto,
       directory, others
  <2>5. Finds'
    BY <1>0, <1>22, SyncDoes DEF Places, Routes, Finds, Directories, ReplaceSteps,
       RecoverySteps, ExchangeSteps, Replacing, Unlinking, Names, Ids, LastSync, Goto,
       directory, others
  <2>6. QED
    BY <2>2, <2>3, <2>4, <2>5 DEF PlacesInv
<1>23. CASE Recover
  <2>1. Directories'
    BY <1>0, <1>23 DEF Directories, Names, Ids, Recover, directory
  <2>2. TypeOK'
    BY <1>0, <1>23, <2>1 DEF TypeOK, Directories, Ids, Finds, Recover, directory, others
  <2>3. Routes'
    BY <1>0, <1>23 DEF Routes, Places, Directories, Ids, ReplaceSteps, RecoverySteps,
       ExchangeSteps, Replacing, Unlinking, Recover, directory, others
  <2>4. Places'
    BY <1>0, <1>23 DEF Places, Routes, Finds, Directories, ReplaceSteps, RecoverySteps,
       ExchangeSteps, Replacing, Unlinking, Names, Ids, Recover, directory, others
  <2>5. Finds'
    BY <1>0, <1>23 DEF Places, Routes, Finds, Directories, ReplaceSteps, RecoverySteps,
       ExchangeSteps, Replacing, Unlinking, Names, Ids, Recover, directory, others
  <2>6. QED
    BY <2>2, <2>3, <2>4, <2>5 DEF PlacesInv
<1>24. CASE recover_windows_replace_record_at
  <2>0. pc = "recover"
    BY <1>24 DEF recover_windows_replace_record_at
  <2>1. Directories'
    BY <1>0, <1>24, RecoverDoes, RenameDoes DEF Directories, Names, Refuse, Finalize, Goto,
       AfterRecovery, directory
  <2>2. TypeOK'
    BY <1>0, <1>24, <2>1, RecoverDoes DEF TypeOK, Directories, Ids, Refuse, Finalize, Goto,
       AfterRecovery, others
  <2>3. Routes'
    BY <1>0, <1>24, <2>0, RecoverDoes DEF Routes, ReplaceSteps, RecoverySteps, ExchangeSteps,
       Replacing, Unlinking, Refuse, Finalize, Goto, AfterRecovery
  <2>4. Places'
    BY <1>0, <1>24, RecoverDoes, RenameDoes DEF Places, Directories, Replacing, Unlinking,
       Names, Ids, Refuse, Finalize, Goto, AfterRecovery, directory
  <2>5. Finds'
    BY <1>0, <1>24, <2>0, RecoverDoes, RenameDoes DEF Finds, Directories, ReplaceSteps, Names,
       Refuse, Finalize, Goto, AfterRecovery, directory
  <2>6. QED
    BY <2>2, <2>3, <2>4, <2>5 DEF PlacesInv
<1>25. CASE RefuseTornRecord
  <2>1. Directories'
    BY <1>0, <1>25 DEF Directories, Names, Ids, RefuseTornRecord, Refuse, AfterRecovery,
       directory
  <2>2. TypeOK'
    BY <1>0, <1>25, <2>1 DEF TypeOK, Directories, Ids, Finds, RefuseTornRecord, Refuse,
       AfterRecovery, directory, others
  <2>3. Routes'
    BY <1>0, <1>25 DEF Routes, ReplaceSteps, RecoverySteps, ExchangeSteps, Replacing,
       Unlinking, RefuseTornRecord, Refuse, AfterRecovery, directory, others
  <2>4. Places'
    BY <1>0, <1>25 DEF Places, Routes, Finds, Directories, ReplaceSteps,
       RecoverySteps, ExchangeSteps, Replacing, Unlinking, Names, Ids,
       RefuseTornRecord, Refuse, AfterRecovery, directory, others
  <2>5. Finds'
    BY <1>0, <1>25 DEF Places, Routes, Finds, Directories, ReplaceSteps,
       RecoverySteps, ExchangeSteps, Replacing, Unlinking, Names, Ids,
       RefuseTornRecord, Refuse, AfterRecovery, directory, others
  <2>6. QED
    BY <2>2, <2>3, <2>4, <2>5 DEF PlacesInv
<1>26. CASE FinalizeSynced
  <2>1. Directories'
    BY <1>0, <1>26, SyncDoes DEF Directories, Names, Ids, FinalizeSynced, Plain, Goto, directory
  <2>2. TypeOK'
    BY <1>0, <1>26, <2>1 DEF TypeOK, Directories, Ids, Finds, FinalizeSynced, Plain, Goto,
       directory, others
  <2>3. Routes'
    BY <1>0, <1>26 DEF Routes, ReplaceSteps, RecoverySteps, ExchangeSteps, Replacing,
       Unlinking, FinalizeSynced, Plain, Goto, directory, others
  <2>4. Places'
    BY <1>0, <1>26, SyncDoes DEF Places, Routes, Finds, Directories, ReplaceSteps,
       RecoverySteps, ExchangeSteps, Replacing, Unlinking, Names, Ids, FinalizeSynced, Plain,
       Goto, directory, others
  <2>5. Finds'
    BY <1>0, <1>26, SyncDoes DEF Places, Routes, Finds, Directories, ReplaceSteps,
       RecoverySteps, ExchangeSteps, Replacing, Unlinking, Names, Ids, FinalizeSynced, Plain,
       Goto, directory, others
  <2>6. QED
    BY <2>2, <2>3, <2>4, <2>5 DEF PlacesInv
<1>27. CASE RemoveLeftover
  <2>1. Directories'
    BY <1>0, <1>27, RemoveDoes DEF Directories, Names, Ids, RemoveLeftover, Plain, Goto,
       Leftover, directory
  <2>2. TypeOK'
    BY <1>0, <1>27, <2>1 DEF TypeOK, Directories, Ids, Finds, RemoveLeftover, Plain, Goto,
       Leftover, directory, others
  <2>3. Routes'
    BY <1>0, <1>27 DEF Routes, ReplaceSteps, RecoverySteps, ExchangeSteps, Replacing,
       Unlinking, RemoveLeftover, Plain, Goto, Leftover, directory, others
  <2>4. Places'
    BY <1>0, <1>27, RemoveDoes DEF Places, Routes, Finds, Directories, ReplaceSteps,
       RecoverySteps, ExchangeSteps, Replacing, Unlinking, Names, Ids, RemoveLeftover, Plain,
       Goto, Leftover, directory, others
  <2>5. Finds'
    BY <1>0, <1>27, RemoveDoes DEF Places, Routes, Finds, Directories, ReplaceSteps,
       RecoverySteps, ExchangeSteps, Replacing, Unlinking, Names, Ids, RemoveLeftover, Plain,
       Goto, Leftover, directory, others
  <2>6. QED
    BY <2>2, <2>3, <2>4, <2>5 DEF PlacesInv
<1>28. CASE LeftoverSynced
  <2>1. Directories'
    BY <1>0, <1>28, SyncDoes DEF Directories, Names, Ids, LeftoverSynced, Plain, Goto, directory
  <2>2. TypeOK'
    BY <1>0, <1>28, <2>1 DEF TypeOK, Directories, Ids, Finds, LeftoverSynced, Plain, Goto,
       directory, others
  <2>3. Routes'
    BY <1>0, <1>28 DEF Routes, ReplaceSteps, RecoverySteps, ExchangeSteps, Replacing,
       Unlinking, LeftoverSynced, Plain, Goto, directory, others
  <2>4. Places'
    BY <1>0, <1>28, SyncDoes DEF Places, Routes, Finds, Directories, ReplaceSteps,
       RecoverySteps, ExchangeSteps, Replacing, Unlinking, Names, Ids, LeftoverSynced, Plain,
       Goto, directory, others
  <2>5. Finds'
    BY <1>0, <1>28, SyncDoes DEF Places, Routes, Finds, Directories, ReplaceSteps,
       RecoverySteps, ExchangeSteps, Replacing, Unlinking, Names, Ids, LeftoverSynced, Plain,
       Goto, directory, others
  <2>6. QED
    BY <2>2, <2>3, <2>4, <2>5 DEF PlacesInv
<1>29. CASE RecoveredRecord
  <2>1. Directories'
    BY <1>0, <1>29, RemoveDoes DEF Directories, Names, Ids, RecoveredRecord, Plain, Goto,
       directory
  <2>2. TypeOK'
    BY <1>0, <1>29, <2>1 DEF TypeOK, Directories, Ids, Finds, RecoveredRecord, Plain, Goto,
       directory, others
  <2>3. Routes'
    BY <1>0, <1>29 DEF Routes, ReplaceSteps, RecoverySteps, ExchangeSteps, Replacing,
       Unlinking, RecoveredRecord, Plain, Goto, directory, others
  <2>4. Places'
    BY <1>0, <1>29, RemoveDoes DEF Places, Routes, Finds, Directories, ReplaceSteps,
       RecoverySteps, ExchangeSteps, Replacing, Unlinking, Names, Ids, RecoveredRecord, Plain,
       Goto, directory, others
  <2>5. Finds'
    BY <1>0, <1>29, RemoveDoes DEF Places, Routes, Finds, Directories, ReplaceSteps,
       RecoverySteps, ExchangeSteps, Replacing, Unlinking, Names, Ids, RecoveredRecord, Plain,
       Goto, directory, others
  <2>6. QED
    BY <2>2, <2>3, <2>4, <2>5 DEF PlacesInv
<1>30. CASE RecoverySynced
  <2>1. Directories'
    BY <1>0, <1>30, SyncDoes DEF Directories, Names, Ids, RecoverySynced, Goto, AfterRecovery,
       directory
  <2>2. TypeOK'
    BY <1>0, <1>30, <2>1 DEF TypeOK, Directories, Ids, Finds, RecoverySynced, Goto,
       AfterRecovery, directory, others
  <2>3. Routes'
    BY <1>0, <1>30 DEF Routes, ReplaceSteps, RecoverySteps, ExchangeSteps, Replacing,
       Unlinking, RecoverySynced, Goto, AfterRecovery, directory, others
  <2>4. Places'
    BY <1>0, <1>30, SyncDoes DEF Places, Routes, Finds, Directories, ReplaceSteps,
       RecoverySteps, ExchangeSteps, Replacing, Unlinking, Names, Ids, RecoverySynced, Goto,
       AfterRecovery, directory, others
  <2>5. Finds'
    BY <1>0, <1>30, SyncDoes DEF Places, Routes, Finds, Directories, ReplaceSteps,
       RecoverySteps, ExchangeSteps, Replacing, Unlinking, Names, Ids, RecoverySynced, Goto,
       AfterRecovery, directory, others
  <2>6. QED
    BY <2>2, <2>3, <2>4, <2>5 DEF PlacesInv
<1>31. CASE AfterFailure
  <2>1. Directories'
    BY <1>0, <1>31 DEF Directories, Names, Ids, AfterFailure, Plain, Goto, directory
  <2>2. TypeOK'
    BY <1>0, <1>31, <2>1 DEF TypeOK, Directories, Ids, Finds, AfterFailure, Plain, Goto,
       directory, others
  <2>3. Routes'
    BY <1>0, <1>31 DEF Routes, Places, Directories, Ids, ReplaceSteps, RecoverySteps,
       ExchangeSteps, Replacing, Unlinking, AfterFailure, Plain, Goto, directory, others
  <2>4. Places'
    BY <1>0, <1>31 DEF Places, Routes, Finds, Directories, ReplaceSteps, RecoverySteps,
       ExchangeSteps, Replacing, Unlinking, Names, Ids, AfterFailure, Plain, Goto, directory,
       others
  <2>5. Finds'
    BY <1>0, <1>31 DEF Places, Routes, Finds, Directories, ReplaceSteps, RecoverySteps,
       ExchangeSteps, Replacing, Unlinking, Names, Ids, AfterFailure, Plain, Goto, directory,
       others
  <2>6. QED
    BY <2>2, <2>3, <2>4, <2>5 DEF PlacesInv
<1>32. CASE CleanupTemporary
  <2>1. Directories'
    BY <1>0, <1>32, RemoveDoes DEF Directories, Names, Ids, CleanupTemporary, Plain, Goto,
       Bound, directory
  <2>2. TypeOK'
    BY <1>0, <1>32, <2>1 DEF TypeOK, Directories, Ids, Finds, CleanupTemporary, Plain, Goto,
       Bound, directory, others
  <2>3. Routes'
    BY <1>0, <1>32 DEF Routes, ReplaceSteps, RecoverySteps, ExchangeSteps, Replacing,
       Unlinking, CleanupTemporary, Plain, Goto, Bound, directory, others
  <2>4. Places'
    BY <1>0, <1>32, RemoveDoes DEF Places, Routes, Finds, Directories, ReplaceSteps,
       RecoverySteps, ExchangeSteps, Replacing, Unlinking, Names, Ids, CleanupTemporary,
       Plain, Goto, Bound, directory, others
  <2>5. Finds'
    BY <1>0, <1>32, RemoveDoes DEF Places, Routes, Finds, Directories, ReplaceSteps,
       RecoverySteps, ExchangeSteps, Replacing, Unlinking, Names, Ids, CleanupTemporary,
       Plain, Goto, Bound, directory, others
  <2>6. QED
    BY <2>2, <2>3, <2>4, <2>5 DEF PlacesInv
<1>33. CASE CleanupSynced
  <2>1. Directories'
    BY <1>0, <1>33, SyncDoes DEF Directories, Names, Ids, CleanupSynced, Plain, Goto, directory
  <2>2. TypeOK'
    BY <1>0, <1>33, <2>1 DEF TypeOK, Directories, Ids, Finds, CleanupSynced, Plain, Goto,
       directory, others
  <2>3. Routes'
    BY <1>0, <1>33 DEF Routes, ReplaceSteps, RecoverySteps, ExchangeSteps, Replacing,
       Unlinking, CleanupSynced, Plain, Goto, directory, others
  <2>4. Places'
    BY <1>0, <1>33, SyncDoes DEF Places, Routes, Finds, Directories, ReplaceSteps,
       RecoverySteps, ExchangeSteps, Replacing, Unlinking, Names, Ids, CleanupSynced, Plain,
       Goto, directory, others
  <2>5. Finds'
    BY <1>0, <1>33, SyncDoes DEF Places, Routes, Finds, Directories, ReplaceSteps,
       RecoverySteps, ExchangeSteps, Replacing, Unlinking, Names, Ids, CleanupSynced, Plain,
       Goto, directory, others
  <2>6. QED
    BY <2>2, <2>3, <2>4, <2>5 DEF PlacesInv
<1>34. CASE rename_no_replace_to
  <2>1. Directories'
    BY <1>0, <1>34, RenameDoes DEF Directories, Names, Ids, rename_no_replace_to, Plain, Goto,
       Fail, Bound, directory
  <2>2. TypeOK'
    BY <1>0, <1>34, <2>1 DEF TypeOK, Directories, Ids, Finds, rename_no_replace_to, Plain,
       Goto, Fail, Bound, directory, others
  <2>3. Routes'
    BY <1>0, <1>34 DEF Routes, ReplaceSteps, RecoverySteps, ExchangeSteps, Replacing,
       Unlinking, rename_no_replace_to, Plain, Goto, Fail, Bound, directory, others
  <2>4. Places'
    BY <1>0, <1>34, RenameDoes DEF Places, Routes, Finds, Directories, ReplaceSteps,
       RecoverySteps, ExchangeSteps, Replacing, Unlinking, Names, Ids, rename_no_replace_to,
       Plain, Goto, Fail, Bound, directory, others
  <2>5. Finds'
    BY <1>0, <1>34, RenameDoes DEF Places, Routes, Finds, Directories, ReplaceSteps,
       RecoverySteps, ExchangeSteps, Replacing, Unlinking, Names, Ids, rename_no_replace_to,
       Plain, Goto, Fail, Bound, directory, others
  <2>6. QED
    BY <2>2, <2>3, <2>4, <2>5 DEF PlacesInv
<1>35. CASE CreatedSynced
  <2>1. Directories'
    BY <1>0, <1>35, SyncDoes DEF Directories, Names, Ids, CreatedSynced, Plain, Goto, Fail,
       Bound, directory
  <2>2. TypeOK'
    BY <1>0, <1>35, <2>1 DEF TypeOK, Directories, Ids, Finds, CreatedSynced, Plain, Goto,
       Fail, Bound, directory, others
  <2>3. Routes'
    BY <1>0, <1>35 DEF Routes, ReplaceSteps, RecoverySteps, ExchangeSteps, Replacing,
       Unlinking, CreatedSynced, Plain, Goto, Fail, Bound, directory, others
  <2>4. Places'
    BY <1>0, <1>35, SyncDoes DEF Places, Routes, Finds, Directories, ReplaceSteps,
       RecoverySteps, ExchangeSteps, Replacing, Unlinking, Names, Ids, CreatedSynced, Plain,
       Goto, Fail, Bound, directory, others
  <2>5. Finds'
    BY <1>0, <1>35, SyncDoes DEF Places, Routes, Finds, Directories, ReplaceSteps,
       RecoverySteps, ExchangeSteps, Replacing, Unlinking, Names, Ids, CreatedSynced, Plain,
       Goto, Fail, Bound, directory, others
  <2>6. QED
    BY <2>2, <2>3, <2>4, <2>5 DEF PlacesInv
<1>36. CASE UnixVerify
  <2>1. Directories'
    BY <1>0, <1>36 DEF Directories, Names, Ids, UnixVerify, Plain, Goto, Fail, Bound, directory
  <2>2. TypeOK'
    BY <1>0, <1>36, <2>1 DEF TypeOK, Directories, Ids, Finds, UnixVerify, Plain, Goto, Fail,
       Bound, directory, others
  <2>3. Routes'
    BY <1>0, <1>36 DEF Routes, ReplaceSteps, RecoverySteps, ExchangeSteps, Replacing,
       Unlinking, UnixVerify, Plain, Goto, Fail, Bound, directory, others
  <2>4. Places'
    BY <1>0, <1>36 DEF Places, Routes, Finds, Directories, ReplaceSteps, RecoverySteps,
       ExchangeSteps, Replacing, Unlinking, Names, Ids, UnixVerify, Plain, Goto, Fail, Bound,
       directory, others
  <2>5. Finds'
    BY <1>0, <1>36 DEF Places, Routes, Finds, Directories, ReplaceSteps, RecoverySteps,
       ExchangeSteps, Replacing, Unlinking, Names, Ids, UnixVerify, Plain, Goto, Fail, Bound,
       directory, others
  <2>6. QED
    BY <2>2, <2>3, <2>4, <2>5 DEF PlacesInv
<1>37. CASE anchored_exchange_files
  <2>1. Directories'
    BY <1>0, <1>37, ExchangeDoes DEF Directories, Names, Ids, anchored_exchange_files, Plain,
       Goto, Fail, directory
  <2>2. TypeOK'
    BY <1>0, <1>37, <2>1 DEF TypeOK, Directories, Ids, Finds, anchored_exchange_files, Plain,
       Goto, Fail, directory, others
  <2>3. Routes'
    BY <1>0, <1>37 DEF Routes, ReplaceSteps, RecoverySteps, ExchangeSteps, Replacing,
       Unlinking, anchored_exchange_files, Plain, Goto, Fail, directory, others
  <2>4. Places'
    BY <1>0, <1>37, ExchangeDoes DEF Places, Routes, Finds, Directories, ReplaceSteps,
       RecoverySteps, ExchangeSteps, Replacing, Unlinking, Names, Ids,
       anchored_exchange_files, Plain, Goto, Fail, directory, others
  <2>5. Finds'
    BY <1>0, <1>37, ExchangeDoes DEF Places, Routes, Finds, Directories, ReplaceSteps,
       RecoverySteps, ExchangeSteps, Replacing, Unlinking, Names, Ids,
       anchored_exchange_files, Plain, Goto, Fail, directory, others
  <2>6. QED
    BY <2>2, <2>3, <2>4, <2>5 DEF PlacesInv
<1>38. CASE ExchangeVerified
  <2>1. Directories'
    BY <1>0, <1>38, SyncDoes DEF Directories, Names, Ids, ExchangeVerified, Plain, Goto, Fail,
       Bound, directory
  <2>2. TypeOK'
    BY <1>0, <1>38, <2>1 DEF TypeOK, Directories, Ids, Finds, ExchangeVerified, Plain, Goto,
       Fail, Bound, directory, others
  <2>3. Routes'
    BY <1>0, <1>38 DEF Routes, ReplaceSteps, RecoverySteps, ExchangeSteps, Replacing,
       Unlinking, ExchangeVerified, Plain, Goto, Fail, Bound, directory, others
  <2>4. Places'
    BY <1>0, <1>38, SyncDoes DEF Places, Routes, Finds, Directories, ReplaceSteps,
       RecoverySteps, ExchangeSteps, Replacing, Unlinking, Names, Ids, ExchangeVerified,
       Plain, Goto, Fail, Bound, directory, others
  <2>5. Finds'
    BY <1>0, <1>38, SyncDoes DEF Places, Routes, Finds, Directories, ReplaceSteps,
       RecoverySteps, ExchangeSteps, Replacing, Unlinking, Names, Ids, ExchangeVerified,
       Plain, Goto, Fail, Bound, directory, others
  <2>6. QED
    BY <2>2, <2>3, <2>4, <2>5 DEF PlacesInv
<1>39. CASE RemoveOld
  <2>1. Directories'
    BY <1>0, <1>39, RemoveDoes DEF Directories, Names, Ids, RemoveOld, Plain, Goto, Fail,
       Bound, directory
  <2>2. TypeOK'
    BY <1>0, <1>39, <2>1 DEF TypeOK, Directories, Ids, Finds, RemoveOld, Plain, Goto, Fail,
       Bound, directory, others
  <2>3. Routes'
    BY <1>0, <1>39 DEF Routes, ReplaceSteps, RecoverySteps, ExchangeSteps, Replacing,
       Unlinking, RemoveOld, Plain, Goto, Fail, Bound, directory, others
  <2>4. Places'
    BY <1>0, <1>39, RemoveDoes DEF Places, Routes, Finds, Directories, ReplaceSteps,
       RecoverySteps, ExchangeSteps, Replacing, Unlinking, Names, Ids, RemoveOld, Plain, Goto,
       Fail, Bound, directory, others
  <2>5. Finds'
    BY <1>0, <1>39, RemoveDoes DEF Places, Routes, Finds, Directories, ReplaceSteps,
       RecoverySteps, ExchangeSteps, Replacing, Unlinking, Names, Ids, RemoveOld, Plain, Goto,
       Fail, Bound, directory, others
  <2>6. QED
    BY <2>2, <2>3, <2>4, <2>5 DEF PlacesInv
<1>40. CASE UnlinkVerify
  <2>1. Directories'
    BY <1>0, <1>40 DEF Directories, Names, Ids, UnlinkVerify, Plain, Goto, Fail, Bound,
       directory
  <2>2. TypeOK'
    BY <1>0, <1>40, <2>1 DEF TypeOK, Directories, Ids, Finds, UnlinkVerify, Plain, Goto, Fail,
       Bound, directory, others
  <2>3. Routes'
    BY <1>0, <1>40 DEF Routes, ReplaceSteps, RecoverySteps, ExchangeSteps, Replacing,
       Unlinking, UnlinkVerify, Plain, Goto, Fail, Bound, directory, others
  <2>4. Places'
    BY <1>0, <1>40 DEF Places, Routes, Finds, Directories, ReplaceSteps, RecoverySteps,
       ExchangeSteps, Replacing, Unlinking, Names, Ids, UnlinkVerify, Plain, Goto, Fail,
       Bound, directory, others
  <2>5. Finds'
    BY <1>0, <1>40 DEF Places, Routes, Finds, Directories, ReplaceSteps, RecoverySteps,
       ExchangeSteps, Replacing, Unlinking, Names, Ids, UnlinkVerify, Plain, Goto, Fail,
       Bound, directory, others
  <2>6. QED
    BY <2>2, <2>3, <2>4, <2>5 DEF PlacesInv
<1>41. CASE Detach
  <2>1. Directories'
    BY <1>0, <1>41, RenameDoes DEF Directories, Names, Ids, Detach, Plain, Goto, Fail, directory
  <2>2. TypeOK'
    BY <1>0, <1>41, <2>1 DEF TypeOK, Directories, Ids, Finds, Detach, Plain, Goto, Fail,
       directory, others
  <2>3. Routes'
    BY <1>0, <1>41 DEF Routes, ReplaceSteps, RecoverySteps, ExchangeSteps, Replacing,
       Unlinking, Detach, Plain, Goto, Fail, directory, others
  <2>4. Places'
    BY <1>0, <1>41, RenameDoes DEF Places, Routes, Finds, Directories, ReplaceSteps,
       RecoverySteps, ExchangeSteps, Replacing, Unlinking, Names, Ids, Detach, Plain, Goto,
       Fail, directory, others
  <2>5. Finds'
    BY <1>0, <1>41, RenameDoes DEF Places, Routes, Finds, Directories, ReplaceSteps,
       RecoverySteps, ExchangeSteps, Replacing, Unlinking, Names, Ids, Detach, Plain, Goto,
       Fail, directory, others
  <2>6. QED
    BY <2>2, <2>3, <2>4, <2>5 DEF PlacesInv
<1>42. CASE DetachedCheck
  <2>1. Directories'
    BY <1>0, <1>42, SyncDoes DEF Directories, Names, Ids, DetachedCheck, Plain, Goto, Fail,
       Bound, directory
  <2>2. TypeOK'
    BY <1>0, <1>42, <2>1 DEF TypeOK, Directories, Ids, Finds, DetachedCheck, Plain, Goto,
       Fail, Bound, directory, others
  <2>3. Routes'
    BY <1>0, <1>42 DEF Routes, ReplaceSteps, RecoverySteps, ExchangeSteps, Replacing,
       Unlinking, DetachedCheck, Plain, Goto, Fail, Bound, directory, others
  <2>4. Places'
    BY <1>0, <1>42, SyncDoes DEF Places, Routes, Finds, Directories, ReplaceSteps,
       RecoverySteps, ExchangeSteps, Replacing, Unlinking, Names, Ids, DetachedCheck, Plain,
       Goto, Fail, Bound, directory, others
  <2>5. Finds'
    BY <1>0, <1>42, SyncDoes DEF Places, Routes, Finds, Directories, ReplaceSteps,
       RecoverySteps, ExchangeSteps, Replacing, Unlinking, Names, Ids, DetachedCheck, Plain,
       Goto, Fail, Bound, directory, others
  <2>6. QED
    BY <2>2, <2>3, <2>4, <2>5 DEF PlacesInv
<1>43. CASE RemoveDetached
  <2>1. Directories'
    BY <1>0, <1>43, RemoveDoes DEF Directories, Names, Ids, RemoveDetached, Plain, Goto,
       directory
  <2>2. TypeOK'
    BY <1>0, <1>43, <2>1 DEF TypeOK, Directories, Ids, Finds, RemoveDetached, Plain, Goto,
       directory, others
  <2>3. Routes'
    BY <1>0, <1>43 DEF Routes, ReplaceSteps, RecoverySteps, ExchangeSteps, Replacing,
       Unlinking, RemoveDetached, Plain, Goto, directory, others
  <2>4. Places'
    BY <1>0, <1>43, RemoveDoes DEF Places, Routes, Finds, Directories, ReplaceSteps,
       RecoverySteps, ExchangeSteps, Replacing, Unlinking, Names, Ids, RemoveDetached, Plain,
       Goto, directory, others
  <2>5. Finds'
    BY <1>0, <1>43, RemoveDoes DEF Places, Routes, Finds, Directories, ReplaceSteps,
       RecoverySteps, ExchangeSteps, Replacing, Unlinking, Names, Ids, RemoveDetached, Plain,
       Goto, directory, others
  <2>6. QED
    BY <2>2, <2>3, <2>4, <2>5 DEF PlacesInv
<1>44. CASE Rollback
  <2>1. Directories'
    BY <1>0, <1>44, RenameDoes DEF Directories, Names, Ids, Rollback, Plain, Goto, directory
  <2>2. TypeOK'
    BY <1>0, <1>44, <2>1 DEF TypeOK, Directories, Ids, Finds, Rollback, Plain, Goto,
       directory, others
  <2>3. Routes'
    BY <1>0, <1>44 DEF Routes, ReplaceSteps, RecoverySteps, ExchangeSteps, Replacing,
       Unlinking, Rollback, Plain, Goto, directory, others
  <2>4. Places'
    BY <1>0, <1>44, RenameDoes DEF Places, Routes, Finds, Directories, ReplaceSteps,
       RecoverySteps, ExchangeSteps, Replacing, Unlinking, Names, Ids, Rollback, Plain, Goto,
       directory, others
  <2>5. Finds'
    BY <1>0, <1>44, RenameDoes DEF Places, Routes, Finds, Directories, ReplaceSteps,
       RecoverySteps, ExchangeSteps, Replacing, Unlinking, Names, Ids, Rollback, Plain, Goto,
       directory, others
  <2>6. QED
    BY <2>2, <2>3, <2>4, <2>5 DEF PlacesInv
<1>45. CASE RolledBackSynced
  <2>1. Directories'
    BY <1>0, <1>45, SyncDoes DEF Directories, Names, Ids, RolledBackSynced, Fail, Goto,
       directory
  <2>2. TypeOK'
    BY <1>0, <1>45, <2>1 DEF TypeOK, Directories, Ids, Finds, RolledBackSynced, Fail, Goto,
       directory, others
  <2>3. Routes'
    BY <1>0, <1>45 DEF Routes, ReplaceSteps, RecoverySteps, ExchangeSteps, Replacing,
       Unlinking, RolledBackSynced, Fail, Goto, directory, others
  <2>4. Places'
    BY <1>0, <1>45, SyncDoes DEF Places, Routes, Finds, Directories, ReplaceSteps,
       RecoverySteps, ExchangeSteps, Replacing, Unlinking, Names, Ids, RolledBackSynced, Fail,
       Goto, directory, others
  <2>5. Finds'
    BY <1>0, <1>45, SyncDoes DEF Places, Routes, Finds, Directories, ReplaceSteps,
       RecoverySteps, ExchangeSteps, Replacing, Unlinking, Names, Ids, RolledBackSynced, Fail,
       Goto, directory, others
  <2>6. QED
    BY <2>2, <2>3, <2>4, <2>5 DEF PlacesInv
<1>46. CASE OpenForRemoval
  <2>1. Directories'
    BY <1>0, <1>46 DEF Directories, Names, Ids, OpenForRemoval, Goto, Fail, Bound, directory
  <2>2. TypeOK'
    BY <1>0, <1>46, <2>1 DEF TypeOK, Directories, Ids, Finds, OpenForRemoval, Goto, Fail,
       Bound, directory, others
  <2>3. Routes'
    BY <1>0, <1>46 DEF Routes, ReplaceSteps, RecoverySteps, ExchangeSteps, Replacing,
       Unlinking, OpenForRemoval, Goto, Fail, Bound, directory, others
  <2>4. Places'
    BY <1>0, <1>46 DEF Places, Routes, Finds, Directories, ReplaceSteps, RecoverySteps,
       ExchangeSteps, Replacing, Unlinking, Names, Ids, OpenForRemoval, Goto, Fail, Bound,
       directory, others
  <2>5. Finds'
    BY <1>0, <1>46 DEF Places, Routes, Finds, Directories, ReplaceSteps, RecoverySteps,
       ExchangeSteps, Replacing, Unlinking, Names, Ids, OpenForRemoval, Goto, Fail, Bound,
       directory, others
  <2>6. QED
    BY <2>2, <2>3, <2>4, <2>5 DEF PlacesInv
<1>47. CASE remove_open_handle
  <2>1. Directories'
    BY <1>0, <1>47, RemoveDoes DEF Directories, Names, Ids, remove_open_handle, Goto, Fail,
       directory
  <2>2. TypeOK'
    BY <1>0, <1>47, <2>1 DEF TypeOK, Directories, Ids, Finds, remove_open_handle, Goto, Fail,
       directory, others
  <2>3. Routes'
    BY <1>0, <1>47 DEF Routes, ReplaceSteps, RecoverySteps, ExchangeSteps, Replacing,
       Unlinking, remove_open_handle, Goto, Fail, directory, others
  <2>4. Places'
    BY <1>0, <1>47, RemoveDoes DEF Places, Routes, Finds, Directories, ReplaceSteps,
       RecoverySteps, ExchangeSteps, Replacing, Unlinking, Names, Ids, remove_open_handle,
       Goto, Fail, directory, others
  <2>5. Finds'
    BY <1>0, <1>47, RemoveDoes DEF Places, Routes, Finds, Directories, ReplaceSteps,
       RecoverySteps, ExchangeSteps, Replacing, Unlinking, Names, Ids, remove_open_handle,
       Goto, Fail, directory, others
  <2>6. QED
    BY <2>2, <2>3, <2>4, <2>5 DEF PlacesInv
<1>48. CASE UNCHANGED vars
  BY <1>0, <1>48 DEF PlacesInv, TypeOK, Routes, Places, Finds, Replacing, Unlinking, vars
<1>49. QED
  BY <1>1, <1>2, <1>3, <1>4, <1>5, <1>6, <1>7, <1>8, <1>9, <1>10, <1>11, <1>12, <1>13,
     <1>14, <1>15, <1>16, <1>17, <1>18, <1>19, <1>20, <1>21, <1>22, <1>23, <1>24, <1>25,
     <1>26, <1>27, <1>28, <1>29, <1>30, <1>31, <1>32, <1>33, <1>34, <1>35, <1>36, <1>37,
     <1>38, <1>39, <1>40, <1>41, <1>42, <1>43, <1>44, <1>45, <1>46, <1>47,
     <1>48 DEF Next, Other

(* Every state has its types. *)
THEOREM AnchoredTypeCorrect == Spec => []TypeOK
<1>1. PlacesInv /\ [Next]_vars => PlacesInv'
  BY PlacesStep
<1>2. PlacesInv => TypeOK
  BY DEF PlacesInv
<1>3. QED
  BY <1>1, <1>2, PlacesInit, PTL DEF Spec

-----------------------------------------------------------------------------
(* Replacement. *)

(* Others are not undone: what was disturbed stays so. *)
LEMMA OthersAreNoted ==
    ASSUME TypeOK, OtherReplaces
    PROVE  ~Undisturbed'
BY AnchoredAssumption DEF TypeOK, OtherReplaces, Undisturbed, Directory, Names, Ids

(* No step leaves a directory without the old or the new file. *)
LEMMA AtomicStep ==
    ASSUME PlacesInv, PlacesInv', AtomicInv, [Next]_vars
    PROVE  AtomicInv'
<1> USE AnchoredAssumption
<1>0. /\ TypeOK /\ Routes /\ Places /\ Finds /\ Directories
      /\ AllGood /\ Untouched /\ AfterSync /\ Replaced /\ Finished /\ Understood
  BY DEF PlacesInv, TypeOK, Directories, AtomicInv
<1>1. CASE OtherReplaces
  <2>1. ~Undisturbed'
    BY <1>0, <1>1, OthersAreNoted
  <2>2. QED
    BY <2>1 DEF AtomicInv, AllGood, Untouched, AfterSync, Replaced, Finished,
       Understood
<1>2. CASE OtherWrites
  <2>1. AllGood' /\ Untouched' /\ AfterSync' /\ Replaced' /\ Finished'
    BY <1>0, <1>2 DEF AllGood, Untouched, AfterSync, Replaced, Finished, Finds, Good, Synced,
       Routes, ReplaceSteps, RecoverySteps, Undisturbed, Replacing, others, directory,
       OtherWrites
  <2>2. Understood'
    BY <1>0, <1>2 DEF Understood, Undisturbed, Replacing, others, directory,
       OtherWrites
  <2>3. QED
    BY <2>1, <2>2 DEF AtomicInv
<1>3. CASE OtherFills
  <2>1. AllGood' /\ Untouched' /\ AfterSync' /\ Replaced' /\ Finished'
    BY <1>0, <1>3 DEF AllGood, Untouched, AfterSync, Replaced, Finished, Finds, Good, Synced,
       Routes, ReplaceSteps, RecoverySteps, Undisturbed, Replacing, others, directory,
       OtherFills
  <2>2. Understood'
    BY <1>0, <1>3 DEF Understood, Undisturbed, Replacing, others, directory, OtherFills
  <2>3. QED
    BY <2>1, <2>2 DEF AtomicInv
<1>4. CASE Crash
  <2>1. AllGood' /\ Untouched' /\ AfterSync' /\ Replaced' /\ Finished'
    BY <1>0, <1>4 DEF AllGood, Untouched, AfterSync, Replaced, Finished, Finds, Good, Synced,
       Routes, ReplaceSteps, RecoverySteps, Undisturbed, Replacing, others, directory, Crash
  <2>2. Understood'
    BY <1>0, <1>4 DEF Understood, Undisturbed, Replacing, others, directory, Crash
  <2>3. QED
    BY <2>1, <2>2 DEF AtomicInv
<1>5. CASE PowerLoss
  <2>1. AllGood'
    BY <1>0, <1>5 DEF AllGood, Untouched, AfterSync, Synced, Good, Directories, Places, Finds,
       Routes, ReplaceSteps, RecoverySteps, ExchangeSteps, Names, Unlinking, Undisturbed,
       Replacing, others, directory, PowerLoss
  <2>2. Untouched' /\ AfterSync' /\ Replaced'
    BY <1>0, <1>5 DEF Untouched, AfterSync, Replaced, Synced, Names, Unlinking, Directories,
       Undisturbed, Replacing, others, directory, PowerLoss
  <2>3. Finished'
    BY <1>0, <1>5 DEF Finished, Synced, Finds, Places, Routes, Replaced, Directories,
       ReplaceSteps, RecoverySteps, ExchangeSteps, Names, Unlinking, Undisturbed, Replacing,
       others, directory, PowerLoss
  <2>4. Understood'
    BY <1>0, <1>5 DEF Understood, Undisturbed, Replacing, others, directory, PowerLoss
  <2>5. QED
    BY <2>1, <2>2, <2>3, <2>4 DEF AtomicInv
<1>6. CASE IoError
  <2>1. AllGood' /\ Untouched' /\ AfterSync' /\ Replaced' /\ Finished'
    BY <1>0, <1>6 DEF AllGood, Untouched, AfterSync, Replaced, Finished, Finds, Good, Synced,
       Routes, ReplaceSteps, RecoverySteps, Undisturbed, Replacing, others, directory,
       IoError, AfterRecovery, Recovering
  <2>2. Understood'
    BY <1>0, <1>6 DEF Understood, Undisturbed, Replacing, others, directory, IoError,
       AfterRecovery, Recovering
  <2>3. QED
    BY <2>1, <2>2 DEF AtomicInv
<1>7. CASE WindowsVerify
  <2>1. AllGood' /\ Untouched' /\ AfterSync' /\ Replaced' /\ Finished'
    BY <1>0, <1>7 DEF AllGood, Untouched, AfterSync, Replaced, Finished, Finds, Good, Synced,
       Routes, ReplaceSteps, RecoverySteps, Undisturbed, Replacing, others, directory,
       WindowsVerify, Goto, Fail, Bound
  <2>2. Understood'
    BY <1>0, <1>7 DEF Understood, Undisturbed, Replacing, others, directory,
       WindowsVerify, Goto, Fail, Bound
  <2>3. QED
    BY <2>1, <2>2 DEF AtomicInv
<1>8. CASE CreateRecord
  <2>1. AllGood'
    BY <1>0, <1>8, CreateDoes DEF AllGood, Untouched, AfterSync, Synced, Good, Directories,
       Places, Finds, Routes, ReplaceSteps, RecoverySteps, ExchangeSteps, Names, Unlinking,
       Ids, Undisturbed, Replacing, others, directory, CreateRecord, Plain,
       Goto
  <2>2. Untouched' /\ AfterSync' /\ Replaced'
    BY <1>0, <1>8, CreateDoes DEF Untouched, AfterSync, Replaced, Synced, Names, Unlinking,
       Directories, Ids, Undisturbed, Replacing, others, directory,
       CreateRecord, Plain, Goto
  <2>3. Finished'
    BY <1>0, <1>8, CreateDoes DEF Finished, Synced, Finds, Places, Routes, Replaced,
       Directories, ReplaceSteps, RecoverySteps, ExchangeSteps, Names, Unlinking, Undisturbed,
       Replacing, others, directory, CreateRecord, Plain, Goto
  <2>4. Understood'
    BY <1>0, <1>8 DEF Understood, Undisturbed, Replacing, others, directory,
       CreateRecord, Plain, Goto
  <2>5. QED
    BY <2>1, <2>2, <2>3, <2>4 DEF AtomicInv
<1>9. CASE WriteRecord
  <2>1. AllGood'
    BY <1>0, <1>9 DEF AllGood, Untouched, AfterSync, Synced, Good, Directories,
       Places, Finds, Routes, ReplaceSteps, RecoverySteps, ExchangeSteps, Names, Unlinking,
       Ids, Undisturbed, Replacing, others, directory, WriteRecord, Plain,
       Goto
  <2>2. Untouched' /\ AfterSync' /\ Replaced'
    BY <1>0, <1>9 DEF Untouched, AfterSync, Replaced, Synced, Names, Unlinking,
       Directories, Ids, Undisturbed, Replacing, others, directory,
       WriteRecord, Plain, Goto
  <2>3. Finished'
    BY <1>0, <1>9 DEF Finished, Synced, Finds, Places, Routes, Replaced,
       Directories, ReplaceSteps, RecoverySteps, ExchangeSteps, Names, Unlinking, Undisturbed,
       Replacing, others, directory, WriteRecord, Plain, Goto
  <2>4. Understood'
    BY <1>0, <1>9 DEF Understood, Undisturbed, Replacing, others, directory,
       WriteRecord, Plain, Goto
  <2>5. QED
    BY <2>1, <2>2, <2>3, <2>4 DEF AtomicInv
<1>10. CASE RecordFileSynced
  <2>1. AllGood'
    BY <1>0, <1>10 DEF AllGood, Untouched, AfterSync, Synced, Good, Directories,
       Places, Finds, Routes, ReplaceSteps, RecoverySteps, ExchangeSteps, Names, Unlinking,
       Ids, Undisturbed, Replacing, others, directory, RecordFileSynced, Plain,
       Goto
  <2>2. Untouched' /\ AfterSync' /\ Replaced'
    BY <1>0, <1>10 DEF Untouched, AfterSync, Replaced, Synced, Names, Unlinking,
       Directories, Ids, Undisturbed, Replacing, others, directory,
       RecordFileSynced, Plain, Goto
  <2>3. Finished'
    BY <1>0, <1>10 DEF Finished, Synced, Finds, Places, Routes, Replaced,
       Directories, ReplaceSteps, RecoverySteps, ExchangeSteps, Names, Unlinking, Undisturbed,
       Replacing, others, directory, RecordFileSynced, Plain, Goto
  <2>4. Understood'
    BY <1>0, <1>10 DEF Understood, Undisturbed, Replacing, others, directory,
       RecordFileSynced, Plain, Goto
  <2>5. QED
    BY <2>1, <2>2, <2>3, <2>4 DEF AtomicInv
<1>11. CASE RecordSynced
  <2>1. AllGood'
    BY <1>0, <1>11, SyncDoes DEF AllGood, Untouched, AfterSync, Synced, Good, Directories,
       Places, Finds, Routes, ReplaceSteps, RecoverySteps, ExchangeSteps, Names, Unlinking,
       Undisturbed, Replacing, others, directory, RecordSynced, Plain, Goto
  <2>2. Untouched' /\ AfterSync' /\ Replaced'
    BY <1>0, <1>11, SyncDoes DEF Untouched, AfterSync, Replaced, Synced, Names, Unlinking,
       Directories, Undisturbed, Replacing, others, directory, RecordSynced, Plain, Goto
  <2>3. Finished'
    BY <1>0, <1>11, SyncDoes DEF Finished, Synced, Finds, Places, Routes, Replaced,
       Directories, ReplaceSteps, RecoverySteps, ExchangeSteps, Names, Unlinking, Undisturbed,
       Replacing, others, directory, RecordSynced, Plain, Goto
  <2>4. Understood'
    BY <1>0, <1>11 DEF Understood, Undisturbed, Replacing, others, directory,
       RecordSynced, Plain, Goto
  <2>5. QED
    BY <2>1, <2>2, <2>3, <2>4 DEF AtomicInv
<1>12. CASE RecordFails
  <2>1. AllGood'
    BY <1>0, <1>12, RemoveDoes DEF AllGood, Untouched, AfterSync, Synced, Good, Directories,
       Places, Finds, Routes, ReplaceSteps, RecoverySteps, ExchangeSteps, Names, Unlinking,
       Undisturbed, Replacing, others, directory, RecordFails, Fail, Goto
  <2>2. Untouched' /\ AfterSync' /\ Replaced'
    BY <1>0, <1>12, RemoveDoes DEF Untouched, AfterSync, Replaced, Synced, Names, Unlinking,
       Directories, Undisturbed, Replacing, others, directory, RecordFails, Fail, Goto
  <2>3. Finished'
    BY <1>0, <1>12, RemoveDoes DEF Finished, Synced, Finds, Places, Routes, Replaced,
       Directories, ReplaceSteps, RecoverySteps, ExchangeSteps, Names, Unlinking, Undisturbed,
       Replacing, others, directory, RecordFails, Fail, Goto
  <2>4. Understood'
    BY <1>0, <1>12 DEF Understood, Undisturbed, Replacing, others, directory,
       RecordFails, Fail, Goto
  <2>5. QED
    BY <2>1, <2>2, <2>3, <2>4 DEF AtomicInv
<1>13. CASE DetachDestination
  <2>1. AllGood'
    BY <1>0, <1>13, RenameDoes DEF AllGood, Untouched, AfterSync, Synced, Good, Directories,
       Places, Finds, Routes, ReplaceSteps, RecoverySteps, ExchangeSteps, Names, Unlinking,
       Undisturbed, Replacing, others, directory, DetachDestination, Plain, Goto
  <2>2. Untouched' /\ AfterSync' /\ Replaced'
    BY <1>0, <1>13, RenameDoes DEF Untouched, AfterSync, Replaced, Synced, Names, Unlinking,
       Directories, Undisturbed, Replacing, others, directory, DetachDestination, Plain, Goto
  <2>3. Finished'
    BY <1>0, <1>13, RenameDoes DEF Finished, Synced, Finds, Places, Routes, Replaced,
       Directories, ReplaceSteps, RecoverySteps, ExchangeSteps, Names, Unlinking, Undisturbed,
       Replacing, others, directory, DetachDestination, Plain, Goto
  <2>4. Understood'
    BY <1>0, <1>13 DEF Understood, Undisturbed, Replacing, others, directory,
       DetachDestination, Plain, Goto
  <2>5. QED
    BY <2>1, <2>2, <2>3, <2>4 DEF AtomicInv
<1>14. CASE DetachSynced
  <2>1. AllGood'
    BY <1>0, <1>14, SyncDoes DEF AllGood, Untouched, AfterSync, Synced, Good, Directories,
       Places, Finds, Routes, ReplaceSteps, RecoverySteps, ExchangeSteps, Names, Unlinking,
       Undisturbed, Replacing, others, directory, DetachSynced, Plain, Goto
  <2>2. Untouched' /\ AfterSync' /\ Replaced'
    BY <1>0, <1>14, SyncDoes DEF Untouched, AfterSync, Replaced, Synced, Names, Unlinking,
       Directories, Undisturbed, Replacing, others, directory, DetachSynced, Plain, Goto
  <2>3. Finished'
    BY <1>0, <1>14, SyncDoes DEF Finished, Synced, Finds, Places, Routes, Replaced,
       Directories, ReplaceSteps, RecoverySteps, ExchangeSteps, Names, Unlinking, Undisturbed,
       Replacing, others, directory, DetachSynced, Plain, Goto
  <2>4. Understood'
    BY <1>0, <1>14 DEF Understood, Undisturbed, Replacing, others, directory,
       DetachSynced, Plain, Goto
  <2>5. QED
    BY <2>1, <2>2, <2>3, <2>4 DEF AtomicInv
<1>15. CASE PublishReplacement
  <2>1. AllGood'
    BY <1>0, <1>15, RenameDoes DEF AllGood, Untouched, AfterSync, Synced, Good, Directories,
       Places, Finds, Routes, ReplaceSteps, RecoverySteps, ExchangeSteps, Names, Unlinking,
       Undisturbed, Replacing, others, directory, PublishReplacement, Plain, Goto, Fail
  <2>2. Untouched' /\ AfterSync' /\ Replaced'
    BY <1>0, <1>15, RenameDoes DEF Untouched, AfterSync, Replaced, Synced, Names, Unlinking,
       Directories, Undisturbed, Replacing, others, directory, PublishReplacement, Plain,
       Goto, Fail
  <2>3. Finished'
    BY <1>0, <1>15, RenameDoes DEF Finished, Synced, Finds, Places, Routes, Replaced,
       Directories, ReplaceSteps, RecoverySteps, ExchangeSteps, Names, Unlinking, Undisturbed,
       Replacing, others, directory, PublishReplacement, Plain, Goto, Fail
  <2>4. Understood'
    BY <1>0, <1>15 DEF Understood, Undisturbed, Replacing, others, directory,
       PublishReplacement, Plain, Goto, Fail
  <2>5. QED
    BY <2>1, <2>2, <2>3, <2>4 DEF AtomicInv
<1>16. CASE PublishFails
  <2>1. AllGood'
    BY <1>0, <1>16, RenameDoes DEF AllGood, Untouched, AfterSync, Synced, Good, Directories,
       Places, Finds, Routes, ReplaceSteps, RecoverySteps, ExchangeSteps, Names, Unlinking,
       Undisturbed, Replacing, others, directory, PublishFails, Fail, Goto
  <2>2. Untouched' /\ AfterSync' /\ Replaced'
    BY <1>0, <1>16, RenameDoes DEF Untouched, AfterSync, Replaced, Synced, Names, Unlinking,
       Directories, Undisturbed, Replacing, others, directory, PublishFails, Fail, Goto
  <2>3. Finished'
    BY <1>0, <1>16, RenameDoes DEF Finished, Synced, Finds, Places, Routes, Replaced,
       Directories, ReplaceSteps, RecoverySteps, ExchangeSteps, Names, Unlinking, Undisturbed,
       Replacing, others, directory, PublishFails, Fail, Goto
  <2>4. Understood'
    BY <1>0, <1>16 DEF Understood, Undisturbed, Replacing, others, directory,
       PublishFails, Fail, Goto
  <2>5. QED
    BY <2>1, <2>2, <2>3, <2>4 DEF AtomicInv
<1>17. CASE open_windows_finalization_guard
  <2>1. AllGood' /\ Untouched' /\ AfterSync' /\ Replaced' /\ Finished'
    BY <1>0, <1>17 DEF AllGood, Untouched, AfterSync, Replaced, Finished, Finds, Good, Synced,
       Routes, ReplaceSteps, RecoverySteps, Undisturbed, Replacing, others, directory,
       open_windows_finalization_guard, Goto, Fail, Bound
  <2>2. Understood'
    BY <1>0, <1>17 DEF Understood, Undisturbed, Replacing, others, directory,
       open_windows_finalization_guard, Goto, Fail, Bound
  <2>3. QED
    BY <2>1, <2>2 DEF AtomicInv
<1>18. CASE PublishSynced
  <2>1. AllGood'
    BY <1>0, <1>18, SyncDoes DEF AllGood, Untouched, AfterSync, Synced, Good, Directories,
       Places, Finds, Routes, ReplaceSteps, RecoverySteps, ExchangeSteps, Names, Unlinking,
       Undisturbed, Replacing, others, directory, PublishSynced, Plain, Goto
  <2>2. Untouched' /\ AfterSync' /\ Replaced'
    BY <1>0, <1>18, SyncDoes DEF Untouched, AfterSync, Replaced, Synced, Names, Unlinking,
       Directories, Undisturbed, Replacing, others, directory, PublishSynced, Plain, Goto
  <2>3. Finished'
    BY <1>0, <1>18, SyncDoes DEF Finished, Synced, Finds, Places, Routes, Replaced,
       Directories, ReplaceSteps, RecoverySteps, ExchangeSteps, Names, Unlinking, Undisturbed,
       Replacing, others, directory, PublishSynced, Plain, Goto
  <2>4. Understood'
    BY <1>0, <1>18 DEF Understood, Undisturbed, Replacing, others, directory,
       PublishSynced, Plain, Goto
  <2>5. QED
    BY <2>1, <2>2, <2>3, <2>4 DEF AtomicInv
<1>19. CASE RemoveTombstone
  <2>1. AllGood'
    BY <1>0, <1>19, RemoveDoes DEF AllGood, Untouched, AfterSync, Synced, Good, Directories,
       Places, Finds, Routes, ReplaceSteps, RecoverySteps, ExchangeSteps, Names, Unlinking,
       Undisturbed, Replacing, others, directory, RemoveTombstone, Plain, Goto
  <2>2. Untouched' /\ AfterSync' /\ Replaced'
    BY <1>0, <1>19, RemoveDoes DEF Untouched, AfterSync, Replaced, Synced, Names, Unlinking,
       Directories, Undisturbed, Replacing, others, directory, RemoveTombstone, Plain, Goto
  <2>3. Finished'
    BY <1>0, <1>19, RemoveDoes DEF Finished, Synced, Finds, Places, Routes, Replaced,
       Directories, ReplaceSteps, RecoverySteps, ExchangeSteps, Names, Unlinking, Undisturbed,
       Replacing, others, directory, RemoveTombstone, Plain, Goto
  <2>4. Understood'
    BY <1>0, <1>19 DEF Understood, Undisturbed, Replacing, others, directory,
       RemoveTombstone, Plain, Goto
  <2>5. QED
    BY <2>1, <2>2, <2>3, <2>4 DEF AtomicInv
<1>20. CASE TombSynced
  <2>1. AllGood'
    BY <1>0, <1>20, SyncDoes DEF AllGood, Untouched, AfterSync, Synced, Good, Directories,
       Places, Finds, Routes, ReplaceSteps, RecoverySteps, ExchangeSteps, Names, Unlinking,
       Undisturbed, Replacing, others, directory, TombSynced, Plain, Goto
  <2>2. Untouched' /\ AfterSync' /\ Replaced'
    BY <1>0, <1>20, SyncDoes DEF Untouched, AfterSync, Replaced, Synced, Names, Unlinking,
       Directories, Undisturbed, Replacing, others, directory, TombSynced, Plain, Goto
  <2>3. Finished'
    BY <1>0, <1>20, SyncDoes DEF Finished, Synced, Finds, Places, Routes, Replaced,
       Directories, ReplaceSteps, RecoverySteps, ExchangeSteps, Names, Unlinking, Undisturbed,
       Replacing, others, directory, TombSynced, Plain, Goto
  <2>4. Understood'
    BY <1>0, <1>20 DEF Understood, Undisturbed, Replacing, others, directory,
       TombSynced, Plain, Goto
  <2>5. QED
    BY <2>1, <2>2, <2>3, <2>4 DEF AtomicInv
<1>21. CASE RemoveRecord
  <2>1. AllGood'
    BY <1>0, <1>21, RemoveDoes DEF AllGood, Untouched, AfterSync, Synced, Good, Directories,
       Places, Finds, Routes, ReplaceSteps, RecoverySteps, ExchangeSteps, Names, Unlinking,
       Undisturbed, Replacing, others, directory, RemoveRecord, Plain, Goto
  <2>2. Untouched' /\ AfterSync' /\ Replaced'
    BY <1>0, <1>21, RemoveDoes DEF Untouched, AfterSync, Replaced, Synced, Names, Unlinking,
       Directories, Undisturbed, Replacing, others, directory, RemoveRecord, Plain, Goto
  <2>3. Finished'
    BY <1>0, <1>21, RemoveDoes DEF Finished, Synced, Finds, Places, Routes, Replaced,
       Directories, ReplaceSteps, RecoverySteps, ExchangeSteps, Names, Unlinking, Undisturbed,
       Replacing, others, directory, RemoveRecord, Plain, Goto
  <2>4. Understood'
    BY <1>0, <1>21 DEF Understood, Undisturbed, Replacing, others, directory,
       RemoveRecord, Plain, Goto
  <2>5. QED
    BY <2>1, <2>2, <2>3, <2>4 DEF AtomicInv
<1>22. CASE LastSync
  <2>1. AllGood'
    BY <1>0, <1>22, SyncDoes DEF AllGood, Untouched, AfterSync, Synced, Good, Directories,
       Places, Finds, Routes, ReplaceSteps, RecoverySteps, ExchangeSteps, Names, Unlinking,
       Undisturbed, Replacing, others, directory, LastSync, Goto
  <2>2. Untouched' /\ AfterSync' /\ Replaced'
    BY <1>0, <1>22, SyncDoes DEF Untouched, AfterSync, Replaced, Synced, Names, Unlinking,
       Directories, Undisturbed, Replacing, others, directory, LastSync, Goto
  <2>3. Finished'
    BY <1>0, <1>22, SyncDoes DEF Finished, Synced, Finds, Places, Routes, Replaced,
       Directories, ReplaceSteps, RecoverySteps, ExchangeSteps, Names, Unlinking, Undisturbed,
       Replacing, others, directory, LastSync, Goto
  <2>4. Understood'
    BY <1>0, <1>22 DEF Understood, Undisturbed, Replacing, others, directory,
       LastSync, Goto
  <2>5. QED
    BY <2>1, <2>2, <2>3, <2>4 DEF AtomicInv
<1>23. CASE Recover
  <2>1. AllGood' /\ Untouched' /\ AfterSync' /\ Replaced' /\ Finished'
    BY <1>0, <1>23 DEF AllGood, Untouched, AfterSync, Replaced, Finished, Finds, Good, Synced,
       Routes, ReplaceSteps, RecoverySteps, Undisturbed, Replacing, others, directory, Recover
  <2>2. Understood'
    BY <1>0, <1>23 DEF Understood, Undisturbed, Replacing, others, directory, Recover
  <2>3. QED
    BY <2>1, <2>2 DEF AtomicInv
<1>24. CASE recover_windows_replace_record_at
  <2>0. pc = "recover"
    BY <1>24 DEF recover_windows_replace_record_at
  <2>1. AllGood'
    BY <1>0, <1>24, <2>0, RecoverDoes, RenameDoes DEF AllGood, Untouched, AfterSync, Synced,
       Good, Directories, Places, Finds, Routes, ReplaceSteps, RecoverySteps, ExchangeSteps,
       Names, Unlinking, Undisturbed, Replacing, others, directory, Refuse, Finalize, Goto,
       AfterRecovery
  <2>2. Untouched' /\ AfterSync' /\ Replaced'
    BY <1>0, <1>24, <2>0, RecoverDoes, RenameDoes DEF Untouched, AfterSync, Replaced, Synced,
       Names, Unlinking, Directories, Undisturbed, Replacing, others, directory, Refuse,
       Finalize, Goto, AfterRecovery
  <2>3. Finished'
    BY <1>0, <1>24, <2>0, RecoverDoes, RenameDoes DEF Finished, Synced, Finds, Places, Routes,
       Replaced, Directories, ReplaceSteps, RecoverySteps, ExchangeSteps, Names, Unlinking,
       Undisturbed, Replacing, others, directory, Refuse, Finalize, Goto, AfterRecovery
  <2>4. Understood'
    BY <1>0, <1>24, <2>0, RecoverDoes, RenameDoes DEF Understood, AllGood, Good,
       Directories, Routes, RecoverySteps, Ids, Undisturbed, Replacing, others, directory,
       Refuse, Finalize, Goto, AfterRecovery
  <2>5. QED
    BY <2>1, <2>2, <2>3, <2>4 DEF AtomicInv
<1>25. CASE RefuseTornRecord
  <2>1. AllGood'
    BY <1>0, <1>25 DEF AllGood, Untouched, AfterSync, Synced, Good, Directories, Places,
       Finds, Routes, ReplaceSteps, RecoverySteps, ExchangeSteps, Names, Unlinking, Ids,
       Undisturbed, Replacing, others, directory, RefuseTornRecord, Refuse, AfterRecovery,
       Plain, Goto
  <2>2. Untouched' /\ AfterSync' /\ Replaced'
    BY <1>0, <1>25 DEF Untouched, AfterSync, Replaced, Synced, Names, Unlinking,
       Directories, Ids, Undisturbed, Replacing, others, directory,
       RefuseTornRecord, Refuse, AfterRecovery, Plain, Goto
  <2>3. Finished'
    BY <1>0, <1>25 DEF Finished, Synced, Finds, Places, Routes, Replaced,
       Directories, ReplaceSteps, RecoverySteps, ExchangeSteps, Names, Unlinking, Undisturbed,
       Replacing, others, directory, RefuseTornRecord, Refuse, AfterRecovery, Plain, Goto
  <2>4. Understood'
    BY <1>0, <1>25 DEF Understood, Undisturbed, Replacing, others, directory,
       RefuseTornRecord, Refuse, AfterRecovery, Plain, Goto
  <2>5. QED
    BY <2>1, <2>2, <2>3, <2>4 DEF AtomicInv
<1>26. CASE FinalizeSynced
  <2>1. AllGood'
    BY <1>0, <1>26, SyncDoes DEF AllGood, Untouched, AfterSync, Synced, Good, Directories,
       Places, Finds, Routes, ReplaceSteps, RecoverySteps, ExchangeSteps, Names, Unlinking,
       Undisturbed, Replacing, others, directory, FinalizeSynced, Plain, Goto
  <2>2. Untouched' /\ AfterSync' /\ Replaced'
    BY <1>0, <1>26, SyncDoes DEF Untouched, AfterSync, Replaced, Synced, Names, Unlinking,
       Directories, Undisturbed, Replacing, others, directory, FinalizeSynced, Plain, Goto
  <2>3. Finished'
    BY <1>0, <1>26, SyncDoes DEF Finished, Synced, Finds, Places, Routes, Replaced,
       Directories, ReplaceSteps, RecoverySteps, ExchangeSteps, Names, Unlinking, Undisturbed,
       Replacing, others, directory, FinalizeSynced, Plain, Goto
  <2>4. Understood'
    BY <1>0, <1>26 DEF Understood, Undisturbed, Replacing, others, directory,
       FinalizeSynced, Plain, Goto
  <2>5. QED
    BY <2>1, <2>2, <2>3, <2>4 DEF AtomicInv
<1>27. CASE RemoveLeftover
  <2>1. AllGood'
    BY <1>0, <1>27, RemoveDoes DEF AllGood, Untouched, AfterSync, Synced, Good, Directories,
       Places, Finds, Routes, ReplaceSteps, RecoverySteps, ExchangeSteps, Names, Unlinking,
       Undisturbed, Replacing, others, directory, RemoveLeftover, Plain, Goto, Leftover
  <2>2. Untouched' /\ AfterSync' /\ Replaced'
    BY <1>0, <1>27, RemoveDoes DEF Untouched, AfterSync, Replaced, Synced, Names, Unlinking,
       Directories, Undisturbed, Replacing, others, directory, RemoveLeftover, Plain, Goto,
       Leftover
  <2>3. Finished'
    BY <1>0, <1>27, RemoveDoes DEF Finished, Synced, Finds, Places, Routes, Replaced,
       Directories, ReplaceSteps, RecoverySteps, ExchangeSteps, Names, Unlinking, Undisturbed,
       Replacing, others, directory, RemoveLeftover, Plain, Goto, Leftover
  <2>4. Understood'
    BY <1>0, <1>27 DEF Understood, Undisturbed, Replacing, others, directory,
       RemoveLeftover, Plain, Goto, Leftover
  <2>5. QED
    BY <2>1, <2>2, <2>3, <2>4 DEF AtomicInv
<1>28. CASE LeftoverSynced
  <2>1. AllGood'
    BY <1>0, <1>28, SyncDoes DEF AllGood, Untouched, AfterSync, Synced, Good, Directories,
       Places, Finds, Routes, ReplaceSteps, RecoverySteps, ExchangeSteps, Names, Unlinking,
       Undisturbed, Replacing, others, directory, LeftoverSynced, Plain, Goto
  <2>2. Untouched' /\ AfterSync' /\ Replaced'
    BY <1>0, <1>28, SyncDoes DEF Untouched, AfterSync, Replaced, Synced, Names, Unlinking,
       Directories, Undisturbed, Replacing, others, directory, LeftoverSynced, Plain, Goto
  <2>3. Finished'
    BY <1>0, <1>28, SyncDoes DEF Finished, Synced, Finds, Places, Routes, Replaced,
       Directories, ReplaceSteps, RecoverySteps, ExchangeSteps, Names, Unlinking, Undisturbed,
       Replacing, others, directory, LeftoverSynced, Plain, Goto
  <2>4. Understood'
    BY <1>0, <1>28 DEF Understood, Undisturbed, Replacing, others, directory,
       LeftoverSynced, Plain, Goto
  <2>5. QED
    BY <2>1, <2>2, <2>3, <2>4 DEF AtomicInv
<1>29. CASE RecoveredRecord
  <2>1. AllGood'
    BY <1>0, <1>29, RemoveDoes DEF AllGood, Untouched, AfterSync, Synced, Good, Directories,
       Places, Finds, Routes, ReplaceSteps, RecoverySteps, ExchangeSteps, Names, Unlinking,
       Undisturbed, Replacing, others, directory, RecoveredRecord, Plain, Goto
  <2>2. Untouched' /\ AfterSync' /\ Replaced'
    BY <1>0, <1>29, RemoveDoes DEF Untouched, AfterSync, Replaced, Synced, Names, Unlinking,
       Directories, Undisturbed, Replacing, others, directory, RecoveredRecord, Plain, Goto
  <2>3. Finished'
    BY <1>0, <1>29, RemoveDoes DEF Finished, Synced, Finds, Places, Routes, Replaced,
       Directories, ReplaceSteps, RecoverySteps, ExchangeSteps, Names, Unlinking, Undisturbed,
       Replacing, others, directory, RecoveredRecord, Plain, Goto
  <2>4. Understood'
    BY <1>0, <1>29 DEF Understood, Undisturbed, Replacing, others, directory,
       RecoveredRecord, Plain, Goto
  <2>5. QED
    BY <2>1, <2>2, <2>3, <2>4 DEF AtomicInv
<1>30. CASE RecoverySynced
  <2>1. AllGood'
    BY <1>0, <1>30, SyncDoes DEF AllGood, Untouched, AfterSync, Synced, Good, Directories,
       Places, Finds, Routes, ReplaceSteps, RecoverySteps, ExchangeSteps, Names, Unlinking,
       Undisturbed, Replacing, others, directory, RecoverySynced, Goto, AfterRecovery
  <2>2. Untouched' /\ AfterSync' /\ Replaced'
    BY <1>0, <1>30, SyncDoes DEF Untouched, AfterSync, Replaced, Synced, Names, Unlinking,
       Directories, Undisturbed, Replacing, others, directory, RecoverySynced, Goto,
       AfterRecovery
  <2>3. Finished'
    BY <1>0, <1>30, SyncDoes DEF Finished, Synced, Finds, Places, Routes, Replaced,
       Directories, ReplaceSteps, RecoverySteps, ExchangeSteps, Names, Unlinking, Undisturbed,
       Replacing, others, directory, RecoverySynced, Goto, AfterRecovery
  <2>4. Understood'
    BY <1>0, <1>30 DEF Understood, Undisturbed, Replacing, others, directory,
       RecoverySynced, Goto, AfterRecovery
  <2>5. QED
    BY <2>1, <2>2, <2>3, <2>4 DEF AtomicInv
<1>31. CASE AfterFailure
  <2>1. AllGood' /\ Untouched' /\ AfterSync' /\ Replaced' /\ Finished'
    BY <1>0, <1>31 DEF AllGood, Untouched, AfterSync, Replaced, Finished, Finds, Good, Synced,
       Routes, ReplaceSteps, RecoverySteps, Undisturbed, Replacing, others, directory,
       AfterFailure, Plain, Goto
  <2>2. Understood'
    BY <1>0, <1>31 DEF Understood, Undisturbed, Replacing, others, directory,
       AfterFailure, Plain, Goto
  <2>3. QED
    BY <2>1, <2>2 DEF AtomicInv
<1>32. CASE CleanupTemporary
  <2>1. AllGood'
    BY <1>0, <1>32, RemoveDoes DEF AllGood, Untouched, AfterSync, Synced, Good, Directories,
       Places, Finds, Routes, ReplaceSteps, RecoverySteps, ExchangeSteps, Names, Unlinking,
       Undisturbed, Replacing, others, directory, CleanupTemporary, Plain, Goto, Bound
  <2>2. Untouched' /\ AfterSync' /\ Replaced'
    BY <1>0, <1>32, RemoveDoes DEF Untouched, AfterSync, Replaced, Synced, Names, Unlinking,
       Directories, Undisturbed, Replacing, others, directory, CleanupTemporary, Plain, Goto,
       Bound
  <2>3. Finished'
    BY <1>0, <1>32, RemoveDoes DEF Finished, Synced, Finds, Places, Routes, Replaced,
       Directories, ReplaceSteps, RecoverySteps, ExchangeSteps, Names, Unlinking, Undisturbed,
       Replacing, others, directory, CleanupTemporary, Plain, Goto, Bound
  <2>4. Understood'
    BY <1>0, <1>32 DEF Understood, Undisturbed, Replacing, others, directory,
       CleanupTemporary, Plain, Goto, Bound
  <2>5. QED
    BY <2>1, <2>2, <2>3, <2>4 DEF AtomicInv
<1>33. CASE CleanupSynced
  <2>1. AllGood'
    BY <1>0, <1>33, SyncDoes DEF AllGood, Untouched, AfterSync, Synced, Good, Directories,
       Places, Finds, Routes, ReplaceSteps, RecoverySteps, ExchangeSteps, Names, Unlinking,
       Undisturbed, Replacing, others, directory, CleanupSynced, Plain, Goto
  <2>2. Untouched' /\ AfterSync' /\ Replaced'
    BY <1>0, <1>33, SyncDoes DEF Untouched, AfterSync, Replaced, Synced, Names, Unlinking,
       Directories, Undisturbed, Replacing, others, directory, CleanupSynced, Plain, Goto
  <2>3. Finished'
    BY <1>0, <1>33, SyncDoes DEF Finished, Synced, Finds, Places, Routes, Replaced,
       Directories, ReplaceSteps, RecoverySteps, ExchangeSteps, Names, Unlinking, Undisturbed,
       Replacing, others, directory, CleanupSynced, Plain, Goto
  <2>4. Understood'
    BY <1>0, <1>33 DEF Understood, Undisturbed, Replacing, others, directory,
       CleanupSynced, Plain, Goto
  <2>5. QED
    BY <2>1, <2>2, <2>3, <2>4 DEF AtomicInv
<1>34. CASE rename_no_replace_to
  <2>1. AllGood'
    BY <1>0, <1>34, RenameDoes DEF AllGood, Untouched, AfterSync, Synced, Good, Directories,
       Places, Finds, Routes, ReplaceSteps, RecoverySteps, ExchangeSteps, Names, Unlinking,
       Undisturbed, Replacing, others, directory, rename_no_replace_to, Plain, Goto, Fail,
       Bound
  <2>2. Untouched' /\ AfterSync' /\ Replaced'
    BY <1>0, <1>34, RenameDoes DEF Untouched, AfterSync, Replaced, Synced, Names, Unlinking,
       Directories, Undisturbed, Replacing, others, directory, rename_no_replace_to, Plain,
       Goto, Fail, Bound
  <2>3. Finished'
    BY <1>0, <1>34, RenameDoes DEF Finished, Synced, Finds, Places, Routes, Replaced,
       Directories, ReplaceSteps, RecoverySteps, ExchangeSteps, Names, Unlinking, Undisturbed,
       Replacing, others, directory, rename_no_replace_to, Plain, Goto, Fail, Bound
  <2>4. Understood'
    BY <1>0, <1>34 DEF Understood, Undisturbed, Replacing, others, directory,
       rename_no_replace_to, Plain, Goto, Fail, Bound
  <2>5. QED
    BY <2>1, <2>2, <2>3, <2>4 DEF AtomicInv
<1>35. CASE CreatedSynced
  <2>1. AllGood'
    BY <1>0, <1>35, SyncDoes DEF AllGood, Untouched, AfterSync, Synced, Good, Directories,
       Places, Finds, Routes, ReplaceSteps, RecoverySteps, ExchangeSteps, Names, Unlinking,
       Undisturbed, Replacing, others, directory, CreatedSynced, Plain, Goto, Fail, Bound
  <2>2. Untouched' /\ AfterSync' /\ Replaced'
    BY <1>0, <1>35, SyncDoes DEF Untouched, AfterSync, Replaced, Synced, Names, Unlinking,
       Directories, Undisturbed, Replacing, others, directory, CreatedSynced, Plain, Goto,
       Fail, Bound
  <2>3. Finished'
    BY <1>0, <1>35, SyncDoes DEF Finished, Synced, Finds, Places, Routes, Replaced,
       Directories, ReplaceSteps, RecoverySteps, ExchangeSteps, Names, Unlinking, Undisturbed,
       Replacing, others, directory, CreatedSynced, Plain, Goto, Fail, Bound
  <2>4. Understood'
    BY <1>0, <1>35 DEF Understood, Undisturbed, Replacing, others, directory,
       CreatedSynced, Plain, Goto, Fail, Bound
  <2>5. QED
    BY <2>1, <2>2, <2>3, <2>4 DEF AtomicInv
<1>36. CASE UnixVerify
  <2>1. AllGood' /\ Untouched' /\ AfterSync' /\ Replaced' /\ Finished'
    BY <1>0, <1>36 DEF AllGood, Untouched, AfterSync, Replaced, Finished, Finds, Good, Synced,
       Routes, ReplaceSteps, RecoverySteps, Undisturbed, Replacing, others, directory,
       UnixVerify, Plain, Goto, Fail, Bound
  <2>2. Understood'
    BY <1>0, <1>36 DEF Understood, Undisturbed, Replacing, others, directory,
       UnixVerify, Plain, Goto, Fail, Bound
  <2>3. QED
    BY <2>1, <2>2 DEF AtomicInv
<1>37. CASE anchored_exchange_files
  <2>1. AllGood'
    BY <1>0, <1>37, ExchangeDoes DEF AllGood, Untouched, AfterSync, Synced, Good, Directories,
       Places, Finds, Routes, ReplaceSteps, RecoverySteps, ExchangeSteps, Names, Unlinking,
       Undisturbed, Replacing, others, directory, anchored_exchange_files, Plain, Goto, Fail
  <2>2. Untouched' /\ AfterSync' /\ Replaced'
    BY <1>0, <1>37, ExchangeDoes DEF Untouched, AfterSync, Replaced, Synced, Names, Unlinking,
       Directories, Undisturbed, Replacing, others, directory, anchored_exchange_files, Plain,
       Goto, Fail
  <2>3. Finished'
    BY <1>0, <1>37, ExchangeDoes DEF Finished, Synced, Finds, Places, Routes, Replaced,
       Directories, ReplaceSteps, RecoverySteps, ExchangeSteps, Names, Unlinking, Undisturbed,
       Replacing, others, directory, anchored_exchange_files, Plain, Goto, Fail
  <2>4. Understood'
    BY <1>0, <1>37 DEF Understood, Undisturbed, Replacing, others, directory,
       anchored_exchange_files, Plain, Goto, Fail
  <2>5. QED
    BY <2>1, <2>2, <2>3, <2>4 DEF AtomicInv
<1>38. CASE ExchangeVerified
  <2>1. AllGood'
    BY <1>0, <1>38, SyncDoes DEF AllGood, Untouched, AfterSync, Synced, Good, Directories,
       Places, Finds, Routes, ReplaceSteps, RecoverySteps, ExchangeSteps, Names, Unlinking,
       Undisturbed, Replacing, others, directory, ExchangeVerified, Plain, Goto, Fail, Bound
  <2>2. Untouched' /\ AfterSync' /\ Replaced'
    BY <1>0, <1>38, SyncDoes DEF Untouched, AfterSync, Replaced, Synced, Names, Unlinking,
       Directories, Undisturbed, Replacing, others, directory, ExchangeVerified, Plain, Goto,
       Fail, Bound
  <2>3. Finished'
    BY <1>0, <1>38, SyncDoes DEF Finished, Synced, Finds, Places, Routes, Replaced,
       Directories, ReplaceSteps, RecoverySteps, ExchangeSteps, Names, Unlinking, Undisturbed,
       Replacing, others, directory, ExchangeVerified, Plain, Goto, Fail, Bound
  <2>4. Understood'
    BY <1>0, <1>38 DEF Understood, Undisturbed, Replacing, others, directory,
       ExchangeVerified, Plain, Goto, Fail, Bound
  <2>5. QED
    BY <2>1, <2>2, <2>3, <2>4 DEF AtomicInv
<1>39. CASE RemoveOld
  <2>1. AllGood'
    BY <1>0, <1>39, RemoveDoes DEF AllGood, Untouched, AfterSync, Synced, Good, Directories,
       Places, Finds, Routes, ReplaceSteps, RecoverySteps, ExchangeSteps, Names, Unlinking,
       Undisturbed, Replacing, others, directory, RemoveOld, Plain, Goto, Fail, Bound
  <2>2. Untouched' /\ AfterSync' /\ Replaced'
    BY <1>0, <1>39, RemoveDoes DEF Untouched, AfterSync, Replaced, Synced, Names, Unlinking,
       Directories, Undisturbed, Replacing, others, directory, RemoveOld, Plain, Goto, Fail,
       Bound
  <2>3. Finished'
    BY <1>0, <1>39, RemoveDoes DEF Finished, Synced, Finds, Places, Routes, Replaced,
       Directories, ReplaceSteps, RecoverySteps, ExchangeSteps, Names, Unlinking, Undisturbed,
       Replacing, others, directory, RemoveOld, Plain, Goto, Fail, Bound
  <2>4. Understood'
    BY <1>0, <1>39 DEF Understood, Undisturbed, Replacing, others, directory,
       RemoveOld, Plain, Goto, Fail, Bound
  <2>5. QED
    BY <2>1, <2>2, <2>3, <2>4 DEF AtomicInv
<1>40. CASE UnlinkVerify \/ Detach \/ DetachedCheck \/ RemoveDetached
                 \/ Rollback \/ RolledBackSynced \/ OpenForRemoval \/ remove_open_handle
  <2>1. Unlinking /\ op' = op /\ UNCHANGED <<placed, dropped, refused>>
    BY <1>0, <1>40 DEF Routes, UnlinkVerify, Detach, DetachedCheck, RemoveDetached, Rollback,
       RolledBackSynced, OpenForRemoval, remove_open_handle, Plain, Goto, Fail, others
  <2>2. QED
    BY <1>0, <2>1 DEF AtomicInv, AllGood, Untouched, AfterSync, Replaced, Finished,
       Understood, Undisturbed, Replacing, Unlinking
<1>41. CASE UNCHANGED vars
  BY <1>0, <1>41 DEF AtomicInv, AllGood, Untouched, AfterSync, Replaced, Finished,
     Understood, Good, Synced, Undisturbed, Replacing, vars
<1>42. QED
  BY <1>1, <1>2, <1>3, <1>4, <1>5, <1>6, <1>7, <1>8, <1>9, <1>10, <1>11, <1>12, <1>13,
     <1>14, <1>15, <1>16, <1>17, <1>18, <1>19, <1>20, <1>21, <1>22, <1>23, <1>24, <1>25,
     <1>26, <1>27, <1>28, <1>29, <1>30, <1>31, <1>32, <1>33, <1>34, <1>35, <1>36, <1>37,
     <1>38, <1>39, <1>40, <1>41 DEF Next, Other

(* It is so initially: only the name of the temporary file is not synced. *)
LEMMA AtomicInit == Init => AtomicInv
BY AnchoredAssumption DEF Init, AtomicInv, AllGood, Untouched, AfterSync, Replaced, Finished,
   Understood, Good, Names, Replacing

LEMMA ShieldedInit == Init => Shielded
BY AnchoredAssumption DEF Init, Shielded, Names, Replacing

(* The old file is renamed only after the record was synced, and stays     *)
(* where it is in a recovery that finds it there.                          *)
LEMMA ShieldedStep ==
    ASSUME PlacesInv, AtomicInv, Shielded, [Next]_vars
    PROVE  Shielded'
<1> USE AnchoredAssumption
<1>0. TypeOK /\ Routes /\ Places /\ Finds /\ Directories
  BY DEF PlacesInv, TypeOK, Directories
<1>1. CASE OtherReplaces
  <2>1. ~Undisturbed'
    BY <1>0, <1>1, OthersAreNoted
  <2>2. QED
    BY <2>1 DEF Shielded
<1>2. CASE OtherWrites \/ OtherFills \/ Crash \/ IoError \/ UNCHANGED vars
  BY <1>2 DEF Shielded, OtherWrites, OtherFills, Crash, IoError, Undisturbed, Replacing,
     others, directory, vars
<1>3. CASE PowerLoss
  BY <1>0, <1>3 DEF Shielded, TypeOK, PowerLoss, Undisturbed, Replacing
(* Before the record is synced, and in a recovery. *)
<1>4. CASE \/ WindowsVerify \/ RecordFileSynced \/ RecordSynced
           \/ Recover \/ RefuseTornRecord \/ FinalizeSynced \/ LeftoverSynced
           \/ RecoverySynced \/ AfterFailure \/ CleanupSynced
  <2>1. /\ UNCHANGED <<platform, op, placed, dropped>>
        /\ content' # "durable" => content # "durable"
    <3>1. CASE WindowsVerify \/ RecordFileSynced \/ RecordSynced
      BY <3>1 DEF WindowsVerify, RecordFileSynced, RecordSynced, Fail, Plain, Goto, others
    <3>2. CASE Recover \/ RefuseTornRecord
      BY <3>2 DEF Recover, RefuseTornRecord, Refuse, others
    <3>3. CASE \/ FinalizeSynced \/ LeftoverSynced \/ RecoverySynced
               \/ AfterFailure \/ CleanupSynced
      BY <3>3 DEF FinalizeSynced, LeftoverSynced, RecoverySynced, AfterFailure,
         CleanupSynced, Plain, Goto, others
    <3>4. QED
      BY <1>4, <3>1, <3>2, <3>3
  <2>2. disks' \subseteq disks
    BY <1>0, <1>4 DEF WindowsVerify, RecordFileSynced, RecordSynced, Recover,
       RefuseTornRecord, Refuse, FinalizeSynced, LeftoverSynced, RecoverySynced,
       AfterFailure, CleanupSynced, sync_all, directory, Directories
  <2>3. QED
    BY <2>1, <2>2 DEF Shielded, Undisturbed, Replacing
<1>5. CASE CreateRecord \/ WriteRecord
  <2>1. Replacing /\ Undisturbed => \A d \in disks : d["dest"] = Old /\ d["tomb"] = None
    BY <1>5 DEF AtomicInv, Untouched, CreateRecord, WriteRecord
  <2>2. /\ UNCHANGED <<op, placed, dropped>>
        /\ Create("record", Rec) \/ UNCHANGED directory
    BY <1>5 DEF CreateRecord, WriteRecord, others
  <2>3. \A d \in disks' : \E e \in disks : d["dest"] = e["dest"] /\ d["tomb"] = e["tomb"]
    BY <1>0, <2>2, CreateDoes DEF Names, Ids, directory
  <2>4. QED
    BY <2>1, <2>2, <2>3 DEF Shielded, Undisturbed, Replacing
<1>6. CASE RecordFails \/ RemoveLeftover \/ RecoveredRecord \/ CleanupTemporary
  BY <1>0, <1>6, RemoveDoes DEF Shielded, RecordFails, RemoveLeftover, Leftover,
     RecoveredRecord, CleanupTemporary, Directories, Names, Fail, Plain, Goto, Bound,
     Undisturbed, Replacing, others, directory
<1>7. CASE recover_windows_replace_record_at
  <2>1. UNCHANGED <<platform, op, content, placed, dropped>>
    BY <1>0, <1>7, RecoverDoes DEF Refuse, Finalize, Goto, others
  <2>2. CASE UNCHANGED directory
    BY <2>1, <2>2 DEF Shielded, Undisturbed, Replacing, directory
  <2>3. CASE entries["dest"] = None
    <3>1. ~(platform = "windows" /\ Replacing /\ Undisturbed /\ content # "durable")
      BY <1>0, <2>3 DEF Shielded, Directories, Ids
    <3>2. QED
      BY <2>1, <3>1 DEF Shielded, Undisturbed, Replacing
  <2>4. QED
    BY <1>0, <1>7, <2>2, <2>3, RecoverDoes DEF Refuse
(* After that, the record is on disk. *)
<1>8. CASE \/ DetachDestination \/ DetachSynced \/ PublishReplacement \/ PublishFails
           \/ open_windows_finalization_guard \/ PublishSynced \/ RemoveTombstone
           \/ TombSynced \/ RemoveRecord
  <2>1. content = "durable" /\ content' = content
    BY <1>0, <1>8 DEF Finds, ReplaceSteps, DetachDestination, DetachSynced,
       PublishReplacement, PublishFails, open_windows_finalization_guard, PublishSynced,
       RemoveTombstone, TombSynced, RemoveRecord, Fail, Plain, Goto
  <2>2. QED
    BY <2>1 DEF Shielded
<1>9. CASE LastSync
  BY <1>0, <1>9 DEF Shielded, LastSync, sync_all, Directories, Goto, Undisturbed, Replacing,
     others
(* Everything else is done on Unix, or replaces nothing. *)
<1>10. CASE \/ rename_no_replace_to \/ CreatedSynced \/ UnixVerify
            \/ anchored_exchange_files \/ ExchangeVerified \/ RemoveOld
            \/ UnlinkVerify \/ Detach \/ DetachedCheck \/ RemoveDetached
            \/ Rollback \/ RolledBackSynced \/ OpenForRemoval \/ remove_open_handle
  <2>1. (platform = "unix" \/ ~Replacing) /\ UNCHANGED <<platform, op>>
    <3>1. CASE \/ rename_no_replace_to \/ CreatedSynced \/ UnixVerify
               \/ anchored_exchange_files \/ ExchangeVerified \/ RemoveOld
      BY <1>0, <3>1 DEF Routes, ExchangeSteps, Replacing, rename_no_replace_to,
         CreatedSynced, UnixVerify, anchored_exchange_files, ExchangeVerified, RemoveOld,
         Fail, Plain, Goto
    <3>2. CASE \/ UnlinkVerify \/ Detach \/ DetachedCheck \/ RemoveDetached
               \/ Rollback \/ RolledBackSynced \/ OpenForRemoval \/ remove_open_handle
      BY <1>0, <3>2 DEF Routes, Unlinking, Replacing, UnlinkVerify, Detach, DetachedCheck,
         RemoveDetached, Rollback, RolledBackSynced, OpenForRemoval, remove_open_handle,
         Fail, Plain, Goto
    <3>3. QED
      BY <1>10, <3>1, <3>2
  <2>2. QED
    BY <2>1 DEF Shielded, Replacing
<1>11. QED
  BY <1>1, <1>2, <1>3, <1>4, <1>5, <1>6, <1>7, <1>8, <1>9, <1>10 DEF Next, Other

(* Whatever a power loss leaves behind while a file is being replaced, by  *)
(* the replacement or by any number of interrupted recoveries, the name    *)
(* has the old or the new file, or a record whose content is on disk leads *)
(* to the old one; and a replacement that reports success is on disk.      *)
THEOREM ReplacementStaysAtomic == Spec => []ReplacementIsAtomic
<1>1. PlacesInv /\ [Next]_vars => PlacesInv'
  BY PlacesStep
<1>2. PlacesInv /\ PlacesInv' /\ AtomicInv /\ [Next]_vars => AtomicInv'
  BY AtomicStep
<1>3. PlacesInv /\ AtomicInv /\ Shielded /\ [Next]_vars => Shielded'
  BY ShieldedStep
<1>4. PlacesInv /\ AtomicInv /\ Shielded => ReplacementIsAtomic
  <2> SUFFICES ASSUME PlacesInv, AtomicInv, Shielded PROVE ReplacementIsAtomic
    OBVIOUS
  <2>1. ASSUME Replacing, Undisturbed, NEW e \in disks
        PROVE  \/ e["dest"] \in {Old, New}
               \/ e["tomb"] = Old /\ e["record"] = Rec /\ content = "durable"
    <3>1. CASE e["dest"] \in {Old, New}
      BY <3>1
    <3>2. CASE e["dest"] \notin {Old, New}
      <4>1. e["tomb"] = Old /\ e["record"] = Rec
        BY <2>1, <3>2 DEF AtomicInv, AllGood, Good
      <4>2. platform = "windows"
        BY <4>1, AnchoredAssumption DEF PlacesInv, Places, Ids
      <4>3. QED
        BY <2>1, <4>1, <4>2, AnchoredAssumption DEF Shielded, Ids
    <3>3. QED
      BY <3>1, <3>2
  <2>2. ASSUME Replacing \/ op = "create", pc = "ok", Undisturbed, NEW e \in disks
        PROVE  e = [n \in Names |-> IF n = "dest" THEN New ELSE None]
    <3>1. e = entries /\ e \in Directory
      BY <2>2 DEF AtomicInv, Finished, Synced, PlacesInv, TypeOK
    <3>2. e["dest"] = New /\ e["temp"] = None /\ e["tomb"] = None /\ e["record"] = None
      BY <2>2, <3>1 DEF AtomicInv, Finished
    <3>3. QED
      BY <3>1, <3>2 DEF Directory, Names
  <2>3. QED
    BY <2>1, <2>2 DEF ReplacementIsAtomic
<1>5. QED
  BY <1>1, <1>2, <1>3, <1>4, PlacesInit, AtomicInit, ShieldedInit, PTL DEF Spec

(* No crash, failed step or power loss leaves a directory that             *)
(* recover_windows_replace_record takes for corrupt; and as long as the    *)
(* content of the record is not on disk the old file was not touched.      *)
THEOREM RecoveryAlwaysUnderstands == Spec => []RecoveryUnderstands
<1>1. PlacesInv /\ [Next]_vars => PlacesInv'
  BY PlacesStep
<1>2. PlacesInv /\ PlacesInv' /\ AtomicInv /\ [Next]_vars => AtomicInv'
  BY AtomicStep
<1>3. PlacesInv /\ AtomicInv /\ Shielded /\ [Next]_vars => Shielded'
  BY ShieldedStep
<1>4. PlacesInv /\ AtomicInv /\ Shielded => RecoveryUnderstands
  BY AnchoredAssumption
     DEF PlacesInv, Places, AtomicInv, Understood, Shielded, RecoveryUnderstands, Ids
<1>5. QED
  BY <1>1, <1>2, <1>3, <1>4, PlacesInit, AtomicInit, ShieldedInit, PTL DEF Spec

-----------------------------------------------------------------------------
(* What others do. *)

(* No step of the program removes a file of another one. *)
LEMMA OthersAreKept ==
    ASSUME PlacesInv, Next, ~OtherReplaces, ~PowerLoss
    PROVE  (placed' = placed /\ dropped' = dropped) /\ \A x \in Foreign : Present(x) => Present(x)'
<1> USE AnchoredAssumption
<1>0. TypeOK /\ Routes /\ Places /\ Finds /\ Directories
  BY DEF PlacesInv, TypeOK, Directories
<1>1. CASE OtherWrites
  BY <1>0, <1>1 DEF Present, OtherWrites, others, directory
<1>2. CASE OtherFills
  BY <1>0, <1>2 DEF Present, OtherFills, others, directory
<1>3. CASE Crash
  BY <1>0, <1>3 DEF Present, Crash, others, directory
<1>4. CASE IoError
  BY <1>0, <1>4 DEF Present, IoError, AfterRecovery, Recovering, others, directory
<1>5. CASE WindowsVerify
  BY <1>0, <1>5 DEF Present, WindowsVerify, Goto, Fail, Bound, others, directory
<1>6. CASE CreateRecord
  BY <1>0, <1>6, CreateDoes DEF Present, Places, Finds, Routes, Directories, ReplaceSteps,
     ExchangeSteps, RecoverySteps, Names, Ids, CreateRecord, others, directory
<1>7. CASE WriteRecord \/ RecordFileSynced
  BY <1>0, <1>7 DEF Present, WriteRecord, RecordFileSynced, others, directory
<1>8. CASE RefuseTornRecord
  BY <1>0, <1>8 DEF Present, RefuseTornRecord, Refuse, others, directory
<1>9. CASE RecordSynced
  BY <1>0, <1>9, SyncDoes DEF Present, RecordSynced, Plain, Goto, others, directory
<1>10. CASE RecordFails
  BY <1>0, <1>10, RemoveDoes DEF Present, Places, Finds, Routes, Directories, ReplaceSteps,
     ExchangeSteps, RecoverySteps, Names, Ids, RecordFails, Fail, Goto, others, directory
<1>11. CASE DetachDestination
  BY <1>0, <1>11, RenameDoes DEF Present, Places, Finds, Routes, Directories, ReplaceSteps,
     ExchangeSteps, RecoverySteps, Names, Ids, DetachDestination, Plain, Goto, others,
     directory
<1>12. CASE DetachSynced
  BY <1>0, <1>12, SyncDoes DEF Present, DetachSynced, Plain, Goto, others, directory
<1>13. CASE PublishReplacement
  BY <1>0, <1>13, RenameDoes DEF Present, Places, Finds, Routes, Directories, ReplaceSteps,
     ExchangeSteps, RecoverySteps, Names, Ids, PublishReplacement, Plain, Goto, Fail, others,
     directory
<1>14. CASE PublishFails
  BY <1>0, <1>14, RenameDoes DEF Present, Places, Finds, Routes, Directories, ReplaceSteps,
     ExchangeSteps, RecoverySteps, Names, Ids, PublishFails, Fail, Goto, others, directory
<1>15. CASE open_windows_finalization_guard
  BY <1>0, <1>15 DEF Present, open_windows_finalization_guard, Goto, Fail, Bound, others,
     directory
<1>16. CASE PublishSynced
  BY <1>0, <1>16, SyncDoes DEF Present, PublishSynced, Plain, Goto, others, directory
<1>17. CASE RemoveTombstone
  BY <1>0, <1>17, RemoveDoes DEF Present, Places, Finds, Routes, Directories, ReplaceSteps,
     ExchangeSteps, RecoverySteps, Names, Ids, RemoveTombstone, Plain, Goto, others, directory
<1>18. CASE TombSynced
  BY <1>0, <1>18, SyncDoes DEF Present, TombSynced, Plain, Goto, others, directory
<1>19. CASE RemoveRecord
  BY <1>0, <1>19, RemoveDoes DEF Present, Places, Finds, Routes, Directories, ReplaceSteps,
     ExchangeSteps, RecoverySteps, Names, Ids, RemoveRecord, Plain, Goto, others, directory
<1>20. CASE LastSync
  BY <1>0, <1>20, SyncDoes DEF Present, LastSync, Goto, others, directory
<1>21. CASE Recover
  BY <1>0, <1>21 DEF Present, Recover, others, directory
<1>22. CASE recover_windows_replace_record_at
  BY <1>0, <1>22, RecoverDoes, RenameDoes DEF Present, Places, Finds, Routes, Directories,
     ReplaceSteps, ExchangeSteps, RecoverySteps, Names, Ids, Refuse, Finalize, Goto,
     AfterRecovery, others, directory
<1>23. CASE FinalizeSynced
  BY <1>0, <1>23, SyncDoes DEF Present, FinalizeSynced, Plain, Goto, others, directory
<1>24. CASE RemoveLeftover
  BY <1>0, <1>24, RemoveDoes DEF Present, Places, Finds, Routes, Directories, ReplaceSteps,
     ExchangeSteps, RecoverySteps, Names, Ids, RemoveLeftover, Plain, Goto, Leftover, others,
     directory
<1>25. CASE LeftoverSynced
  BY <1>0, <1>25, SyncDoes DEF Present, LeftoverSynced, Plain, Goto, others, directory
<1>26. CASE RecoveredRecord
  BY <1>0, <1>26, RemoveDoes DEF Present, Places, Finds, Routes, Directories, ReplaceSteps,
     ExchangeSteps, RecoverySteps, Names, Ids, RecoveredRecord, Plain, Goto, others, directory
<1>27. CASE RecoverySynced
  BY <1>0, <1>27, SyncDoes DEF Present, RecoverySynced, Goto, AfterRecovery, others, directory
<1>28. CASE AfterFailure
  BY <1>0, <1>28 DEF Present, AfterFailure, Plain, Goto, others, directory
<1>29. CASE CleanupTemporary
  BY <1>0, <1>29, RemoveDoes DEF Present, Places, Finds, Routes, Directories, ReplaceSteps,
     ExchangeSteps, RecoverySteps, Names, Ids, CleanupTemporary, Plain, Goto, Bound, others,
     directory
<1>30. CASE CleanupSynced
  BY <1>0, <1>30, SyncDoes DEF Present, CleanupSynced, Plain, Goto, others, directory
<1>31. CASE rename_no_replace_to
  BY <1>0, <1>31, RenameDoes DEF Present, Places, Finds, Routes, Directories, ReplaceSteps,
     ExchangeSteps, RecoverySteps, Names, Ids, rename_no_replace_to, Plain, Goto, Fail, Bound,
     others, directory
<1>32. CASE CreatedSynced
  BY <1>0, <1>32, SyncDoes DEF Present, CreatedSynced, Plain, Goto, Fail, Bound, others,
     directory
<1>33. CASE UnixVerify
  BY <1>0, <1>33 DEF Present, UnixVerify, Plain, Goto, Fail, Bound, others, directory
<1>34. CASE anchored_exchange_files
  BY <1>0, <1>34, ExchangeDoes DEF Present, Places, Finds, Routes, Directories, ReplaceSteps,
     ExchangeSteps, RecoverySteps, Names, Ids, anchored_exchange_files, Plain, Goto, Fail,
     others, directory
<1>35. CASE ExchangeVerified
  BY <1>0, <1>35, SyncDoes DEF Present, ExchangeVerified, Plain, Goto, Fail, Bound, others,
     directory
<1>36. CASE RemoveOld
  BY <1>0, <1>36, RemoveDoes DEF Present, Places, Finds, Routes, Directories, ReplaceSteps,
     ExchangeSteps, RecoverySteps, Names, Ids, RemoveOld, Plain, Goto, Fail, Bound, others,
     directory
<1>37. CASE UnlinkVerify
  BY <1>0, <1>37 DEF Present, UnlinkVerify, Plain, Goto, Fail, Bound, others, directory
<1>38. CASE Detach
  BY <1>0, <1>38, RenameDoes DEF Present, Places, Finds, Routes, Directories, ReplaceSteps,
     ExchangeSteps, RecoverySteps, Names, Ids, Detach, Plain, Goto, Fail, others, directory
<1>39. CASE DetachedCheck
  BY <1>0, <1>39, SyncDoes DEF Present, DetachedCheck, Plain, Goto, Fail, Bound, others,
     directory
<1>40. CASE RemoveDetached
  BY <1>0, <1>40, RemoveDoes DEF Present, Places, Finds, Routes, Directories, ReplaceSteps,
     ExchangeSteps, RecoverySteps, Names, Ids, RemoveDetached, Plain, Goto, others, directory
<1>41. CASE Rollback
  BY <1>0, <1>41, RenameDoes DEF Present, Places, Finds, Routes, Directories, ReplaceSteps,
     ExchangeSteps, RecoverySteps, Names, Ids, Rollback, Plain, Goto, others, directory
<1>42. CASE RolledBackSynced
  BY <1>0, <1>42, SyncDoes DEF Present, RolledBackSynced, Fail, Goto, others, directory
<1>43. CASE OpenForRemoval
  BY <1>0, <1>43 DEF Present, OpenForRemoval, Goto, Fail, Bound, others, directory
<1>44. CASE remove_open_handle
  BY <1>0, <1>44, RemoveDoes DEF Present, Places, Finds, Routes, Directories, ReplaceSteps,
     ExchangeSteps, RecoverySteps, Names, Ids, remove_open_handle, Goto, Fail, others,
     directory
<1>45. QED
  BY <1>1, <1>2, <1>3, <1>4, <1>5, <1>6, <1>7, <1>8, <1>9, <1>10, <1>11, <1>12, <1>13,
     <1>14, <1>15, <1>16, <1>17, <1>18, <1>19, <1>20, <1>21, <1>22, <1>23, <1>24, <1>25,
     <1>26, <1>27, <1>28, <1>29, <1>30, <1>31, <1>32, <1>33, <1>34, <1>35, <1>36, <1>37,
     <1>38, <1>39, <1>40, <1>41, <1>42, <1>43, <1>44 DEF Next, Other

(* So a file of others is lost only through others, or through a change of *)
(* theirs that was not synced.                                             *)
LEMMA PlacedStep ==
    ASSUME PlacesInv, PlacedStays, [Next]_vars
    PROVE  PlacedStays'
<1> USE AnchoredAssumption
<1>0. TypeOK /\ Directories
  BY DEF PlacesInv, TypeOK, Directories
<1>1. CASE OtherReplaces
  BY <1>0, <1>1, CreateDoes DEF PlacedStays, Present, TypeOK, Names, Ids, Directories,
     OtherReplaces
<1>2. CASE PowerLoss
  BY <1>0, <1>2 DEF PlacedStays, Present, PowerLoss
<1>3. CASE Next /\ ~OtherReplaces /\ ~PowerLoss
  <2>1. placed' = placed /\ dropped' = dropped /\ \A x \in Foreign : Present(x) => Present(x)'
    BY <1>3, OthersAreKept
  <2>2. QED
    BY <1>0, <2>1 DEF PlacedStays, TypeOK
<1>4. CASE UNCHANGED vars
  BY <1>4 DEF PlacedStays, Present, vars
<1>5. QED
  BY <1>1, <1>2, <1>3, <1>4

(* What was written into the old file, or made in the old directory, keeps *)
(* it from being removed.                                                  *)
LEMMA SurvivalStep ==
    ASSUME PlacesInv, PlacesInv', Staying, [Next]_vars
    PROVE  Staying'
<1> USE AnchoredAssumption
<1>0. /\ TypeOK /\ Routes /\ Places /\ Finds /\ Directories
      /\ Lone /\ OnDisk /\ Back /\ WrittenStays /\ FilledStays
  BY DEF PlacesInv, TypeOK, Directories, Staying
<1>1. CASE OtherReplaces
  <2>1. Lone'
    BY <1>0, <1>1, CreateDoes DEF Lone, Places, Finds, Routes, Directories, ReplaceSteps,
       RecoverySteps, ExchangeSteps, Replacing, Unlinking, Names, Ids, OtherReplaces, Create,
       others, directory
  <2>2. OnDisk'
    BY <1>0, <1>1, CreateDoes DEF OnDisk, Has, Present, Lone, Back, Undisturbed, Places,
       Finds, Routes, Directories, ReplaceSteps, RecoverySteps, ExchangeSteps, Replacing,
       Unlinking, Names, Ids, OtherReplaces, Create, others, directory
  <2>3. Back'
    BY <1>0, <1>1, CreateDoes DEF Back, Lone, Undisturbed, Places, Finds, Routes, Directories,
       ReplaceSteps, RecoverySteps, ExchangeSteps, Replacing, Unlinking, Names, Ids,
       OtherReplaces, Create, others, directory
  <2>4. WrittenStays'
    BY <1>0, <1>1, CreateDoes DEF WrittenStays, Present, TypeOK, Places, Finds, Routes,
       Directories, ReplaceSteps, RecoverySteps, ExchangeSteps, Replacing, Unlinking, Names,
       Ids, OtherReplaces, Create, others, directory
  <2>5. FilledStays'
    BY <1>0, <1>1, CreateDoes DEF FilledStays, Present, Lone, OnDisk, Has, Undisturbed,
       Places, Finds, Routes, Directories, ReplaceSteps, RecoverySteps, ExchangeSteps,
       Replacing, Unlinking, Names, Ids, OtherReplaces, Create, others, directory
  <2>6. QED
    BY <2>1, <2>2, <2>3, <2>4, <2>5 DEF Staying
<1>2. CASE OtherWrites
  <2>1. Lone'
    BY <1>0, <1>2 DEF Lone, Places, Finds, Routes, Directories, ReplaceSteps, RecoverySteps,
       ExchangeSteps, Replacing, Unlinking, Names, Ids, OtherWrites, others, directory
  <2>2. OnDisk'
    BY <1>0, <1>2 DEF OnDisk, Has, Present, Lone, Back, Undisturbed, Places, Finds, Routes,
       Directories, ReplaceSteps, RecoverySteps, ExchangeSteps, Replacing, Unlinking, Names,
       Ids, OtherWrites, others, directory
  <2>3. Back'
    BY <1>0, <1>2 DEF Back, Lone, Undisturbed, Places, Finds, Routes, Directories,
       ReplaceSteps, RecoverySteps, ExchangeSteps, Replacing, Unlinking, Names, Ids,
       OtherWrites, others, directory
  <2>4. WrittenStays'
    BY <1>0, <1>2 DEF WrittenStays, Present, TypeOK, Places, Finds, Routes, Directories,
       ReplaceSteps, RecoverySteps, ExchangeSteps, Replacing, Unlinking, Names, Ids,
       OtherWrites, others, directory
  <2>5. FilledStays'
    BY <1>0, <1>2 DEF FilledStays, Present, Lone, OnDisk, Has, Undisturbed, Places, Finds,
       Routes, Directories, ReplaceSteps, RecoverySteps, ExchangeSteps, Replacing, Unlinking,
       Names, Ids, OtherWrites, others, directory
  <2>6. QED
    BY <2>1, <2>2, <2>3, <2>4, <2>5 DEF Staying
<1>3. CASE OtherFills
  <2>1. Lone'
    BY <1>0, <1>3 DEF Lone, Places, Finds, Routes, Directories, ReplaceSteps, RecoverySteps,
       ExchangeSteps, Replacing, Unlinking, Names, Ids, OtherFills, others, directory
  <2>2. OnDisk'
    BY <1>0, <1>3 DEF OnDisk, Has, Present, Lone, Back, Undisturbed, Places, Finds, Routes,
       Directories, ReplaceSteps, RecoverySteps, ExchangeSteps, Replacing, Unlinking, Names,
       Ids, OtherFills, others, directory
  <2>3. Back'
    BY <1>0, <1>3 DEF Back, Lone, Undisturbed, Places, Finds, Routes, Directories,
       ReplaceSteps, RecoverySteps, ExchangeSteps, Replacing, Unlinking, Names, Ids,
       OtherFills, others, directory
  <2>4. WrittenStays'
    BY <1>0, <1>3 DEF WrittenStays, Present, TypeOK, Places, Finds, Routes, Directories,
       ReplaceSteps, RecoverySteps, ExchangeSteps, Replacing, Unlinking, Names, Ids,
       OtherFills, others, directory
  <2>5. FilledStays'
    BY <1>0, <1>3 DEF FilledStays, Present, Lone, OnDisk, Has, Undisturbed, Places, Finds,
       Routes, Directories, ReplaceSteps, RecoverySteps, ExchangeSteps, Replacing, Unlinking,
       Names, Ids, OtherFills, others, directory
  <2>6. QED
    BY <2>1, <2>2, <2>3, <2>4, <2>5 DEF Staying
<1>4. CASE Crash
  <2>1. Lone'
    BY <1>0, <1>4 DEF Lone, Places, Finds, Routes, Directories, ReplaceSteps, RecoverySteps,
       ExchangeSteps, Replacing, Unlinking, Names, Ids, Crash, others, directory
  <2>2. OnDisk'
    BY <1>0, <1>4 DEF OnDisk, Has, Present, Lone, Back, Undisturbed, Places, Finds, Routes,
       Directories, ReplaceSteps, RecoverySteps, ExchangeSteps, Replacing, Unlinking, Names,
       Ids, Crash, others, directory
  <2>3. Back'
    BY <1>0, <1>4 DEF Back, Lone, Undisturbed, Places, Finds, Routes, Directories,
       ReplaceSteps, RecoverySteps, ExchangeSteps, Replacing, Unlinking, Names, Ids, Crash,
       others, directory
  <2>4. WrittenStays'
    BY <1>0, <1>4 DEF WrittenStays, Present, TypeOK, Places, Finds, Routes, Directories,
       ReplaceSteps, RecoverySteps, ExchangeSteps, Replacing, Unlinking, Names, Ids, Crash,
       others, directory
  <2>5. FilledStays'
    BY <1>0, <1>4 DEF FilledStays, Present, Lone, OnDisk, Has, Undisturbed, Places, Finds,
       Routes, Directories, ReplaceSteps, RecoverySteps, ExchangeSteps, Replacing, Unlinking,
       Names, Ids, Crash, others, directory
  <2>6. QED
    BY <2>1, <2>2, <2>3, <2>4, <2>5 DEF Staying
<1>5. CASE PowerLoss
  <2>1. Lone'
    BY <1>0, <1>5 DEF Lone, Places, Finds, Routes, Directories, ReplaceSteps, RecoverySteps,
       ExchangeSteps, Replacing, Unlinking, Names, Ids, PowerLoss, others, directory
  <2>2. OnDisk'
    BY <1>0, <1>5 DEF OnDisk, Has, Present, Lone, Back, Undisturbed, Places, Finds, Routes,
       Directories, ReplaceSteps, RecoverySteps, ExchangeSteps, Replacing, Unlinking, Names,
       Ids, PowerLoss, others, directory
  <2>3. Back'
    BY <1>0, <1>5 DEF Back, Lone, Undisturbed, Places, Finds, Routes, Directories,
       ReplaceSteps, RecoverySteps, ExchangeSteps, Replacing, Unlinking, Names, Ids,
       PowerLoss, others, directory
  <2>4. WrittenStays'
    BY <1>0, <1>5 DEF WrittenStays, Present, TypeOK, Places, Finds, Routes, Directories,
       ReplaceSteps, RecoverySteps, ExchangeSteps, Replacing, Unlinking, Names, Ids,
       PowerLoss, others, directory
  <2>5. FilledStays'
    BY <1>0, <1>5 DEF FilledStays, Present, Lone, OnDisk, Has, Undisturbed, Places, Finds,
       Routes, Directories, ReplaceSteps, RecoverySteps, ExchangeSteps, Replacing, Unlinking,
       Names, Ids, PowerLoss, others, directory
  <2>6. QED
    BY <2>1, <2>2, <2>3, <2>4, <2>5 DEF Staying
<1>6. CASE IoError
  <2>1. Lone'
    BY <1>0, <1>6 DEF Lone, Places, Finds, Routes, Directories, ReplaceSteps, RecoverySteps,
       ExchangeSteps, Replacing, Unlinking, Names, Ids, IoError, AfterRecovery, Recovering,
       others, directory
  <2>2. OnDisk'
    BY <1>0, <1>6 DEF OnDisk, Has, Present, Lone, Back, Undisturbed, Places, Finds, Routes,
       Directories, ReplaceSteps, RecoverySteps, ExchangeSteps, Replacing, Unlinking, Names,
       Ids, IoError, AfterRecovery, Recovering, others, directory
  <2>3. Back'
    BY <1>0, <1>6 DEF Back, Lone, Undisturbed, Places, Finds, Routes, Directories,
       ReplaceSteps, RecoverySteps, ExchangeSteps, Replacing, Unlinking, Names, Ids, IoError,
       AfterRecovery, Recovering, others, directory
  <2>4. WrittenStays'
    BY <1>0, <1>6 DEF WrittenStays, Present, TypeOK, Places, Finds, Routes, Directories,
       ReplaceSteps, RecoverySteps, ExchangeSteps, Replacing, Unlinking, Names, Ids, IoError,
       AfterRecovery, Recovering, others, directory
  <2>5. FilledStays'
    BY <1>0, <1>6 DEF FilledStays, Present, Lone, OnDisk, Has, Undisturbed, Places, Finds,
       Routes, Directories, ReplaceSteps, RecoverySteps, ExchangeSteps, Replacing, Unlinking,
       Names, Ids, IoError, AfterRecovery, Recovering, others, directory
  <2>6. QED
    BY <2>1, <2>2, <2>3, <2>4, <2>5 DEF Staying
<1>7. CASE AfterFailure
  <2>1. Lone'
    BY <1>0, <1>7 DEF Lone, Places, Finds, Routes, Directories, ReplaceSteps, RecoverySteps,
       ExchangeSteps, Replacing, Unlinking, Names, Ids, AfterFailure, Plain, Goto, others,
       directory
  <2>2. OnDisk'
    BY <1>0, <1>7 DEF OnDisk, Has, Present, Lone, Back, Undisturbed, Places, Finds, Routes,
       Directories, ReplaceSteps, RecoverySteps, ExchangeSteps, Replacing, Unlinking, Names,
       Ids, AfterFailure, Plain, Goto, others, directory
  <2>3. Back'
    BY <1>0, <1>7 DEF Back, Lone, Undisturbed, Places, Finds, Routes, Directories,
       ReplaceSteps, RecoverySteps, ExchangeSteps, Replacing, Unlinking, Names, Ids,
       AfterFailure, Plain, Goto, others, directory
  <2>4. WrittenStays'
    BY <1>0, <1>7 DEF WrittenStays, Present, TypeOK, Places, Finds, Routes, Directories,
       ReplaceSteps, RecoverySteps, ExchangeSteps, Replacing, Unlinking, Names, Ids,
       AfterFailure, Plain, Goto, others, directory
  <2>5. FilledStays'
    BY <1>0, <1>7 DEF FilledStays, Present, Lone, OnDisk, Has, Undisturbed, Places, Finds,
       Routes, Directories, ReplaceSteps, RecoverySteps, ExchangeSteps, Replacing, Unlinking,
       Names, Ids, AfterFailure, Plain, Goto, others, directory
  <2>6. QED
    BY <2>1, <2>2, <2>3, <2>4, <2>5 DEF Staying
<1>8. CASE CleanupTemporary
  <2>1. Lone'
    BY <1>0, <1>8, RemoveDoes DEF Lone, Places, Finds, Routes, Directories, ReplaceSteps,
       RecoverySteps, ExchangeSteps, Replacing, Unlinking, Names, Ids, CleanupTemporary,
       Plain, Goto, Bound, others, directory
  <2>2. OnDisk'
    BY <1>0, <1>8, RemoveDoes DEF OnDisk, Has, Present, Lone, Back, Undisturbed, Places,
       Finds, Routes, Directories, ReplaceSteps, RecoverySteps, ExchangeSteps, Replacing,
       Unlinking, Names, Ids, CleanupTemporary, Plain, Goto, Bound, others, directory
  <2>3. Back'
    BY <1>0, <1>8, RemoveDoes DEF Back, Lone, Undisturbed, Places, Finds, Routes, Directories,
       ReplaceSteps, RecoverySteps, ExchangeSteps, Replacing, Unlinking, Names, Ids,
       CleanupTemporary, Plain, Goto, Bound, others, directory
  <2>4. WrittenStays'
    BY <1>0, <1>8, RemoveDoes DEF WrittenStays, Present, TypeOK, Places, Finds, Routes,
       Directories, ReplaceSteps, RecoverySteps, ExchangeSteps, Replacing, Unlinking, Names,
       Ids, CleanupTemporary, Plain, Goto, Bound, others, directory
  <2>5. FilledStays'
    BY <1>0, <1>8, RemoveDoes DEF FilledStays, Present, Lone, OnDisk, Has, Undisturbed,
       Places, Finds, Routes, Directories, ReplaceSteps, RecoverySteps, ExchangeSteps,
       Replacing, Unlinking, Names, Ids, CleanupTemporary, Plain, Goto, Bound, others,
       directory
  <2>6. QED
    BY <2>1, <2>2, <2>3, <2>4, <2>5 DEF Staying
<1>9. CASE CleanupSynced
  <2>1. Lone'
    BY <1>0, <1>9, SyncDoes DEF Lone, Places, Finds, Routes, Directories, ReplaceSteps,
       RecoverySteps, ExchangeSteps, Replacing, Unlinking, Names, Ids, CleanupSynced, Plain,
       Goto, others, directory
  <2>2. OnDisk'
    BY <1>0, <1>9, SyncDoes DEF OnDisk, Has, Present, Lone, Back, Undisturbed, Places, Finds,
       Routes, Directories, ReplaceSteps, RecoverySteps, ExchangeSteps, Replacing, Unlinking,
       Names, Ids, CleanupSynced, Plain, Goto, others, directory
  <2>3. Back'
    BY <1>0, <1>9, SyncDoes DEF Back, Lone, Undisturbed, Places, Finds, Routes, Directories,
       ReplaceSteps, RecoverySteps, ExchangeSteps, Replacing, Unlinking, Names, Ids,
       CleanupSynced, Plain, Goto, others, directory
  <2>4. WrittenStays'
    BY <1>0, <1>9, SyncDoes DEF WrittenStays, Present, TypeOK, Places, Finds, Routes,
       Directories, ReplaceSteps, RecoverySteps, ExchangeSteps, Replacing, Unlinking, Names,
       Ids, CleanupSynced, Plain, Goto, others, directory
  <2>5. FilledStays'
    BY <1>0, <1>9, SyncDoes DEF FilledStays, Present, Lone, OnDisk, Has, Undisturbed, Places,
       Finds, Routes, Directories, ReplaceSteps, RecoverySteps, ExchangeSteps, Replacing,
       Unlinking, Names, Ids, CleanupSynced, Plain, Goto, others, directory
  <2>6. QED
    BY <2>1, <2>2, <2>3, <2>4, <2>5 DEF Staying
<1>10. CASE UnlinkVerify
  <2>1. Lone'
    BY <1>0, <1>10 DEF Lone, Places, Finds, Routes, Directories, ReplaceSteps, RecoverySteps,
       ExchangeSteps, Replacing, Unlinking, Names, Ids, UnlinkVerify, Plain, Goto, Fail,
       Bound, others, directory
  <2>2. OnDisk'
    BY <1>0, <1>10 DEF OnDisk, Has, Present, Lone, Back, Undisturbed, Places, Finds, Routes,
       Directories, ReplaceSteps, RecoverySteps, ExchangeSteps, Replacing, Unlinking, Names,
       Ids, UnlinkVerify, Plain, Goto, Fail, Bound, others, directory
  <2>3. Back'
    BY <1>0, <1>10 DEF Back, Lone, Undisturbed, Places, Finds, Routes, Directories,
       ReplaceSteps, RecoverySteps, ExchangeSteps, Replacing, Unlinking, Names, Ids,
       UnlinkVerify, Plain, Goto, Fail, Bound, others, directory
  <2>4. WrittenStays'
    BY <1>0, <1>10 DEF WrittenStays, Present, TypeOK, Places, Finds, Routes, Directories,
       ReplaceSteps, RecoverySteps, ExchangeSteps, Replacing, Unlinking, Names, Ids,
       UnlinkVerify, Plain, Goto, Fail, Bound, others, directory
  <2>5. FilledStays'
    BY <1>0, <1>10 DEF FilledStays, Present, Lone, OnDisk, Has, Undisturbed, Places, Finds,
       Routes, Directories, ReplaceSteps, RecoverySteps, ExchangeSteps, Replacing, Unlinking,
       Names, Ids, UnlinkVerify, Plain, Goto, Fail, Bound, others, directory
  <2>6. QED
    BY <2>1, <2>2, <2>3, <2>4, <2>5 DEF Staying
<1>11. CASE Detach
  <2>1. Lone'
    BY <1>0, <1>11, RenameDoes DEF Lone, Places, Finds, Routes, Directories, ReplaceSteps,
       RecoverySteps, ExchangeSteps, Replacing, Unlinking, Names, Ids, Detach, Plain, Goto,
       Fail, others, directory
  <2>2. OnDisk'
    BY <1>0, <1>11, RenameDoes DEF OnDisk, Has, Present, Lone, Back, Undisturbed, Places,
       Finds, Routes, Directories, ReplaceSteps, RecoverySteps, ExchangeSteps, Replacing,
       Unlinking, Names, Ids, Detach, Plain, Goto, Fail, others, directory
  <2>3. Back'
    BY <1>0, <1>11, RenameDoes DEF Back, Lone, Undisturbed, Places, Finds, Routes,
       Directories, ReplaceSteps, RecoverySteps, ExchangeSteps, Replacing, Unlinking, Names,
       Ids, Detach, Plain, Goto, Fail, others, directory
  <2>4. WrittenStays'
    BY <1>0, <1>11, RenameDoes DEF WrittenStays, Present, TypeOK, Places, Finds, Routes,
       Directories, ReplaceSteps, RecoverySteps, ExchangeSteps, Replacing, Unlinking, Names,
       Ids, Detach, Plain, Goto, Fail, others, directory
  <2>5. FilledStays'
    <3>1. CASE UNCHANGED directory /\ UNCHANGED others
      BY <1>0, <1>11, <3>1 DEF FilledStays, Present, Detach, Plain, Goto, Fail, directory,
         others
    <3>2. CASE Rename("dest", "tomb") /\ UNCHANGED others
      <4>1. /\ entries'["tomb"] = entries["dest"] /\ entries["tomb"] = None
            /\ entries'["temp"] = entries["temp"] /\ entries'["record"] = entries["record"]
        BY <1>0, <1>11, <3>2, RenameDoes DEF Detach, Finds, Names
      <4>2. Present(Old) => Present(Old)'
        BY <4>1 DEF Present, Names, Ids
      <4>3. QED
        BY <1>0, <1>11, <3>2, <4>2 DEF FilledStays, Detach, Plain, Goto, Fail, others
    <3>3. QED
      BY <1>11, <3>1, <3>2 DEF Detach, Plain, Goto, Fail
  <2>6. QED
    BY <2>1, <2>2, <2>3, <2>4, <2>5 DEF Staying
<1>12. CASE DetachedCheck
  <2>1. Lone'
    BY <1>0, <1>12, SyncDoes DEF Lone, Places, Finds, Routes, Directories, ReplaceSteps,
       RecoverySteps, ExchangeSteps, Replacing, Unlinking, Names, Ids, DetachedCheck, Plain,
       Goto, Fail, Bound, others, directory
  <2>2. OnDisk'
    BY <1>0, <1>12, SyncDoes DEF OnDisk, Has, Present, Lone, Back, Undisturbed, Places, Finds,
       Routes, Directories, ReplaceSteps, RecoverySteps, ExchangeSteps, Replacing, Unlinking,
       Names, Ids, DetachedCheck, Plain, Goto, Fail, Bound, others, directory
  <2>3. Back'
    BY <1>0, <1>12, SyncDoes DEF Back, Lone, Undisturbed, Places, Finds, Routes, Directories,
       ReplaceSteps, RecoverySteps, ExchangeSteps, Replacing, Unlinking, Names, Ids,
       DetachedCheck, Plain, Goto, Fail, Bound, others, directory
  <2>4. WrittenStays'
    BY <1>0, <1>12, SyncDoes DEF WrittenStays, Present, TypeOK, Places, Finds, Routes,
       Directories, ReplaceSteps, RecoverySteps, ExchangeSteps, Replacing, Unlinking, Names,
       Ids, DetachedCheck, Plain, Goto, Fail, Bound, others, directory
  <2>5. FilledStays'
    BY <1>0, <1>12, SyncDoes DEF FilledStays, Present, Lone, OnDisk, Has, Undisturbed, Places,
       Finds, Routes, Directories, ReplaceSteps, RecoverySteps, ExchangeSteps, Replacing,
       Unlinking, Names, Ids, DetachedCheck, Plain, Goto, Fail, Bound, others, directory
  <2>6. QED
    BY <2>1, <2>2, <2>3, <2>4, <2>5 DEF Staying
<1>13. CASE RemoveDetached
  <2>1. Lone'
    BY <1>0, <1>13, RemoveDoes DEF Lone, Places, Finds, Routes, Directories, ReplaceSteps,
       RecoverySteps, ExchangeSteps, Replacing, Unlinking, Names, Ids, RemoveDetached, Plain,
       Goto, others, directory
  <2>2. OnDisk'
    BY <1>0, <1>13, RemoveDoes DEF OnDisk, Has, Present, Lone, Back, Undisturbed, Places,
       Finds, Routes, Directories, ReplaceSteps, RecoverySteps, ExchangeSteps, Replacing,
       Unlinking, Names, Ids, RemoveDetached, Plain, Goto, others, directory
  <2>3. Back'
    BY <1>0, <1>13, RemoveDoes DEF Back, Lone, Undisturbed, Places, Finds, Routes,
       Directories, ReplaceSteps, RecoverySteps, ExchangeSteps, Replacing, Unlinking, Names,
       Ids, RemoveDetached, Plain, Goto, others, directory
  <2>4. WrittenStays'
    BY <1>0, <1>13, RemoveDoes DEF WrittenStays, Present, TypeOK, Places, Finds, Routes,
       Directories, ReplaceSteps, RecoverySteps, ExchangeSteps, Replacing, Unlinking, Names,
       Ids, RemoveDetached, Plain, Goto, others, directory
  <2>5. FilledStays'
    BY <1>0, <1>13, RemoveDoes DEF FilledStays, Present, Lone, OnDisk, Has, Undisturbed,
       Places, Finds, Routes, Directories, ReplaceSteps, RecoverySteps, ExchangeSteps,
       Replacing, Unlinking, Names, Ids, RemoveDetached, Plain, Goto, others, directory
  <2>6. QED
    BY <2>1, <2>2, <2>3, <2>4, <2>5 DEF Staying
<1>14. CASE Rollback
  <2>1. Lone'
    BY <1>0, <1>14, RenameDoes DEF Lone, Places, Finds, Routes, Directories, ReplaceSteps,
       RecoverySteps, ExchangeSteps, Replacing, Unlinking, Names, Ids, Rollback, Plain, Goto,
       others, directory
  <2>2. OnDisk'
    BY <1>0, <1>14, RenameDoes DEF OnDisk, Has, Present, Lone, Back, Undisturbed, Places,
       Finds, Routes, Directories, ReplaceSteps, RecoverySteps, ExchangeSteps, Replacing,
       Unlinking, Names, Ids, Rollback, Plain, Goto, others, directory
  <2>3. Back'
    BY <1>0, <1>14, RenameDoes DEF Back, Lone, Undisturbed, Places, Finds, Routes,
       Directories, ReplaceSteps, RecoverySteps, ExchangeSteps, Replacing, Unlinking, Names,
       Ids, Rollback, Plain, Goto, others, directory
  <2>4. WrittenStays'
    BY <1>0, <1>14, RenameDoes DEF WrittenStays, Present, TypeOK, Places, Finds, Routes,
       Directories, ReplaceSteps, RecoverySteps, ExchangeSteps, Replacing, Unlinking, Names,
       Ids, Rollback, Plain, Goto, others, directory
  <2>5. FilledStays'
    BY <1>0, <1>14, RenameDoes DEF FilledStays, Present, Lone, OnDisk, Has, Undisturbed,
       Places, Finds, Routes, Directories, ReplaceSteps, RecoverySteps, ExchangeSteps,
       Replacing, Unlinking, Names, Ids, Rollback, Plain, Goto, others, directory
  <2>6. QED
    BY <2>1, <2>2, <2>3, <2>4, <2>5 DEF Staying
<1>15. CASE RolledBackSynced
  <2>1. Lone'
    BY <1>0, <1>15, SyncDoes DEF Lone, Places, Finds, Routes, Directories, ReplaceSteps,
       RecoverySteps, ExchangeSteps, Replacing, Unlinking, Names, Ids, RolledBackSynced, Fail,
       Goto, others, directory
  <2>2. OnDisk'
    BY <1>0, <1>15, SyncDoes DEF OnDisk, Has, Present, Lone, Back, Undisturbed, Places, Finds,
       Routes, Directories, ReplaceSteps, RecoverySteps, ExchangeSteps, Replacing, Unlinking,
       Names, Ids, RolledBackSynced, Fail, Goto, others, directory
  <2>3. Back'
    BY <1>0, <1>15, SyncDoes DEF Back, Lone, Undisturbed, Places, Finds, Routes, Directories,
       ReplaceSteps, RecoverySteps, ExchangeSteps, Replacing, Unlinking, Names, Ids,
       RolledBackSynced, Fail, Goto, others, directory
  <2>4. WrittenStays'
    BY <1>0, <1>15, SyncDoes DEF WrittenStays, Present, TypeOK, Places, Finds, Routes,
       Directories, ReplaceSteps, RecoverySteps, ExchangeSteps, Replacing, Unlinking, Names,
       Ids, RolledBackSynced, Fail, Goto, others, directory
  <2>5. FilledStays'
    BY <1>0, <1>15, SyncDoes DEF FilledStays, Present, Lone, OnDisk, Has, Undisturbed, Places,
       Finds, Routes, Directories, ReplaceSteps, RecoverySteps, ExchangeSteps, Replacing,
       Unlinking, Names, Ids, RolledBackSynced, Fail, Goto, others, directory
  <2>6. QED
    BY <2>1, <2>2, <2>3, <2>4, <2>5 DEF Staying
<1>16. CASE OpenForRemoval
  <2>1. Lone'
    BY <1>0, <1>16 DEF Lone, Places, Finds, Routes, Directories, ReplaceSteps, RecoverySteps,
       ExchangeSteps, Replacing, Unlinking, Names, Ids, OpenForRemoval, Goto, Fail, Bound,
       others, directory
  <2>2. OnDisk'
    BY <1>0, <1>16 DEF OnDisk, Has, Present, Lone, Back, Undisturbed, Places, Finds, Routes,
       Directories, ReplaceSteps, RecoverySteps, ExchangeSteps, Replacing, Unlinking, Names,
       Ids, OpenForRemoval, Goto, Fail, Bound, others, directory
  <2>3. Back'
    BY <1>0, <1>16 DEF Back, Lone, Undisturbed, Places, Finds, Routes, Directories,
       ReplaceSteps, RecoverySteps, ExchangeSteps, Replacing, Unlinking, Names, Ids,
       OpenForRemoval, Goto, Fail, Bound, others, directory
  <2>4. WrittenStays'
    BY <1>0, <1>16 DEF WrittenStays, Present, TypeOK, Places, Finds, Routes, Directories,
       ReplaceSteps, RecoverySteps, ExchangeSteps, Replacing, Unlinking, Names, Ids,
       OpenForRemoval, Goto, Fail, Bound, others, directory
  <2>5. FilledStays'
    BY <1>0, <1>16 DEF FilledStays, Present, Lone, OnDisk, Has, Undisturbed, Places, Finds,
       Routes, Directories, ReplaceSteps, RecoverySteps, ExchangeSteps, Replacing, Unlinking,
       Names, Ids, OpenForRemoval, Goto, Fail, Bound, others, directory
  <2>6. QED
    BY <2>1, <2>2, <2>3, <2>4, <2>5 DEF Staying
<1>17. CASE remove_open_handle
  <2>1. Lone'
    BY <1>0, <1>17, RemoveDoes DEF Lone, Places, Finds, Routes, Directories, ReplaceSteps,
       RecoverySteps, ExchangeSteps, Replacing, Unlinking, Names, Ids, remove_open_handle,
       Goto, Fail, others, directory
  <2>2. OnDisk'
    BY <1>0, <1>17, RemoveDoes DEF OnDisk, Has, Present, Lone, Back, Undisturbed, Places,
       Finds, Routes, Directories, ReplaceSteps, RecoverySteps, ExchangeSteps, Replacing,
       Unlinking, Names, Ids, remove_open_handle, Goto, Fail, others, directory
  <2>3. Back'
    BY <1>0, <1>17, RemoveDoes DEF Back, Lone, Undisturbed, Places, Finds, Routes,
       Directories, ReplaceSteps, RecoverySteps, ExchangeSteps, Replacing, Unlinking, Names,
       Ids, remove_open_handle, Goto, Fail, others, directory
  <2>4. WrittenStays'
    BY <1>0, <1>17, RemoveDoes DEF WrittenStays, Present, TypeOK, Places, Finds, Routes,
       Directories, ReplaceSteps, RecoverySteps, ExchangeSteps, Replacing, Unlinking, Names,
       Ids, remove_open_handle, Goto, Fail, others, directory
  <2>5. FilledStays'
    BY <1>0, <1>17, RemoveDoes DEF FilledStays, Present, Lone, OnDisk, Has, Undisturbed,
       Places, Finds, Routes, Directories, ReplaceSteps, RecoverySteps, ExchangeSteps,
       Replacing, Unlinking, Names, Ids, remove_open_handle, Goto, Fail, others, directory
  <2>6. QED
    BY <2>1, <2>2, <2>3, <2>4, <2>5 DEF Staying
<1>18. CASE \/ WindowsVerify \/ CreateRecord \/ WriteRecord
          \/ RecordFileSynced \/ RecordSynced \/ RefuseTornRecord
          \/ RecordFails \/ DetachDestination \/ DetachSynced
          \/ PublishReplacement \/ PublishFails \/ open_windows_finalization_guard
          \/ PublishSynced \/ RemoveTombstone \/ TombSynced
          \/ RemoveRecord \/ LastSync \/ Recover
          \/ recover_windows_replace_record_at \/ FinalizeSynced \/ RemoveLeftover
          \/ LeftoverSynced \/ RecoveredRecord \/ RecoverySynced
          \/ rename_no_replace_to \/ CreatedSynced \/ UnixVerify
          \/ anchored_exchange_files \/ ExchangeVerified \/ RemoveOld
  <2>1. op \notin {"rmdir", "versioned"} /\ op' = op
    <3>1. CASE \/ WindowsVerify \/ UnixVerify \/ rename_no_replace_to \/ CreatedSynced
      BY <1>0, <3>1 DEF Routes, Replacing, WindowsVerify, UnixVerify, rename_no_replace_to,
         CreatedSynced, Fail, Goto, Plain
    <3>2. CASE \/ CreateRecord \/ WriteRecord \/ RecordFileSynced \/ RecordSynced
           \/ RecordFails
           \/ DetachDestination \/ DetachSynced \/ PublishReplacement
           \/ PublishFails
      BY <1>0, <3>2 DEF Routes, ReplaceSteps, Replacing, CreateRecord, WriteRecord,
         RecordFileSynced, RecordSynced, RecordFails, DetachDestination, DetachSynced,
         PublishReplacement, PublishFails, Fail, Goto, Plain
    <3>3. CASE \/ open_windows_finalization_guard \/ PublishSynced \/ RemoveTombstone
           \/ TombSynced \/ RemoveRecord \/ LastSync
      BY <1>0, <3>3 DEF Routes, ReplaceSteps, ExchangeSteps, Replacing,
         open_windows_finalization_guard, PublishSynced, RemoveTombstone, TombSynced,
         RemoveRecord, LastSync, Fail, Goto, Plain
    <3>4. CASE Recover
      BY <1>0, <3>4 DEF Places, Directories, Ids, Replacing, Recover
    <3>5. CASE recover_windows_replace_record_at
      <4>1. Replacing
        BY <1>0, <3>5 DEF Routes, RecoverySteps, recover_windows_replace_record_at
      <4>2. op' = op
        BY <1>0, <3>5, RecoverDoes DEF Refuse, Finalize, Goto
      <4>3. QED
        BY <4>1, <4>2 DEF Replacing
    <3>6. CASE \/ RefuseTornRecord \/ FinalizeSynced \/ RemoveLeftover \/ LeftoverSynced
           \/ RecoveredRecord \/ RecoverySynced
      BY <1>0, <3>6 DEF Routes, RecoverySteps, Replacing, RefuseTornRecord, Refuse,
         FinalizeSynced, RemoveLeftover, LeftoverSynced, RecoveredRecord, RecoverySynced,
         Goto, Plain
    <3>7. CASE \/ anchored_exchange_files \/ ExchangeVerified \/ RemoveOld
      BY <1>0, <3>7 DEF Routes, ExchangeSteps, Replacing, anchored_exchange_files,
         ExchangeVerified, RemoveOld, Fail, Goto, Plain
    <3>8. QED
      BY <1>18, <3>1, <3>2, <3>3, <3>4, <3>5, <3>6, <3>7
  <2>2. QED
    BY <2>1 DEF Staying, Lone, OnDisk, Back, WrittenStays, FilledStays
<1>19. CASE UNCHANGED vars
  BY <1>0, <1>19 DEF Staying, Lone, OnDisk, Back, WrittenStays, FilledStays, Has, Present,
     Undisturbed, vars
<1>20. QED
  BY <1>1, <1>2, <1>3, <1>4, <1>5, <1>6, <1>7, <1>8, <1>9, <1>10, <1>11, <1>12, <1>13, <1>14,
     <1>15, <1>16, <1>17, <1>18, <1>19 DEF Next, Other

(* What another program puts at the name, writes into a file or makes in a *)
(* directory that is to be removed, is never removed; and a directory that *)
(* could not be removed is back at its name, unless that was taken or the  *)
(* process was cut off.                                                    *)
THEOREM OthersAlwaysSurvive == Spec => []OthersSurvive
<1>1. PlacesInv /\ [Next]_vars => PlacesInv'
  BY PlacesStep
<1>2. Init => SurvivalInv
  <2> SUFFICES ASSUME Init PROVE SurvivalInv
    OBVIOUS
  <2>1. op = "rmdir" => \A d \in disks : d["dest"] = Old /\ d["tomb"] = None
    BY DEF Init, Names, Replacing
  <2>2. Lone /\ Back
    BY <2>1 DEF Init, Lone, Back, Names
  <2>3. OnDisk
    BY <2>1 DEF OnDisk, Has, Names
  <2>4. PlacedStays /\ WrittenStays /\ FilledStays
    BY <2>1 DEF Init, PlacedStays, WrittenStays, FilledStays, Present, Names
  <2>5. QED
    BY <2>2, <2>3, <2>4 DEF SurvivalInv, Staying
<1>3. PlacesInv /\ PlacesInv' /\ SurvivalInv /\ [Next]_vars => SurvivalInv'
  BY PlacedStep, SurvivalStep DEF SurvivalInv
<1>4. SurvivalInv => OthersSurvive
  BY DEF SurvivalInv, Staying, Back, PlacedStays, WrittenStays, FilledStays, OthersSurvive
<1>5. QED
  BY <1>1, <1>2, <1>3, <1>4, PlacesInit, PTL DEF Spec
=============================================================================
