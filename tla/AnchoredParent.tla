--------------------------- MODULE AnchoredParent ---------------------------
(***************************************************************************)
(* Replacing and removing entries of a directory held open by its handle   *)
(* (AnchoredParent), on Unix and on Windows, while another program changes *)
(* the same name, any step may fail, and the machine may lose power.       *)
(*                                                                         *)
(* Names stand for directory entries and ids for file identities.  A       *)
(* change of the directory is on disk for certain only after a sync.       *)
(* Before that a power loss may keep any of the changes and lose any       *)
(* other: disks is the set of directories it can leave behind.             *)
(*                                                                         *)
(* The check of a name and the unlink that follows it are one step: the    *)
(* code states that POSIX leaves an interval there.  No other program uses *)
(* the private names, which hold a random number.                          *)
(***************************************************************************)
EXTENDS Integers

CONSTANTS
    None,
    Old,         \* the file or directory at the name at first
    New,         \* the temporary file that is to replace it
    Rec,         \* the Windows recovery record
    Foreign,     \* files that other programs put at the name
    MaxWrites    \* bound on writes by others into the old file

Names == {"dest", "temp", "tomb", "record"}
Ids == {Old, New, Rec} \cup Foreign

ASSUME AnchoredAssumption ==
    /\ MaxWrites \in Nat
    /\ Old # New /\ Old # Rec /\ New # Rec
    /\ {Old, New, Rec} \cap Foreign = {}
    /\ None \notin Ids

VARIABLES
    platform,   \* "unix" or "windows"
    op,         \* what is done to the name "dest"
    pc,
    entries,    \* the directory
    disks,      \* the directories a power loss can leave
    content,    \* of the recovery record: "torn" while it is empty or written in part,
                \* "written" until it is synced, then "durable"
    held,       \* on Windows: files that no other program can touch
    final,      \* during a recovery: the file it leaves at the name
    writes,     \* writes of others into the old file
    filled,     \* whether the old directory has entries of its own
    (* for the properties *)
    placed,     \* what others put at the name
    dropped,    \* what others removed or replaced, or a power loss took
    cut,        \* whether a step met an I/O error, or the process ended
    refused     \* what a recovery refused with

directory == <<entries, disks>>
others == <<writes, filled, placed, dropped>>
vars == <<platform, op, pc, entries, disks, content, held, final, writes, filled,
          placed, dropped, cut, refused>>

-----------------------------------------------------------------------------
(* Types. *)

Directory == [Names -> Ids \cup {None}]

Replacing == op \in {"replace", "batched"}

TypeOK ==
    /\ platform \in {"unix", "windows"}
    /\ op \in {"create", "replace", "batched", "unlink", "versioned", "rmdir"}
    /\ pc \in {"begin", "verified", "recordCreated", "recordWritten", "recorded", "recordSynced",
               "detached", "detachSynced", "published", "guarded", "publishSynced",
               "tombRemoved", "tombSynced", "recordRemoved", "exchanging", "exchanged",
               "exchangeSynced", "oldRemoved", "unlinking", "unlinked", "checked", "created",
               "rollback", "rolledBack", "failed", "recover", "finalize", "finalizeSynced",
               "leftoverRemoved", "recoverRecord", "recoverSync", "cleanup", "cleanupSync",
               "ok", "rest"}
    /\ entries \in Directory /\ disks \subseteq Directory /\ entries \in disks
    /\ content \in {"torn", "written", "durable"}
    /\ held \subseteq Ids /\ final \in {Old, New, None}
    /\ writes \in 0..MaxWrites /\ filled \in BOOLEAN
    /\ placed \subseteq Foreign /\ dropped \subseteq Ids
    /\ cut \in {"no", "error", "ended"} /\ refused \in {"no", "torn", "corrupt", "changed"}

Init ==
    /\ platform \in {"unix", "windows"}
    /\ op \in {"create", "replace", "batched", "unlink", "versioned", "rmdir"}
    /\ pc = "begin"
    /\ entries = [n \in Names |-> CASE n = "dest" /\ op # "create" -> Old
                                    [] n = "temp" /\ (Replacing \/ op = "create") -> New
                                    [] OTHER -> None]
    (* The temporary file was synced, its name was not. *)
    /\ disks = {entries, [entries EXCEPT !["temp"] = None]}
    /\ content = "torn" /\ held = {} /\ final = None
    /\ writes = 0 /\ filled \in (IF op = "rmdir" THEN BOOLEAN ELSE {FALSE})
    /\ placed = {} /\ dropped = {} /\ cut = "no" /\ refused = "no"

-----------------------------------------------------------------------------
(* Directory changes. *)

Mutate(Change(_)) ==
    /\ entries' = Change(entries)
    /\ disks' = disks \cup {Change(e) : e \in disks}

Rename(a, b) == Mutate(LAMBDA e : [e EXCEPT ![b] = entries[a], ![a] = None])
Remove(a)    == Mutate(LAMBDA e : [e EXCEPT ![a] = None])
Create(a, i) == Mutate(LAMBDA e : [e EXCEPT ![a] = i])
sync_all     == disks' = {entries} /\ UNCHANGED entries

Goto(step) == pc' = step /\ UNCHANGED <<platform, op, content, others, cut, refused>>
Plain(step) == Goto(step) /\ UNCHANGED <<held, final>>

(* verify_file_binding *)
Bound(n, i) == entries[n] = i

-----------------------------------------------------------------------------
(* Others, and power. *)

Present(i) == \E n \in Names : entries[n] = i

OtherReplaces ==
    /\ entries["dest"] \notin held
    /\ \E x \in (Foreign \ placed) \cup {None} :
         /\ x = None => entries["dest"] # None
         /\ Create("dest", x)
         /\ placed' = placed \cup ({x} \ {None})
    /\ dropped' = dropped \cup ({entries["dest"]} \ {None})
    /\ UNCHANGED <<platform, op, pc, content, held, final, writes, filled, cut, refused>>

(* Into a file that is still open, wherever its name is now. *)
OtherWrites ==
    /\ op = "versioned" /\ writes < MaxWrites
    /\ Present(Old) /\ Old \notin held
    /\ writes' = writes + 1
    /\ UNCHANGED <<platform, op, pc, directory, content, held, final, filled, placed, dropped,
                   cut, refused>>

OtherFills ==
    /\ op = "rmdir" /\ Present(Old) /\ ~filled
    /\ filled' = TRUE
    /\ UNCHANGED <<platform, op, pc, directory, content, held, final, writes, placed, dropped,
                   cut, refused>>

(* The process ends; with the power, the directory and the content of the  *)
(* record are what was on disk.                                            *)
Crash ==
    /\ pc \notin {"ok", "rest"}
    /\ pc' = "rest" /\ cut' = "ended"
    /\ held' = {} /\ final' = None
    /\ UNCHANGED <<platform, op, directory, content, others, refused>>

PowerLoss ==
    /\ pc' = "rest" /\ cut' = "ended"
    /\ held' = {} /\ final' = None
    /\ entries' \in disks /\ disks' = {entries'}
    /\ content' \in IF content = "written" THEN {"torn", "durable"} ELSE {content}
    (* Lost through the unsynced changes of others. *)
    /\ dropped' = dropped \cup {i \in placed \cup (IF placed = {} THEN {} ELSE {Old}) :
                                  \A n \in Names : entries'[n] # i}
    /\ UNCHANGED <<platform, op, writes, filled, placed, refused>>

Fail == Goto("failed") /\ held' = {} /\ final' = None

Recovering == pc \in {"recover", "finalize", "finalizeSynced", "leftoverRemoved",
                      "recoverRecord", "recoverSync"}

(* A recovery runs inside the call that failed, which then still drops its *)
(* temporary file, or in a later call or process.                          *)
AfterRecovery == IF cut = "ended" THEN "rest" ELSE "cleanup"

(* An error, in any step that can meet one: every handle is closed. *)
IoError ==
    /\ pc \notin {"begin", "failed", "cleanup", "cleanupSync", "rollback", "ok", "rest"}
    /\ pc' = IF Recovering THEN AfterRecovery ELSE "failed"
    /\ cut' = IF cut = "no" THEN "error" ELSE cut
    /\ held' = {} /\ final' = None
    /\ UNCHANGED <<platform, op, directory, content, others, refused>>

-----------------------------------------------------------------------------
(* replace_from_temporary_inner on Windows. *)

WindowsVerify ==
    /\ platform = "windows" /\ Replacing /\ pc = "begin"
    /\ IF Bound("temp", New) /\ Bound("dest", Old)
       THEN Goto("verified") /\ held' = {Old} /\ UNCHANGED final
       ELSE Fail
    /\ UNCHANGED directory

(* create_windows_replace_record: the file is made under its name, then    *)
(* written, then synced.                                                   *)
CreateRecord ==
    /\ pc = "verified" /\ Create("record", Rec)
    /\ pc' = "recordCreated" /\ content' = "torn"
    /\ UNCHANGED <<platform, op, held, final, others, cut, refused>>

WriteRecord ==
    /\ pc = "recordCreated"
    /\ pc' = "recordWritten" /\ content' = "written"
    /\ UNCHANGED <<platform, op, directory, held, final, others, cut, refused>>

(* The fault: the content of the record is left to the system to write. *)
RecordFileUnsynced ==
    /\ pc = "recordWritten" /\ UNCHANGED directory /\ Plain("recorded")

RecordFileSynced ==
    /\ pc = "recordWritten"
    /\ pc' = "recorded" /\ content' = "durable"
    /\ UNCHANGED <<platform, op, directory, held, final, others, cut, refused>>

(* A record that could not be made durable is dropped again. *)
RecordFails ==
    /\ pc \in {"recordCreated", "recordWritten", "recorded"} /\ Remove("record") /\ Fail

RecordSynced == pc = "recorded" /\ sync_all /\ Plain("recordSynced")

DetachDestination ==
    /\ pc = "recordSynced" /\ Rename("dest", "tomb") /\ Plain("detached")

DetachSynced == pc = "detached" /\ sync_all /\ Plain("detachSynced")

(* Publish without replacing; if that fails, put the old file back, also   *)
(* without replacing.                                                      *)
PublishReplacement ==
    /\ pc = "detachSynced"
    /\ IF entries["dest"] = None
       THEN Rename("temp", "dest") /\ Plain("published")
       ELSE UNCHANGED directory /\ Fail

PublishFails ==
    /\ pc = "detachSynced" /\ entries["dest"] = None
    /\ Rename("tomb", "dest") /\ Fail

open_windows_finalization_guard ==
    /\ pc = "published"
    /\ IF Bound("dest", New)
       THEN Goto("guarded") /\ held' = {Old, New} /\ UNCHANGED final
       ELSE Fail
    /\ UNCHANGED directory

PublishSynced == pc = "guarded" /\ sync_all /\ Plain("publishSynced")

RemoveTombstone == pc = "publishSynced" /\ Remove("tomb") /\ Plain("tombRemoved")

TombSynced == pc = "tombRemoved" /\ sync_all /\ Plain("tombSynced")

RemoveRecord == pc = "tombSynced" /\ Remove("record") /\ Plain("recordRemoved")

(* The last sync, at once or when the batch is flushed. *)
LastSync ==
    /\ pc \in {"recordRemoved", "oldRemoved"}
    /\ sync_all
    /\ Goto("ok") /\ held' = {} /\ UNCHANGED final

-----------------------------------------------------------------------------
(* recover_windows_replace_record: at the next replacement, on opening the *)
(* missing name, and after a replacement that failed.                      *)

Recover ==
    /\ platform = "windows" /\ pc = "rest" /\ entries["record"] = Rec
    /\ pc' = "recover" /\ cut' = "ended"
    /\ UNCHANGED <<platform, op, directory, content, held, final, others, refused>>

Refuse(why) ==
    /\ pc' = AfterRecovery /\ refused' = why
    /\ held' = {} /\ final' = None
    /\ UNCHANGED <<platform, op, directory, content, others, cut>>

(* A record that does not parse is an error, each time again. *)
RefuseTornRecord == pc = "recover" /\ content = "torn" /\ Refuse("torn")

Finalize(i) == Goto("finalize") /\ held' = {i} /\ final' = i

(* The fault: whatever is at the name is taken for the finished file. *)
RecoverAnyFile ==
    /\ pc = "recover" /\ content # "torn"
    /\ IF entries["dest"] # None
       THEN Finalize(entries["dest"]) /\ UNCHANGED directory
       ELSE Rename("tomb", "dest") /\ Finalize(Old)

recover_windows_replace_record_at ==
    /\ pc = "recover" /\ content # "torn"
    /\ CASE entries["dest"] = Old /\ entries["tomb"] # None -> Refuse("corrupt")
         [] entries["dest"] = Old /\ entries["tomb"] = None ->
              Finalize(Old) /\ UNCHANGED directory
         [] entries["dest"] = New -> Finalize(New) /\ UNCHANGED directory
         [] entries["dest"] \in Foreign -> Refuse("changed")
         [] entries["dest"] = None /\ entries["tomb"] # Old -> Refuse("corrupt")
         [] entries["dest"] = None /\ entries["tomb"] = Old ->
              Rename("tomb", "dest") /\ Finalize(Old)

(* The fault: what the directory shows is taken for what is on disk. *)
FinalizeUnsynced ==
    /\ pc = "finalize" /\ UNCHANGED directory /\ Plain("finalizeSynced")

FinalizeSynced == pc = "finalize" /\ sync_all /\ Plain("finalizeSynced")

Leftover == IF final = Old THEN "temp" ELSE "tomb"

RemoveLeftover ==
    /\ pc = "finalizeSynced"
    /\ IF entries[Leftover] # None
       THEN Remove(Leftover) /\ Plain("leftoverRemoved")
       ELSE UNCHANGED directory /\ Plain("recoverRecord")

LeftoverSynced == pc = "leftoverRemoved" /\ sync_all /\ Plain("recoverRecord")

RecoveredRecord == pc = "recoverRecord" /\ Remove("record") /\ Plain("recoverSync")

RecoverySynced ==
    /\ pc = "recoverSync" /\ sync_all
    /\ Goto(AfterRecovery) /\ held' = {} /\ final' = None

(* A failed replacement first recovers and then drops its temporary file,  *)
(* if that name is still its own; neither result is looked at.             *)
AfterFailure ==
    /\ pc = "failed"
    /\ \/ platform = "windows" /\ entries["record"] = Rec /\ Plain("recover")
       \/ Plain("cleanup")
    /\ UNCHANGED directory

CleanupTemporary ==
    /\ pc = "cleanup"
    /\ \/ Bound("temp", New) /\ Remove("temp")
       \/ UNCHANGED directory
    /\ Plain("cleanupSync")

CleanupSynced ==
    /\ pc = "cleanupSync"
    /\ sync_all \/ UNCHANGED directory
    /\ Plain("rest")

-----------------------------------------------------------------------------
(* write_bytes_atomic where the name is missing: a rename that does not    *)
(* replace.                                                                *)

rename_no_replace_to ==
    /\ op = "create" /\ pc = "begin"
    /\ IF Bound("temp", New) /\ entries["dest"] = None
       THEN Rename("temp", "dest") /\ Plain("created")
       ELSE UNCHANGED directory /\ Fail

CreatedSynced ==
    /\ pc = "created"
    /\ IF Bound("dest", New) THEN sync_all /\ Plain("ok") ELSE UNCHANGED directory /\ Fail

-----------------------------------------------------------------------------
(* replace_from_temporary_inner on Unix: an atomic exchange. *)

UnixVerify ==
    /\ platform = "unix" /\ Replacing /\ pc = "begin"
    /\ IF Bound("temp", New) /\ Bound("dest", Old) THEN Plain("exchanging") ELSE Fail
    /\ UNCHANGED directory

(* The fault: a plain rename over the name. *)
RenameOver ==
    /\ platform = "unix" /\ Replacing /\ pc = "exchanging"
    /\ Rename("temp", "dest")
    /\ Plain("exchanged")

anchored_exchange_files ==
    /\ platform = "unix" /\ Replacing /\ pc = "exchanging"
    /\ IF entries["dest"] = None
       THEN UNCHANGED directory /\ Fail
       ELSE /\ Mutate(LAMBDA e : [e EXCEPT !["dest"] = entries["temp"],
                                           !["temp"] = entries["dest"]])
            /\ Plain("exchanged")

(* What came out must be the old file; else it stays where it is. *)
ExchangeVerified ==
    /\ pc = "exchanged"
    /\ IF Bound("dest", New) /\ Bound("temp", Old)
       THEN /\ IF op = "replace" THEN sync_all ELSE UNCHANGED directory
            /\ Plain("exchangeSynced")
       ELSE UNCHANGED directory /\ Fail

RemoveOld ==
    /\ pc = "exchangeSynced"
    /\ IF Bound("temp", Old) THEN Remove("temp") /\ Plain("oldRemoved")
       ELSE UNCHANGED directory /\ Fail

-----------------------------------------------------------------------------
(* unlink_file_if_bound, unlink_file_if_bound_versioned and unlink_dir:    *)
(* on Unix the entry is renamed to a private name, looked at there, and    *)
(* only then removed.                                                      *)

Unlinking == op \in {"unlink", "versioned", "rmdir"}

UnlinkVerify ==
    /\ Unlinking /\ pc = "begin"
    /\ IF Bound("dest", Old) /\ (op = "versioned" => writes = 0)
       THEN Plain("unlinking") ELSE Fail
    /\ UNCHANGED directory

(* detach_file_to_unique_tombstone *)
Detach ==
    /\ platform = "unix" /\ Unlinking /\ pc = "unlinking"
    /\ IF entries["dest"] = None THEN UNCHANGED directory /\ Fail
       ELSE Rename("dest", "tomb") /\ Plain("unlinked")

(* Another file than the one expected is kept under the private name. *)
DetachedCheck ==
    /\ platform = "unix" /\ Unlinking /\ pc = "unlinked"
    /\ CASE ~Bound("tomb", Old) -> sync_all /\ Fail
         [] Bound("tomb", Old) /\ op = "versioned" /\ writes # 0 ->
              UNCHANGED directory /\ Plain("rollback")
         [] OTHER -> UNCHANGED directory /\ Plain("checked")

RemoveDetached ==
    /\ platform = "unix" /\ Unlinking /\ pc = "checked"
    /\ IF (op = "versioned" /\ writes # 0) \/ (op = "rmdir" /\ filled)
       THEN UNCHANGED directory /\ Plain("rollback")
       ELSE Remove("tomb") /\ Plain("ok")

(* rollback_versioned_tombstone, and the end of unlink_dir_if_bound_inner: *)
(* back to the name unless something else is there now.                    *)
Rollback ==
    /\ pc = "rollback"
    /\ IF entries["dest"] = None THEN Rename("tomb", "dest") ELSE UNCHANGED directory
    /\ Plain("rolledBack")

RolledBackSynced == pc = "rolledBack" /\ sync_all /\ Fail

(* On Windows the entry is opened so that no other program can touch it,   *)
(* checked, and removed through the handle.                                *)
OpenForRemoval ==
    /\ platform = "windows" /\ Unlinking /\ pc = "unlinking"
    /\ IF Bound("dest", Old) /\ (op = "versioned" => writes = 0)
       THEN Goto("checked") /\ held' = {Old} /\ UNCHANGED final
       ELSE Fail
    /\ UNCHANGED directory

remove_open_handle ==
    /\ platform = "windows" /\ Unlinking /\ pc = "checked"
    /\ IF op = "rmdir" /\ filled
       THEN UNCHANGED directory /\ Fail
       ELSE Remove("dest") /\ Goto("ok") /\ held' = {} /\ UNCHANGED final

-----------------------------------------------------------------------------
Other == OtherReplaces \/ OtherWrites \/ OtherFills

Next ==
    \/ Other \/ Crash \/ PowerLoss \/ IoError
    \/ WindowsVerify \/ CreateRecord \/ WriteRecord \/ RecordFileSynced \/ RecordSynced
    \/ RecordFails
    \/ DetachDestination \/ DetachSynced \/ PublishReplacement \/ PublishFails
    \/ open_windows_finalization_guard \/ PublishSynced
    \/ RemoveTombstone \/ TombSynced \/ RemoveRecord \/ LastSync
    \/ Recover \/ RefuseTornRecord \/ recover_windows_replace_record_at \/ FinalizeSynced
    \/ RemoveLeftover \/ LeftoverSynced \/ RecoveredRecord \/ RecoverySynced
    \/ AfterFailure \/ CleanupTemporary \/ CleanupSynced
    \/ rename_no_replace_to \/ CreatedSynced
    \/ UnixVerify \/ anchored_exchange_files \/ ExchangeVerified \/ RemoveOld
    \/ UnlinkVerify \/ Detach \/ DetachedCheck \/ RemoveDetached
    \/ Rollback \/ RolledBackSynced
    \/ OpenForRemoval \/ remove_open_handle

Spec == Init /\ [][Next]_vars

-----------------------------------------------------------------------------
(* Properties. *)

Undisturbed == placed = {} /\ dropped = {}

(* Whatever a power loss leaves behind while a file is being replaced, by  *)
(* the replacement or by any number of interrupted recoveries, the name    *)
(* has the old or the new file, or the old one is under the private name   *)
(* a record gives whose content is on disk.  A replacement that reports    *)
(* success is on disk, without leftovers.                                  *)
ReplacementIsAtomic ==
    /\ Replacing /\ Undisturbed =>
           \A e \in disks : \/ e["dest"] \in {Old, New}
                            \/ e["tomb"] = Old /\ e["record"] = Rec /\ content = "durable"
    /\ (Replacing \/ op = "create") /\ pc = "ok" /\ Undisturbed =>
           \A e \in disks : e = [n \in Names |-> IF n = "dest" THEN New ELSE None]

(* No crash, failed step or power loss leaves a directory that a recovery  *)
(* takes for corrupt.  It may find a record that was written in part, but  *)
(* nothing depends on such a one: the old file was not touched.            *)
RecoveryUnderstands ==
    Undisturbed =>
        /\ refused \in {"no", "torn"}
        /\ \A e \in disks : e["record"] = Rec /\ content # "durable" =>
               e["dest"] = Old /\ e["tomb"] = None

(* What another program put at the name, or wrote into a file that is to   *)
(* be removed, is never removed: it stays at the name or under a private   *)
(* one.  A directory that could not be removed is back at its name, unless *)
(* that was taken or the process was cut off.                              *)
OthersSurvive ==
    /\ \A x \in placed \ dropped : Present(x)
    /\ op = "versioned" /\ writes > 0 /\ Old \notin dropped /\ pc = "ok" => Present(Old)
    /\ op = "rmdir" /\ filled /\ Old \notin dropped => Present(Old)
    /\ op = "rmdir" /\ filled /\ cut = "no" /\ pc = "rest" /\ Undisturbed
           => entries["dest"] = Old

(* A directory that has entries is never left under a private name: "a     *)
(* failed removal must not leave the live shard hidden under a tombstone   *)
(* name" (unlink_dir_if_bound_inner).                                      *)
LiveDirectoryStaysVisible ==
    op = "rmdir" /\ filled /\ pc = "rest" /\ Undisturbed => entries["dest"] = Old
=============================================================================
