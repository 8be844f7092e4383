--------------------------- MODULE OperationPlan ---------------------------
(***************************************************************************)
(* Previewing and applying a restore or a discard on a tree in which files *)
(* and folders change places (transaction/plan.rs, apply.rs,               *)
(* project_file_ops.rs, recovery/rollback.rs).                             *)
(*                                                                         *)
(* A preview freezes the operations, the folders to remove and the folders *)
(* to create.  Applying it validates the frozen scope, checks that the     *)
(* tree still is what the preview saw, and changes the tree one entry at a *)
(* time; Unity and the user save files all the while.  A failed check or a *)
(* killed process leaves the transaction pending, and recovery rolls it    *)
(* back.  RestoreTransaction has the durability of the same steps; here a  *)
(* step is atomic and the folders are what matters.                        *)
(***************************************************************************)
EXTENDS Naturals, FiniteSets, SequencesExt

CONSTANTS
    PathOrder,     \* the tracked paths below Assets/, sorted; a path is the
                   \* sequence of its names
    MetaOf,        \* the .meta path of an asset path, for some of the paths
    WorkingFiles,  \* file states in the tree at the preview
    SnapshotFiles, \* file states in the checkpoint
    UserFiles,     \* file states saved after the preview
    Dir,           \* a folder
    None,          \* nothing
    MaxEdits       \* bound on the edits after the preview

Paths == Range(PathOrder)
Files == WorkingFiles \cup SnapshotFiles \cup UserFiles

ASSUME PlanAssumption ==
    /\ PathOrder \in Seq(Seq(UNION {Range(p) : p \in Paths}))
    /\ \A i, j \in DOMAIN PathOrder : IsStrictPrefix(PathOrder[i], PathOrder[j]) => i < j
    /\ MetaOf \in [DOMAIN MetaOf -> Paths] /\ DOMAIN MetaOf \subseteq Paths
    /\ \A f \in Files : DOMAIN f = {"data", "time"}
    /\ None \notin Files /\ Dir \notin Files \cup {None}
    /\ MaxEdits \in Nat

VARIABLES
    snapshot,  \* the files of the checkpoint
    tree,      \* the working tree: a file, Dir or None at each path
    plan,      \* the previewed OperationPlan, or None
    pc,        \* the step of the transaction
    todo,      \* the paths the step still has to handle
    backup,    \* the files in the transaction's backup folder
    preserved, \* contents kept in its recovery-after folder
    failed,    \* whether a check stopped the apply or a rollback
    origin,    \* the tree the preview saw
    mine,      \* the file the user last left at each path
    touched,   \* the paths the user has edited since the preview
    edits

tx   == <<plan, pc, todo, backup, preserved, failed>>
user == <<origin, mine, touched, edits>>
vars == <<snapshot, tree, tx, user>>

-----------------------------------------------------------------------------
(* Trees. *)

Below(p)  == {q \in Paths : IsStrictPrefix(p, q)}
Above(p)  == {q \in Paths : IsStrictPrefix(q, p)}
FileAt(t, p) == IF t[p] \in Files THEN t[p] ELSE None
FilesBelow(p) == {q \in Below(p) : tree[q] \in Files}

(* Every entry lies in a folder. *)
WellFormed(t) == \A p \in Paths : t[p] # None => \A q \in Above(p) : t[q] = Dir

(* The file that stands where a folder above p would be.                   *)
BlockedBy(p) == {q \in Above(p) : tree[q] \in Files}

InFolder(p) == \A q \in Above(p) : tree[q] = Dir

InPathOrder(p, q) ==
    \E i, j \in DOMAIN PathOrder : i < j /\ PathOrder[i] = p /\ PathOrder[j] = q

DeepestFirst(p, q) == Len(p) > Len(q) \/ (Len(p) = Len(q) /\ InPathOrder(p, q))

(* Asset and .meta of each other. *)
Companion(p) == {MetaOf[q] : q \in DOMAIN MetaOf \cap {p}}
                \cup {q \in DOMAIN MetaOf : MetaOf[q] = p}

(* p is the .meta of what is now a folder. *)
FolderMeta(p) == \E q \in DOMAIN MetaOf : MetaOf[q] = p /\ tree[q] = Dir

(* S, grown until nothing is added: the least set that grow keeps. *)
Closure(S, grow(_)) ==
    {p \in Paths : \A T \in SUBSET Paths : S \subseteq T /\ grow(T) \subseteq T => p \in T}

-----------------------------------------------------------------------------
(* The preview. *)

TopologyPaths(p) ==
    IF tree[p] = Dir THEN FilesBelow(p) ELSE BlockedBy(p)

GrowSelectionSnapshotOnly(S) ==
    LET paired == S \cup {c \in Paths : /\ \E p \in S : c \in Companion(p)
                                        /\ snapshot[c] # None}
    IN  paired \cup UNION {TopologyPaths(p) : p \in {q \in paired : snapshot[q] # None}}

GrowSelection(S) ==
    LET paired == S \cup {c \in Paths : /\ \E p \in S : c \in Companion(p)
                                        /\ snapshot[c] # None \/ tree[c] \in Files}
    IN  paired \cup UNION {TopologyPaths(p) : p \in {q \in paired : snapshot[q] # None}}

normalize_discard_selection(requested) == Closure(requested, GrowSelection)

(* A selected path that is neither in the checkpoint nor a file, and that  *)
(* nothing else in the selection explains.                                 *)
Undiscardable(p, selected) ==
    /\ snapshot[p] = None
    /\ \/ tree[p] = Dir /\ Below(p) \cap selected = {}
       \/ BlockedBy(p) # {} /\ BlockedBy(p) \cap selected = {}

OperationsByHash(scope) ==
    [p \in {q \in scope : IF FileAt(tree, q) = None \/ snapshot[q] = None
                          THEN FileAt(tree, q) # snapshot[q]
                          ELSE tree[q].data # snapshot[q].data} |->
        [before |-> FileAt(tree, p), after |-> snapshot[p]]]

(* Restore, Replace, SetMetadata and Delete differ by what is before and   *)
(* after.                                                                  *)
Operations(scope) ==
    [p \in {q \in scope : FileAt(tree, q) # snapshot[q]} |->
        [before |-> FileAt(tree, p), after |-> snapshot[p]]]

OpType(op) ==
    CASE op.before = None -> "Restore"
      [] op.after = None -> "Delete"
      [] op.before # None /\ op.after # None /\ op.before.data # op.after.data -> "Replace"
      [] OTHER -> "SetMetadata"

OfType(ops, types) == {p \in DOMAIN ops : OpType(ops[p]) \in types}
BeforePaths(ops) == OfType(ops, {"Replace", "SetMetadata", "Delete"})
AfterPaths(ops)  == OfType(ops, {"Restore", "Replace", "SetMetadata"})

(* Folders that stand where a file goes, with the folders in them.         *)
DirectoriesToRemove(ops) ==
    {q \in Paths : /\ tree[q] = Dir
                   /\ \E p \in AfterPaths(ops) : q = p \/ q \in Below(p)}

DirectoriesToCreate(ops) ==
    {q \in Paths : tree[q] # Dir /\ \E p \in AfterPaths(ops) : q \in Above(p)}

(* A folder to remove holds a file no operation deletes, or a folder is    *)
(* needed where a file stays.                                              *)
TopologyUnplannable(ops) ==
    \E p \in AfterPaths(ops) :
        \/ tree[p] = Dir /\ ~(FilesBelow(p) \subseteq OfType(ops, {"Delete"}))
        \/ ~(BlockedBy(p) \subseteq BeforePaths(ops))

build_plan(kind, requested) ==
    LET selected == IF kind = "Discard" THEN normalize_discard_selection(requested)
                                        ELSE Paths
        ops == Operations(selected)
    IN  [kind |-> kind, requested |-> requested, selected |-> selected, ops |-> ops,
         remove |-> DirectoriesToRemove(ops), create |-> DirectoriesToCreate(ops)]

Preview(kind, requested) ==
    LET new == build_plan(kind, requested) IN
    /\ pc = "idle"
    /\ kind = "Discard" =>
           /\ \A p \in requested : ~FolderMeta(p)
           /\ \A p \in new.selected : ~Undiscardable(p, new.selected)
    /\ ~TopologyUnplannable(new.ops)
    /\ plan' = new
    /\ pc' = "previewed"
    /\ UNCHANGED <<snapshot, tree, todo, backup, preserved, failed, user>>

-----------------------------------------------------------------------------
(* Validation of the frozen plan. *)

(* What the request accounts for in the selection: what lies in it, the    *)
(* companions, and the files that give way to folders.                     *)
GrowAuthorized(S) ==
    LET paired == S \cup {c \in plan.selected : \E p \in S : c \in Companion(p)}
    IN  paired \cup {c \in OfType(plan.ops, {"Delete"}) \cap plan.create :
                        Below(c) \cap paired \cap OfType(plan.ops, {"Restore", "Replace"}) # {}}

Authorized ==
    Closure(plan.requested
            \cup {c \in plan.selected : Above(c) \cap plan.requested # {}}, GrowAuthorized)

ScopeAccepted ==
    plan.kind = "Discard" =>
        /\ \A p \in plan.requested : ~FolderMeta(p)
        /\ Authorized = plan.selected

(* Every operation leads to what the checkpoint has.                       *)
validate_journal_operations ==
    \A p \in DOMAIN plan.ops :
        LET op == plan.ops[p] IN
        /\ op.after = snapshot[p]
        /\ op.before # op.after
        /\ OpType(op) = "SetMetadata" => op.before.data = snapshot[p].data

(* Every folder change belongs to an operation. *)
validate_journal_directory_topology ==
    /\ \A q \in plan.remove : \E p \in AfterPaths(plan.ops) : q = p \/ q \in Below(p)
    /\ \A q \in plan.create : Below(q) \cap AfterPaths(plan.ops) # {}

JournalAccepted == validate_journal_operations /\ validate_journal_directory_topology

validate_plan_shape ==
    /\ plan.kind = "Discard" => /\ plan.selected # {}
                                /\ DOMAIN plan.ops \subseteq plan.selected
    /\ JournalAccepted

(* Nothing the plan touches has changed since the preview.                 *)
recheck_preconditions ==
    LET ops == plan.ops
        explained(p) == BlockedBy(p) \subseteq BeforePaths(ops)
    IN  /\ \A p \in DOMAIN ops :
              /\ plan.kind = "Discard" => ~FolderMeta(p)
              /\ FileAt(tree, p) = ops[p].before
              /\ tree[p] = Dir => p \in plan.remove
              /\ explained(p)
        /\ \A q \in plan.remove : tree[q] = Dir
        /\ \A q \in plan.create : /\ tree[q] # Dir
                                  /\ tree[q] \in Files => q \in BeforePaths(ops)
                                  /\ explained(q)

-----------------------------------------------------------------------------
(* Applying the plan. *)

(* A discard does not touch the .meta of a folder. *)
Unguarded(p) == ~(plan.kind = "Discard" /\ FolderMeta(p))

Phase(step, items) == pc' = step /\ todo' = items

(* The transaction is left to a recovery, with the tree t. *)
FailWith(t, how) ==
    /\ tree' = t
    /\ pc' = "pending"
    /\ todo' = {}
    /\ failed' = failed \cup {how}
    /\ UNCHANGED <<snapshot, plan, backup, preserved, user>>

Fail(how) == FailWith(tree, how)

Reject ==
    /\ pc' = "rejected"
    /\ failed' = failed \cup {"apply"}
    /\ UNCHANGED <<snapshot, tree, plan, todo, backup, preserved, user>>

(* The request is checked under the shared lock, before the exclusive one. *)
validate_discard_request_scope ==
    /\ pc = "previewed"
    /\ IF ScopeAccepted
       THEN /\ pc' = "scoped"
            /\ UNCHANGED <<snapshot, tree, plan, todo, backup, preserved, failed, user>>
       ELSE Reject

validate_expected_plan ==
    /\ pc = "scoped"
    /\ IF validate_plan_shape /\ recheck_preconditions
       THEN /\ pc' = IF DOMAIN plan.ops = {} THEN "committed" ELSE "staging"
            /\ UNCHANGED <<snapshot, tree, plan, todo, backup, preserved, failed, user>>
       ELSE Reject

(* Staging copies objects into the transaction's folder, which takes a     *)
(* while; the tree is checked again before the journal says Applying.      *)
BeginApplying ==
    /\ pc = "staging"
    /\ IF recheck_preconditions
       THEN /\ Phase("backup", OfType(plan.ops, {"Replace", "Delete"}))
            /\ UNCHANGED <<snapshot, tree, plan, backup, preserved, failed, user>>
       ELSE Reject

(* Folders are removed deepest first, all else is done in path order.      *)
Earlier(p, q) == IF pc \in {"removeDirectories", "removeCreated"} THEN DeepestFirst(p, q)
                                                               ELSE InPathOrder(p, q)

(* The next item of a step; a step that fails leaves what it has done.     *)
Item(step, p) == pc = step /\ p \in todo /\ \A q \in todo \ {p} : Earlier(p, q)

Done(step, next, items) ==
    /\ pc = step
    /\ todo = {}
    /\ Phase(next, items)
    /\ UNCHANGED <<snapshot, tree, plan, backup, preserved, failed, user>>

(* The item is done and the tree is t. *)
Did(p, t) ==
    /\ tree' = t
    /\ todo' = todo \ {p}
    /\ UNCHANGED <<snapshot, plan, pc, preserved, failed, user>>

BackupFile(p) ==
    /\ Item("backup", p)
    /\ IF Unguarded(p) /\ tree[p] = plan.ops[p].before
       THEN backup' = [backup EXCEPT ![p] = tree[p]] /\ Did(p, tree)
       ELSE Fail("apply")

(* The removal is bound to the file that was backed up. *)
RemoveSourceBlindly(p) ==
    /\ Item("removeSources", p)
    /\ IF Unguarded(p) /\ tree[p] \in Files
       THEN Did(p, [tree EXCEPT ![p] = None]) /\ UNCHANGED backup
       ELSE Fail("apply")

RemoveSource(p) ==
    /\ Item("removeSources", p)
    /\ IF Unguarded(p) /\ tree[p] = backup[p]
       THEN Did(p, [tree EXCEPT ![p] = None]) /\ UNCHANGED backup
       ELSE Fail("apply")

CanRemoveAnyDirectory(q) == tree[q] = Dir

CanRemoveDirectory(q) == tree[q] = Dir /\ \A r \in Below(q) : tree[r] = None

remove_project_tree(q, step, how) ==
    /\ Item(step, q)
    /\ IF tree[q] = Dir
       THEN /\ Did(q, [r \in Paths |-> IF r = q \/ r \in Below(q) THEN None ELSE tree[r]])
            /\ UNCHANGED backup
       ELSE Fail(how)

remove_project_directory(q, step, how) ==
    /\ Item(step, q)
    /\ IF CanRemoveDirectory(q)
       THEN Did(q, [tree EXCEPT ![q] = None]) /\ UNCHANGED backup
       ELSE Fail(how)

RemoveDirectory(q) == remove_project_directory(q, "removeDirectories", "apply")

CreateDirectory(q) ==
    /\ Item("createDirectories", q)
    /\ IF tree[q] = None /\ InFolder(q)
       THEN Did(q, [tree EXCEPT ![q] = Dir]) /\ UNCHANGED backup
       ELSE Fail("apply")

(* Publishing makes the folders above that have gone in the meantime, and  *)
(* never replaces a file.                                                  *)
PublishFile(p) ==
    LET made == [q \in Paths |-> IF q \in Above(p) THEN Dir ELSE tree[q]]
    IN
    /\ Item("publish", p)
    /\ OpType(plan.ops[p]) # "SetMetadata"
    /\ IF BlockedBy(p) = {} /\ tree[p] = None /\ Unguarded(p)
       THEN Did(p, [made EXCEPT ![p] = plan.ops[p].after]) /\ UNCHANGED backup
       ELSE FailWith(IF BlockedBy(p) = {} THEN made ELSE tree, "apply")

SetMtime(p) ==
    /\ Item("publish", p)
    /\ OpType(plan.ops[p]) = "SetMetadata"
    /\ IF tree[p] = plan.ops[p].before
       THEN Did(p, [tree EXCEPT ![p] = plan.ops[p].after]) /\ UNCHANGED backup
       ELSE Fail("apply")

EndOfStep ==
    \/ Done("backup", "removeSources", OfType(plan.ops, {"Replace", "Delete"}))
    \/ Done("removeSources", "removeDirectories", plan.remove)
    \/ Done("removeDirectories", "createDirectories", plan.create)
    \/ Done("createDirectories", "publish", AfterPaths(plan.ops))
    \/ Done("publish", "committed", {})

CancelStaging ==
    /\ pc = "staging"
    /\ pc' = "rejected"
    /\ UNCHANGED <<snapshot, tree, plan, todo, backup, preserved, failed, user>>

Apply == \/ validate_discard_request_scope \/ validate_expected_plan \/ BeginApplying
         \/ CancelStaging \/ EndOfStep
         \/ \E p \in Paths : \/ BackupFile(p) \/ RemoveSource(p) \/ RemoveDirectory(p)
                            \/ CreateDirectory(p) \/ PublishFile(p) \/ SetMtime(p)

-----------------------------------------------------------------------------
(* Recovery. *)

ApplySteps == {"backup", "removeSources", "removeDirectories", "createDirectories",
               "publish"}
RollbackSteps == {"removeAfter", "removeCreated", "recreateRemoved", "restoreBefore",
                  "restoreMtimes"}

(* The process is killed. *)
Kill ==
    /\ pc \in ApplySteps \cup RollbackSteps \cup {"staging"}
    /\ pc' = IF pc = "staging" THEN "pendingStaged" ELSE "pending"
    /\ todo' = {}
    /\ UNCHANGED <<snapshot, tree, plan, backup, preserved, failed, user>>

(* Nothing was applied: transaction_needs_rollback is false. *)
RecoverStaged ==
    /\ pc = "pendingStaged"
    /\ JournalAccepted
    /\ pc' = "recovered"
    /\ UNCHANGED <<snapshot, tree, plan, todo, backup, preserved, failed, user>>

RecoverOne ==
    /\ pc = "pending"
    /\ JournalAccepted
    /\ Phase("removeAfter", OfType(plan.ops, {"Restore", "Replace"}))
    /\ UNCHANGED <<snapshot, tree, plan, backup, preserved, failed, user>>

Holds(p, f) == tree[p] \in Files /\ f # None /\ tree[p].data = f.data

(* Another file stands above p, none that the transaction moved away.      *)
Obstructed(p) == ~(BlockedBy(p) \subseteq BeforePaths(plan.ops))

(* A published file is set aside; a file the apply did not reach stays.    *)
RemoveAfter(p) ==
    LET op == plan.ops[p]
    IN
    /\ Item("removeAfter", p)
    /\ IF Unguarded(p) /\ ~Obstructed(p) /\ Holds(p, op.after)
       THEN /\ tree' = [tree EXCEPT ![p] = None]
            /\ preserved' = preserved \cup {tree[p].data}
            /\ todo' = todo \ {p}
            /\ UNCHANGED <<snapshot, plan, pc, backup, failed, user>>
       ELSE IF Unguarded(p) /\ ~Obstructed(p) /\ (tree[p] \notin Files \/ Holds(p, op.before))
       THEN Did(p, tree) /\ UNCHANGED backup
       ELSE Fail("rollback")

RemoveCreated(q) ==
    /\ Item("removeCreated", q)
    /\ \/ tree[q] = Dir /\ remove_project_directory(q, "removeCreated", "rollback")
       \/ tree[q] # Dir /\ IF tree[q] \in Files => q \in BeforePaths(plan.ops)
                           THEN Did(q, tree) /\ UNCHANGED backup
                           ELSE Fail("rollback")

RecreateIfNeeded(q) ==
    /\ Item("recreateRemoved", q)
    /\ IF tree[q] \in Files
       THEN Fail("rollback")
       ELSE /\ Did(q, [tree EXCEPT ![q] =
                             IF InFolder(q) /\ Below(q) \cap DOMAIN plan.ops # {}
                             THEN Dir ELSE tree[q]])
            /\ UNCHANGED backup

RecreateRemoved(q) ==
    /\ Item("recreateRemoved", q)
    /\ IF tree[q] \notin Files /\ InFolder(q)
       THEN Did(q, [tree EXCEPT ![q] = Dir]) /\ UNCHANGED backup
       ELSE Fail("rollback")

RestoreBefore(p) ==
    LET before == plan.ops[p].before
    IN
    /\ Item("restoreBefore", p)
    /\ IF /\ Unguarded(p) /\ ~Obstructed(p)
          /\ \/ Holds(p, before)
             \/ tree[p] = None /\ InFolder(p) /\ backup[p] = before
       THEN Did(p, [tree EXCEPT ![p] = before]) /\ UNCHANGED backup
       ELSE Fail("rollback")

RestoreMtime(p) ==
    LET op == plan.ops[p]
    IN
    /\ Item("restoreMtimes", p)
    /\ IF tree[p] \in {op.before, op.after}
       THEN Did(p, [tree EXCEPT ![p] = op.before]) /\ UNCHANGED backup
       ELSE Fail("rollback")

EnsureBeforeStateRestored ==
    /\ pc = "restoreMtimes"
    /\ todo = {}
    /\ IF \A p \in DOMAIN plan.ops : /\ ~Obstructed(p)
                                     /\ FileAt(tree, p) = plan.ops[p].before
                                     /\ Unguarded(p)
       THEN /\ pc' = "recovered"
            /\ UNCHANGED <<snapshot, tree, plan, todo, backup, preserved, failed, user>>
       ELSE Fail("rollback")

EndOfRollbackStep ==
    \/ Done("removeAfter", "removeCreated", plan.create)
    \/ Done("removeCreated", "recreateRemoved", plan.remove)
    \/ Done("recreateRemoved", "restoreBefore",
            OfType(plan.ops, {"Replace", "Delete"}))
    \/ Done("restoreBefore", "restoreMtimes", OfType(plan.ops, {"SetMetadata"}))

Recover == \/ RecoverStaged \/ RecoverOne \/ EnsureBeforeStateRestored \/ EndOfRollbackStep
           \/ \E p \in Paths : \/ RemoveAfter(p) \/ RemoveCreated(p) \/ RecreateRemoved(p)
                              \/ RestoreBefore(p) \/ RestoreMtime(p)

-----------------------------------------------------------------------------
(* Unity and the user. *)

Edited(S, t) ==
    /\ pc \notin {"idle", "committed", "recovered", "rejected"}
    /\ edits < MaxEdits
    /\ edits' = edits + 1
    /\ tree' = t
    /\ touched' = touched \cup S
    /\ mine' = [p \in Paths |-> IF p \in S THEN FileAt(t, p) ELSE mine[p]]
    /\ UNCHANGED <<snapshot, tx, origin>>

SaveFile(p, f) ==
    /\ InFolder(p) /\ tree[p] # Dir
    /\ Edited({p}, [tree EXCEPT ![p] = f])

MakeFolder(p) ==
    /\ InFolder(p) /\ tree[p] = None
    /\ Edited({p}, [tree EXCEPT ![p] = Dir])

(* A file, or a folder with all that is in it. *)
Delete(p) ==
    LET gone == {p} \cup Below(p) IN
    /\ tree[p] # None
    /\ Edited(gone, [q \in Paths |-> IF q \in gone THEN None ELSE tree[q]])

User == \E p \in Paths : (\E f \in UserFiles : SaveFile(p, f)) \/ MakeFolder(p) \/ Delete(p)

-----------------------------------------------------------------------------
Init ==
    /\ snapshot \in {s \in [Paths -> SnapshotFiles \cup {None}] :
                        \A p \in Paths : s[p] # None => \A q \in Above(p) : s[q] = None}
    /\ tree \in {t \in [Paths -> WorkingFiles \cup {Dir, None}] : WellFormed(t)}
    /\ plan = None /\ pc = "idle" /\ todo = {}
    /\ backup = [p \in Paths |-> None]
    /\ preserved = {} /\ failed = {}
    /\ origin = tree
    /\ mine = [p \in Paths |-> FileAt(tree, p)]
    /\ touched = {} /\ edits = 0

Next ==
    \/ Preview("Restore", {})
    \/ \E requested \in SUBSET Paths \ {{}} : Preview("Discard", requested)
    \/ Apply \/ Kill \/ Recover \/ User

Spec == Init /\ [][Next]_vars

-----------------------------------------------------------------------------
(* Properties. *)

PlanType ==
    [kind : {"Restore", "Discard"}, requested : SUBSET Paths, selected : SUBSET Paths,
     ops : UNION {[S -> [before : Files \cup {None}, after : SnapshotFiles \cup {None}]] :
                    S \in SUBSET Paths},
     remove : SUBSET Paths, create : SUBSET Paths]

(* The tree stays one that a file system can hold. *)
TypeOK ==
    /\ WellFormed(tree)
    /\ plan = None \/ plan \in PlanType
    /\ pc \in ApplySteps \cup RollbackSteps
              \cup {"idle", "previewed", "scoped", "staging", "committed", "rejected",
                    "pending", "pendingStaged", "recovered"}
    /\ \A p \in Paths : backup[p] \in Files \cup {None}
    /\ failed \subseteq {"apply", "rollback"}

(* What the user last left at a path is in the tree, in the backup or in   *)
(* the copies recovery sets aside.                                         *)
NoFileLost ==
    \A p \in Paths : mine[p] # None =>
        \/ Holds(p, mine[p])
        \/ backup[p] # None /\ backup[p].data = mine[p].data
        \/ mine[p].data \in preserved

(* A path outside the previewed operations keeps the file the user left.   *)
OutsideScopeUntouched ==
    plan # None => \A p \in Paths \ DOMAIN plan.ops : FileAt(tree, p) = mine[p]

(* A committed restore leaves the files of the checkpoint and no other, a  *)
(* committed discard those of its selection, except where the user has     *)
(* edited since the preview.                                               *)
CommittedAsPreviewed ==
    pc = "committed" =>
        \A p \in Paths \ touched :
            FileAt(tree, p) = IF p \in plan.selected THEN snapshot[p]
                                                     ELSE FileAt(origin, p)

(* A committed discard of an asset or of its .meta leaves the two as they  *)
(* are in the checkpoint.                                                  *)
PairsStayTogether ==
    pc = "committed" /\ plan.kind = "Discard" =>
        \A p \in plan.requested, c \in Paths \ touched :
            c \in Companion(p) => FileAt(tree, c) = snapshot[c]

(* A rollback that the user does not disturb brings back every file and    *)
(* every folder.                                                           *)
RolledBackWhole ==
    pc = "recovered" /\ touched = {} => tree = origin

(* A restore that the user does not disturb meets no failing check, when   *)
(* it is applied or rolled back.                                           *)
UndisturbedRestoreGoesOn ==
    plan # None /\ failed # {} => plan.kind = "Discard" \/ touched # {}

(* A discard that the user does not disturb can be rolled back.            *)
UndisturbedDiscardRollsBack ==
    "rollback" \in failed => touched # {}
=============================================================================
