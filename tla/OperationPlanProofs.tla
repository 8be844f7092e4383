------------------------ MODULE OperationPlanProofs ------------------------
(***************************************************************************)
(* Proofs about OperationPlan, for any set of paths, any checkpoint, any   *)
(* working tree and any number of edits.                                   *)
(***************************************************************************)
EXTENDS OperationPlan, TLAPS

-----------------------------------------------------------------------------
(* The inductive invariants. *)

Entries == Files \cup {Dir, None}

Steps == ApplySteps \cup RollbackSteps
         \cup {"idle", "previewed", "scoped", "staging", "committed", "rejected",
               "pending", "pendingStaged", "recovered"}

(* The paths of the operations, by what is done with them. *)
Moved     == OfType(plan.ops, {"Replace", "Delete"})
Published == OfType(plan.ops, {"Restore", "Replace"})
Retimed   == OfType(plan.ops, {"SetMetadata"})

(* The types; a step works on the paths that the plan has for it. *)
Values ==
    /\ snapshot \in [Paths -> SnapshotFiles \cup {None}]
    /\ tree \in [Paths -> Entries]
    /\ pc \in Steps
    /\ todo \subseteq Paths
    /\ backup \in [Paths -> Files \cup {None}]
    /\ failed \subseteq {"apply", "rollback"}
    /\ origin \in [Paths -> Entries]
    /\ mine \in [Paths -> Files \cup {None}]
    /\ touched \subseteq Paths

TodoKnown ==
    /\ pc \in {"backup", "removeSources", "restoreBefore"} => todo \subseteq Moved
    /\ pc \in {"removeDirectories", "recreateRemoved"} => todo \subseteq plan.remove
    /\ pc \in {"createDirectories", "removeCreated"} => todo \subseteq plan.create
    /\ pc = "publish" => todo \subseteq Published \cup Retimed
    /\ pc = "removeAfter" => todo \subseteq Published
    /\ pc = "restoreMtimes" => todo \subseteq Retimed

(* A checkpoint has no file below a file. *)
SnapshotWhole == \A p \in Paths : snapshot[p] # None => \A q \in Above(p) : snapshot[q] = None

Idle ==
    pc = "idle" => /\ plan = None /\ tree = origin /\ touched = {} /\ failed = {}
                   /\ \A p \in Paths : mine[p] = FileAt(origin, p) /\ backup[p] = None

(* What the preview froze, said of the tree it saw. *)
OpsPlanned ==
    /\ plan.ops = [p \in {q \in plan.selected : FileAt(origin, q) # snapshot[q]} |->
                     [before |-> FileAt(origin, p), after |-> snapshot[p]]]
    /\ plan.kind = "Discard" =>
         \A p \in plan.requested : \A c \in Companion(p) :
             c \in plan.selected \/ (snapshot[c] = None /\ origin[c] \notin Files)

FoldersPlanned ==
    /\ plan.remove = {q \in Paths : /\ origin[q] = Dir
                                    /\ \E p \in Published \cup Retimed : q = p \/ q \in Below(p)}
    /\ plan.create = {q \in Paths : /\ origin[q] # Dir
                                    /\ \E p \in Published \cup Retimed : q \in Above(p)}
    /\ \A p \in Published \cup Retimed :
         /\ origin[p] = Dir => \A q \in Below(p) : origin[q] \in Files => q \in Moved \ Published
         /\ \A q \in Above(p) : origin[q] \in Files => q \in Moved \cup Retimed

Planned == pc # "idle" => plan \in PlanType /\ OpsPlanned /\ FoldersPlanned

TypeInv ==
    Values /\ TodoKnown /\ SnapshotWhole /\ Idle /\ Planned
    /\ WellFormed(tree) /\ WellFormed(origin)

(* A file is backed up once, when the journal already says Applying. *)
NotBackedUp ==
    \A p \in Paths :
        /\ pc \in {"previewed", "scoped", "staging"} => backup[p] = None
        /\ pc = "backup" /\ p \in todo => backup[p] = None

(* Up to the first removal, and outside the operations, the files are as   *)
(* the user left them.                                                     *)
Unapplied == {"previewed", "scoped", "staging", "backup", "pendingStaged"}

AsLeft ==
    /\ pc \in Unapplied => \A p \in Paths : FileAt(tree, p) = mine[p]
    /\ \A p \in Paths \ touched : mine[p] = FileAt(origin, p)

OthersKept ==
    pc # "idle" => \A p \in Paths \ DOMAIN plan.ops : FileAt(tree, p) = mine[p]

FilesInv == NoFileLost /\ OthersKept /\ NotBackedUp /\ AsLeft

(* How far the apply has got with a file that the user left alone. *)
Applied ==
    \A p \in Paths \ touched :
        /\ pc = "removeSources" /\ p \in (Moved \ Published) \ todo => tree[p] \notin Files
        /\ pc \in {"removeDirectories", "createDirectories", "publish"}
             /\ p \in Moved \ Published => tree[p] \notin Files
        /\ pc = "publish" /\ p \in (Published \cup Retimed) \ todo => tree[p] = snapshot[p]
        /\ pc = "committed" /\ p \in DOMAIN plan.ops => FileAt(tree, p) = snapshot[p]

(* When the user leaves the tree alone: a file is where it was or where    *)
(* the checkpoint has it, or has a backup, and a folder comes and goes by  *)
(* plan.                                                                   *)
Placed(p) ==
    /\ tree[p] \in Files =>
         tree[p] = origin[p] \/ (p \in Published \cup Retimed /\ tree[p] = snapshot[p])
    /\ origin[p] \in Files /\ tree[p] # origin[p] =>
         \/ p \in Moved /\ backup[p] = origin[p]
         \/ p \in Retimed /\ tree[p] = snapshot[p]
    /\ tree[p] = Dir /\ origin[p] # Dir => p \in plan.create
    /\ origin[p] = Dir /\ tree[p] # Dir => p \in plan.remove

(* The tree that each step of the apply makes of the one before it, ... *)
Without(P, p) == IF p \in P THEN None ELSE origin[p]

Forward(p) ==
    /\ pc \in Unapplied => tree[p] = origin[p]
    /\ pc = "backup" /\ p \in Moved \ todo => backup[p] = origin[p]
    /\ pc = "removeSources" =>
         /\ p \in Moved => backup[p] = origin[p]
         /\ tree[p] = Without(Moved \ todo, p)
    /\ pc = "removeDirectories" => tree[p] = Without(Moved \cup (plan.remove \ todo), p)
    /\ pc = "createDirectories" =>
         tree[p] = IF p \in plan.create \ todo THEN Dir ELSE Without(Moved \cup plan.remove, p)
    /\ pc = "publish" =>
         tree[p] = IF p \in (Published \cup Retimed) \ todo THEN snapshot[p]
                   ELSE IF p \in plan.create THEN Dir ELSE Without(Moved \cup plan.remove, p)

(* ... and what each step of the rollback leaves for the next. *)
Backward(p) ==
    /\ pc = "removeAfter" /\ p \in Published \ todo => tree[p] # snapshot[p]
    /\ pc \in RollbackSteps \ {"removeAfter"} /\ p \in Published => tree[p] # snapshot[p]
    /\ pc = "removeCreated" /\ p \in plan.create \ todo => tree[p] # Dir
    /\ pc \in {"recreateRemoved", "restoreBefore", "restoreMtimes"} /\ p \in plan.create =>
         tree[p] # Dir
    /\ pc = "recreateRemoved" /\ p \in plan.remove \ todo => tree[p] = Dir
    /\ pc \in {"restoreBefore", "restoreMtimes"} /\ p \in plan.remove => tree[p] = Dir
    /\ pc = "restoreBefore" /\ p \in Moved \ todo => tree[p] = origin[p]
    /\ pc = "restoreMtimes" /\ p \in Moved \cup (Retimed \ todo) => tree[p] = origin[p]
    /\ pc = "recovered" => tree[p] = origin[p]

UndisturbedInv ==
    pc # "idle" /\ touched = {} => \A p \in Paths : Placed(p) /\ Forward(p) /\ Backward(p)

-----------------------------------------------------------------------------
(* Facts about paths. *)

(* A path is a sequence of names. *)
LEMMA PathsAreSequences ==
    /\ Paths \subseteq Seq(UNION {Range(p) : p \in Paths})
    /\ \A p \in Paths : \E i \in DOMAIN PathOrder : PathOrder[i] = p
<1> DEFINE S == UNION {Range(p) : p \in Paths}
<1>1. PathOrder \in Seq(Seq(S))
  BY PlanAssumption
<1>2. \A p \in Paths : \E i \in DOMAIN PathOrder : PathOrder[i] = p
  BY DEF Paths, Range
<1> HIDE DEF S
<1>3. \A i \in DOMAIN PathOrder : PathOrder[i] \in Seq(S)
  BY <1>1
<1>4. QED
  BY <1>2, <1>3 DEF S

(* A strict prefix is shorter and agrees on its names. *)
LEMMA StrictPrefix ==
    ASSUME NEW S, NEW s \in Seq(S), NEW t \in Seq(S)
    PROVE  IsStrictPrefix(s, t) <=>
             Len(s) < Len(t) /\ \A i \in 1..Len(s) : s[i] = t[i]
<1>1. ASSUME IsStrictPrefix(s, t) PROVE Len(s) < Len(t) /\ \A i \in 1..Len(s) : s[i] = t[i]
  <2>1. Len(s) <= Len(t) /\ SubSeq(s, 1, Len(s)) = SubSeq(t, 1, Len(s)) /\ s # t
    BY <1>1 DEF IsStrictPrefix, IsPrefix
  <2>2. \A i \in 1..Len(s) : s[i] = SubSeq(s, 1, Len(s))[i] /\ t[i] = SubSeq(t, 1, Len(s))[i]
    BY <2>1
  <2>3. \A i \in 1..Len(s) : s[i] = t[i]
    BY <2>1, <2>2
  <2>4. Len(s) # Len(t)
    BY <2>1, <2>3
  <2>5. QED
    BY <2>1, <2>3, <2>4
<1>2. ASSUME Len(s) < Len(t), \A i \in 1..Len(s) : s[i] = t[i] PROVE IsStrictPrefix(s, t)
  <2>1. SubSeq(s, 1, Len(s)) = SubSeq(t, 1, Len(s))
    BY <1>2
  <2>2. QED
    BY <1>2, <2>1 DEF IsStrictPrefix, IsPrefix
<1>3. QED
  BY <1>1, <1>2

(* The folders above a path are above what is below it, are shorter, and   *)
(* come earlier.                                                           *)
LEMMA Folders ==
    ASSUME NEW p \in Paths, NEW q \in Paths
    PROVE  /\ q \in Above(p) <=> p \in Below(q)
           /\ q \in Above(p) => Above(q) \subseteq Above(p) /\ p # q /\ p \notin Above(q)
           /\ q \in Above(p) => ~InPathOrder(p, q) /\ ~DeepestFirst(q, p)
           /\ p \notin Above(p)
<1> DEFINE S == UNION {Range(r) : r \in Paths}
<1>1. p \in Seq(S) /\ q \in Seq(S)
  BY PathsAreSequences
<1>2. q \in Above(p) <=> p \in Below(q)
  BY DEF Above, Below
<1>3. q \in Above(p) => Len(q) < Len(p)
  BY <1>1, StrictPrefix DEF Above
<1>4. ASSUME q \in Above(p), NEW r \in Above(q) PROVE r \in Above(p)
  <2>1. r \in Paths /\ r \in Seq(S)
    BY <1>4, PathsAreSequences DEF Above
  <2>2. Len(r) < Len(q) /\ \A i \in 1..Len(r) : r[i] = q[i]
    BY <1>1, <1>4, <2>1, StrictPrefix DEF Above
  <2>3. Len(q) < Len(p) /\ \A i \in 1..Len(q) : q[i] = p[i]
    BY <1>1, <1>4, <2>1, StrictPrefix DEF Above
  <2>4. Len(r) < Len(p) /\ \A i \in 1..Len(r) : r[i] = p[i]
    BY <1>1, <2>1, <2>2, <2>3
  <2>5. QED
    BY <1>1, <2>1, <2>4, StrictPrefix DEF Above
<1>5. q \in Above(p) => p # q /\ p \notin Above(q)
  <2>1. p \in Above(q) => Len(p) < Len(q)
    BY <1>1, StrictPrefix DEF Above
  <2>2. QED
    BY <1>1, <1>3, <2>1
<1>6. ASSUME q \in Above(p) PROVE ~InPathOrder(p, q) /\ ~DeepestFirst(q, p)
  <2>1. IsStrictPrefix(q, p)
    BY <1>6 DEF Above
  <2>2. ~InPathOrder(p, q)
    BY <2>1, PlanAssumption DEF InPathOrder
  <2>3. ~DeepestFirst(q, p)
    BY <1>1, <1>3, <1>6 DEF DeepestFirst
  <2>4. QED
    BY <2>2, <2>3
<1>7. p \notin Above(p)
  BY DEF Above, IsStrictPrefix
<1>8. QED
  BY <1>2, <1>4, <1>5, <1>6, <1>7

-----------------------------------------------------------------------------
(* Facts about operations. *)

(* The type of an operation tells what is before and after it. *)
Kinds(p) ==
    /\ p \in DOMAIN plan.ops <=> p \in Moved \cup Published \cup Retimed
    /\ p \in DOMAIN plan.ops => /\ p \in plan.selected
                               /\ plan.ops[p].before = FileAt(origin, p)
                               /\ plan.ops[p].after = snapshot[p]
    /\ p \in plan.selected \ DOMAIN plan.ops => FileAt(origin, p) = snapshot[p]
    /\ p \in Moved => origin[p] \in Files /\ p \notin Retimed
    /\ p \in Published => snapshot[p] \in Files /\ p \notin Retimed
    /\ p \in Published \ Moved => origin[p] \notin Files
    /\ p \in Moved \ Published => snapshot[p] = None
    /\ p \in Moved \cap Published => origin[p].data # snapshot[p].data
    /\ p \in Retimed => /\ origin[p] \in Files /\ snapshot[p] \in Files
                        /\ origin[p].data = snapshot[p].data /\ origin[p] # snapshot[p]

(* The three groups, as the plan's own helpers name them. *)
LEMMA Groups ==
    ASSUME NEW ops
    PROVE  /\ AfterPaths(ops) = OfType(ops, {"Restore", "Replace"}) \cup OfType(ops, {"SetMetadata"})
           /\ BeforePaths(ops) = OfType(ops, {"Replace", "Delete"}) \cup OfType(ops, {"SetMetadata"})
           /\ OfType(ops, {"Restore", "Replace"}) \subseteq DOMAIN ops
           /\ OfType(ops, {"Replace", "Delete"}) \subseteq DOMAIN ops
           /\ OfType(ops, {"SetMetadata"}) \subseteq DOMAIN ops
           /\ \A p \in DOMAIN ops : OpType(ops[p]) = "SetMetadata" <=> p \in OfType(ops, {"SetMetadata"})
           /\ \A p \in OfType(ops, {"Restore", "Replace"}) : OpType(ops[p]) # "SetMetadata"
BY DEF AfterPaths, BeforePaths, OfType

(* What the type of an operation says, unless both its states are missing. *)
LEMMA OpTypes ==
    ASSUME NEW b, NEW a, b # None \/ a # None
    PROVE  LET op == [before |-> b, after |-> a] IN
           /\ OpType(op) \in {"Restore", "Replace", "SetMetadata", "Delete"}
           /\ OpType(op) = "Restore" <=> b = None
           /\ OpType(op) = "Delete" <=> a = None
           /\ OpType(op) = "Replace" <=> b # None /\ a # None /\ b.data # a.data
           /\ OpType(op) = "SetMetadata" <=> b # None /\ a # None /\ b.data = a.data
<1> DEFINE op == [before |-> b, after |-> a]
<1>0. op.before = b /\ op.after = a
  OBVIOUS
<1> HIDE DEF op
<1>1. CASE b = None
  BY <1>0, <1>1 DEF OpType
<1>2. CASE b # None /\ a = None
  BY <1>0, <1>2 DEF OpType
<1>3. CASE b # None /\ a # None /\ b.data # a.data
  BY <1>0, <1>3 DEF OpType
<1>4. CASE b # None /\ a # None /\ b.data = a.data
  BY <1>0, <1>4 DEF OpType
<1>5. QED
  BY <1>1, <1>2, <1>3, <1>4 DEF op

(* So it is with the operations of a plan. *)
LEMMA OpKinds ==
    ASSUME Values, OpsPlanned, NEW p \in Paths
    PROVE  Kinds(p)
<1> USE PlanAssumption
<1>0. /\ snapshot[p] \in Files \cup {None} /\ FileAt(origin, p) \in Files \cup {None}
      /\ FileAt(origin, p) # None => FileAt(origin, p) = origin[p] /\ origin[p] \in Files
      /\ FileAt(origin, p) = None => origin[p] \notin Files
  BY DEF Values, Files, FileAt
<1>1. p \in DOMAIN plan.ops <=> p \in plan.selected /\ FileAt(origin, p) # snapshot[p]
  BY DEF OpsPlanned
<1>2. CASE p \notin DOMAIN plan.ops
  BY <1>0, <1>1, <1>2, Groups DEF Kinds, Moved, Published, Retimed
<1>3. CASE p \in DOMAIN plan.ops
  <2>1. plan.ops[p] = [before |-> FileAt(origin, p), after |-> snapshot[p]]
    BY <1>3 DEF OpsPlanned
  <2>2. FileAt(origin, p) # None \/ snapshot[p] # None
    BY <1>1, <1>3
  <2> DEFINE type == OpType(plan.ops[p])
  <2>3. /\ type \in {"Restore", "Replace", "SetMetadata", "Delete"}
        /\ type = "Restore" <=> FileAt(origin, p) = None
        /\ type = "Delete" <=> snapshot[p] = None
        /\ type = "Replace" <=> /\ FileAt(origin, p) # None /\ snapshot[p] # None
                               /\ FileAt(origin, p).data # snapshot[p].data
        /\ type = "SetMetadata" <=> /\ FileAt(origin, p) # None /\ snapshot[p] # None
                                   /\ FileAt(origin, p).data = snapshot[p].data
    BY <2>1, <2>2, OpTypes
  <2>4. /\ p \in Moved <=> type \in {"Replace", "Delete"}
        /\ p \in Published <=> type \in {"Restore", "Replace"}
        /\ p \in Retimed <=> type = "SetMetadata"
    BY <1>3 DEF Moved, Published, Retimed, OfType
  <2>5. plan.ops[p].before = FileAt(origin, p) /\ plan.ops[p].after = snapshot[p]
    BY <2>1
  <2> HIDE DEF type
  <2>6. QED
    BY <1>0, <1>1, <1>3, <2>3, <2>4, <2>5 DEF Kinds
<1>4. QED
  BY <1>2, <1>3

(* Once a plan is there it stays, with the tree it was made from. *)
LEMMA PlanStays ==
    ASSUME Values, pc # "idle", [Next]_vars
    PROVE  UNCHANGED <<snapshot, plan, origin>> /\ pc' \in Steps \ {"idle"}
<1>1. ASSUME NEW kind \in {"Restore", "Discard"}, NEW requested \in SUBSET Paths,
             Preview(kind, requested)
      PROVE  UNCHANGED <<snapshot, plan, origin>> /\ pc' \in Steps \ {"idle"}
  BY <1>1 DEF Values, Steps, ApplySteps, RollbackSteps, Preview, user
<1>2. ASSUME NEW p \in Paths, RemoveCreated(p)
      PROVE  UNCHANGED <<snapshot, plan, origin>> /\ pc' \in Steps \ {"idle"}
  BY <1>2 DEF Values, Steps, ApplySteps, RollbackSteps, RemoveCreated, Item,
     remove_project_directory, Did, Fail, user, FailWith
<1>3. ASSUME NEW p \in Paths, NEW f \in UserFiles, SaveFile(p, f)
      PROVE  UNCHANGED <<snapshot, plan, origin>> /\ pc' \in Steps \ {"idle"}
  BY <1>3 DEF Values, Steps, ApplySteps, RollbackSteps, SaveFile, Edited, tx
<1>4. ASSUME NEW p \in Paths, MakeFolder(p)
      PROVE  UNCHANGED <<snapshot, plan, origin>> /\ pc' \in Steps \ {"idle"}
  BY <1>4 DEF Values, Steps, ApplySteps, RollbackSteps, MakeFolder, Edited, tx
<1>5. ASSUME NEW p \in Paths, Delete(p)
      PROVE  UNCHANGED <<snapshot, plan, origin>> /\ pc' \in Steps \ {"idle"}
  BY <1>5 DEF Values, Steps, ApplySteps, RollbackSteps, Delete, Edited, tx
<1>6. CASE \/ validate_discard_request_scope \/ validate_expected_plan
           \/ BeginApplying \/ CancelStaging
  BY <1>6 DEF Values, Steps, ApplySteps, RollbackSteps, validate_discard_request_scope,
     Reject, validate_expected_plan, BeginApplying, Phase, CancelStaging, user
<1>7. CASE \/ (\E p \in Paths : BackupFile(p))
           \/ (\E p \in Paths : RemoveSource(p))
           \/ (\E p \in Paths : RemoveDirectory(p))
           \/ (\E p \in Paths : CreateDirectory(p))
  BY <1>7 DEF Values, Steps, ApplySteps, RollbackSteps, BackupFile, Item, Did, Fail, FailWith,
     RemoveSource, RemoveDirectory, remove_project_directory, CreateDirectory, user
<1>8. CASE \/ (\E p \in Paths : PublishFile(p))
           \/ (\E p \in Paths : SetMtime(p)) \/ EndOfStep \/ Kill
  BY <1>8 DEF Values, Steps, ApplySteps, RollbackSteps, PublishFile, Item, Did, FailWith,
     SetMtime, Fail, EndOfStep, Done, Phase, Kill, user
<1>9. CASE \/ RecoverStaged \/ RecoverOne \/ (\E p \in Paths : RemoveAfter(p))
           \/ (\E p \in Paths : RecreateRemoved(p))
  BY <1>9 DEF Values, Steps, ApplySteps, RollbackSteps, RecoverStaged, RecoverOne, Phase,
     RemoveAfter, Item, Did, Fail, FailWith, RecreateRemoved, user
<1>10. CASE \/ (\E p \in Paths : RestoreBefore(p))
            \/ (\E p \in Paths : RestoreMtime(p)) \/ EnsureBeforeStateRestored
            \/ EndOfRollbackStep
  BY <1>10 DEF Values, Steps, ApplySteps, RollbackSteps, RestoreBefore, Item, Did, Fail,
     FailWith, RestoreMtime, EnsureBeforeStateRestored, EndOfRollbackStep, Done, Phase, user
<1>11. CASE UNCHANGED vars
  BY <1>11 DEF Values, Steps, ApplySteps, RollbackSteps, vars, tx, user
<1>12. QED
  BY <1>1, <1>2, <1>3, <1>4, <1>5, <1>6, <1>7, <1>8, <1>9, <1>10, <1>11
     DEF Next, Apply, Recover, User

(* The groups of paths stay with it. *)
LEMMA GroupsStay ==
    ASSUME UNCHANGED plan
    PROVE  Moved' = Moved /\ Published' = Published /\ Retimed' = Retimed
BY DEF Moved, Published, Retimed

-----------------------------------------------------------------------------
(* The tree stays one that a file system can hold. *)

(* Something is put in a folder, or a file is removed. *)
LEMMA WellFormedPut ==
    ASSUME NEW t \in [Paths -> Entries], WellFormed(t), NEW p \in Paths, NEW e,
           t[p] # Dir, e # None => t[p] # None \/ \A q \in Above(p) : t[q] = Dir
    PROVE  WellFormed([t EXCEPT ![p] = e])
<1> SUFFICES ASSUME NEW r \in Paths, [t EXCEPT ![p] = e][r] # None, NEW q \in Above(r)
             PROVE  [t EXCEPT ![p] = e][q] = Dir
  BY DEF WellFormed
<1>0. q \in Paths
  BY DEF Above
<1>1. CASE r = p
  BY <1>0, <1>1, Folders DEF WellFormed
<1>2. CASE r # p
  BY <1>0, <1>2 DEF WellFormed
<1>3. QED
  BY <1>1, <1>2

(* An empty folder is removed. *)
LEMMA WellFormedEmptied ==
    ASSUME NEW t \in [Paths -> Entries], WellFormed(t), NEW p \in Paths,
           \A q \in Below(p) : t[q] = None
    PROVE  WellFormed([t EXCEPT ![p] = None])
<1> SUFFICES ASSUME NEW r \in Paths, [t EXCEPT ![p] = None][r] # None, NEW q \in Above(r)
             PROVE  [t EXCEPT ![p] = None][q] = Dir
  BY DEF WellFormed
<1>0. q \in Paths /\ r # p /\ t[r] # None
  BY DEF Above
<1>1. q # p
  BY <1>0, Folders
<1>2. QED
  BY <1>0, <1>1 DEF WellFormed

(* The tree t with the folders above p. *)
Made(t, p) == [q \in Paths |-> IF q \in Above(p) THEN Dir ELSE t[q]]

(* Making the folders above a path, where no file stands. *)
LEMMA WellFormedMade ==
    ASSUME NEW t \in [Paths -> Entries], WellFormed(t), NEW p \in Paths
    PROVE  /\ WellFormed(Made(t, p)) /\ Made(t, p) \in [Paths -> Entries]
           /\ Made(t, p)[p] = t[p] /\ \A q \in Above(p) : Made(t, p)[q] = Dir
<1>1. Made(t, p) \in [Paths -> Entries]
  BY DEF Made, Entries
<1>2. ASSUME NEW r \in Paths, Made(t, p)[r] # None, NEW q \in Above(r)
      PROVE  Made(t, p)[q] = Dir
  <2>0. q \in Paths
    BY DEF Above
  <2>1. CASE r \in Above(p)
    BY <2>0, <2>1, Folders DEF Made
  <2>2. CASE r \notin Above(p)
    BY <1>2, <2>0, <2>2 DEF Made, WellFormed
  <2>3. QED
    BY <2>1, <2>2
<1>3. Made(t, p)[p] = t[p]
  BY Folders DEF Made
<1>4. \A q \in Above(p) : Made(t, p)[q] = Dir
  BY DEF Made, Above
<1>5. QED
  BY <1>1, <1>2, <1>3, <1>4 DEF WellFormed

(* A folder goes with all that is in it. *)
LEMMA WellFormedWithout ==
    ASSUME NEW t \in [Paths -> Entries], WellFormed(t), NEW p \in Paths
    PROVE  WellFormed([q \in Paths |-> IF q \in {p} \cup Below(p) THEN None ELSE t[q]])
<1> DEFINE u == [q \in Paths |-> IF q \in {p} \cup Below(p) THEN None ELSE t[q]]
<1> SUFFICES ASSUME NEW r \in Paths, u[r] # None, NEW q \in Above(r)
             PROVE  u[q] = Dir
  BY DEF WellFormed
<1>0. q \in Paths /\ r \notin {p} \cup Below(p) /\ t[r] # None
  BY DEF Above
<1>1. q \notin {p} \cup Below(p)
  BY <1>0, Folders
<1>2. t[q] = Dir
  BY <1>0 DEF WellFormed
<1>3. QED
  BY <1>0, <1>1, <1>2

(* Every step keeps the types. *)
LEMMA ValuesStay ==
    ASSUME TypeInv, [Next]_vars
    PROVE  Values'
<1> USE PlanAssumption
<1>0. /\ Values /\ TodoKnown /\ WellFormed(tree)
      /\ pc # "idle" => /\ \A r \in Paths : Kinds(r)
                        /\ plan.remove \subseteq Paths /\ plan.create \subseteq Paths
                        /\ Moved \subseteq Paths /\ Published \cup Retimed \subseteq Paths
  <2>1. pc # "idle" => DOMAIN plan.ops \subseteq Paths
    BY DEF TypeInv, Planned, PlanType
  <2>2. pc # "idle" => plan.remove \subseteq Paths /\ plan.create \subseteq Paths
    BY DEF TypeInv, Planned, PlanType
  <2>3. QED
    BY <2>1, <2>2, OpKinds, Groups DEF TypeInv, Planned, Moved, Published, Retimed
<1>1. ASSUME NEW kind \in {"Restore", "Discard"}, NEW requested \in SUBSET Paths,
             Preview(kind, requested)
      PROVE  Values'
  BY <1>0, <1>1 DEF Values, Entries, Steps, ApplySteps, RollbackSteps, Planned, PlanType,
     Moved, Published, Retimed, Preview, user
<1>2. CASE BeginApplying
  BY <1>0, <1>2 DEF Values, Entries, Steps, ApplySteps, RollbackSteps, Planned, PlanType,
     Moved, Published, Retimed, BeginApplying, Phase, user, Reject
<1>3. ASSUME NEW p \in Paths, BackupFile(p) PROVE Values'
  BY <1>0, <1>3 DEF Values, Entries, Files, Steps,  TodoKnown, Kinds, FileAt, BackupFile,
     Item, Did, Fail, user, FailWith
<1>4. ASSUME NEW p \in Paths, RemoveSource(p) PROVE Values'
  BY <1>0, <1>4 DEF Values, Entries, Files, Steps,  TodoKnown, Kinds, FileAt, RemoveSource,
     Item, Did, Fail, user, FailWith
<1>5. ASSUME NEW p \in Paths, RemoveDirectory(p) PROVE Values'
  BY <1>0, <1>5 DEF Values, Entries, Steps, ApplySteps, RollbackSteps, Planned, PlanType,
     Moved, Published, Retimed, RemoveDirectory, remove_project_directory, Item, Did, Fail,
     user, FailWith
<1>6. ASSUME NEW p \in Paths, CreateDirectory(p) PROVE Values'
  BY <1>0, <1>6 DEF Values, Entries, Steps, ApplySteps, RollbackSteps, Planned, PlanType,
     Moved, Published, Retimed, CreateDirectory, Item, Did, Fail, user, FailWith
<1>7. ASSUME NEW p \in Paths, PublishFile(p) PROVE Values'
  <2>1. p \in DOMAIN plan.ops /\ plan.ops[p].after \in Entries
    BY <1>0, <1>7 DEF Values, Entries, Files, TodoKnown, Kinds, PublishFile, Item
  <2>2. Made(tree, p) \in [Paths -> Entries]
    BY <1>0, WellFormedMade DEF Values
  <2>3. tree' \in {tree, Made(tree, p), [Made(tree, p) EXCEPT ![p] = plan.ops[p].after]}
    BY <1>7 DEF Made, PublishFile, Did, FailWith
  <2>4. tree' \in [Paths -> Entries]
    BY <1>0, <2>1, <2>2, <2>3 DEF Values
  <2>5. /\ UNCHANGED <<snapshot, backup, origin, mine, touched>> /\ pc' \in {"pending", pc}
        /\ todo' \subseteq todo /\ failed' \subseteq failed \cup {"apply"}
    BY <1>7 DEF PublishFile, Did, FailWith, user
  <2>6. QED
    BY <1>0, <2>4, <2>5 DEF Values, Steps
<1>8. ASSUME NEW p \in Paths, SetMtime(p) PROVE Values'
  <2>1. p \in DOMAIN plan.ops /\ plan.ops[p].after \in Entries
    BY <1>0, <1>8 DEF Values, Entries, Files, FileAt, TodoKnown, Kinds, SetMtime, Item
  <2>2. tree' \in [Paths -> Entries]
    BY <1>0, <1>8, <2>1 DEF Values, SetMtime, Item, Did, Fail, user, FailWith
  <2>3. /\ UNCHANGED <<snapshot, backup, origin, mine, touched>> /\ pc' \in {"pending", pc}
        /\ todo' \subseteq todo /\ failed' \subseteq failed \cup {"apply", "rollback"}
    BY <1>8 DEF SetMtime, Item, Did, Fail, user, FailWith
  <2>4. QED
    BY <1>0, <2>2, <2>3 DEF Values, Steps
<1>9. CASE EndOfStep
  BY <1>0, <1>9, Groups DEF Values, Steps, ApplySteps, Moved, Published, Retimed, EndOfStep,
     Done, Phase, user
<1>10. CASE Kill
  BY <1>0, <1>10 DEF Values, Entries, Steps, ApplySteps, RollbackSteps, Planned, PlanType,
     Moved, Published, Retimed, Kill, user
<1>11. CASE RecoverOne
  BY <1>0, <1>11 DEF Values, Entries, Steps, ApplySteps, RollbackSteps, Planned, PlanType,
     Moved, Published, Retimed, RecoverOne, Phase, user
<1>12. ASSUME NEW p \in Paths, RemoveAfter(p) PROVE Values'
  BY <1>0, <1>12 DEF Values, Entries, Steps, ApplySteps, RollbackSteps, Planned, PlanType,
     Moved, Published, Retimed, RemoveAfter, Item, user, Did, Fail, FailWith
<1>13. ASSUME NEW p \in Paths, RemoveCreated(p) PROVE Values'
  BY <1>0, <1>13 DEF Values, Entries, Steps, ApplySteps, RollbackSteps, Planned, PlanType,
     Moved, Published, Retimed, RemoveCreated, Item, remove_project_directory, Did, Fail,
     user, FailWith
<1>14. ASSUME NEW p \in Paths, RecreateRemoved(p) PROVE Values'
  BY <1>0, <1>14 DEF Values, Entries, Steps, ApplySteps, RollbackSteps, Planned, PlanType,
     Moved, Published, Retimed, RecreateRemoved, Item, Did, Fail, user, FailWith
<1>15. ASSUME NEW p \in Paths, RestoreBefore(p) PROVE Values'
  BY <1>0, <1>15 DEF Values, Entries, Files, Steps,  TodoKnown, Kinds, FileAt, RestoreBefore,
     Item, Did, Fail, user, FailWith
<1>16. ASSUME NEW p \in Paths, RestoreMtime(p) PROVE Values'
  <2>1. p \in DOMAIN plan.ops /\ plan.ops[p].before \in Entries
    BY <1>0, <1>16 DEF Values, Entries, Files, FileAt, TodoKnown, Kinds, RestoreMtime, Item
  <2>2. tree' \in [Paths -> Entries]
    BY <1>0, <1>16, <2>1 DEF Values, RestoreMtime, Item, Did, Fail, user, FailWith
  <2>3. /\ UNCHANGED <<snapshot, backup, origin, mine, touched>> /\ pc' \in {"pending", pc}
        /\ todo' \subseteq todo /\ failed' \subseteq failed \cup {"apply", "rollback"}
    BY <1>16 DEF RestoreMtime, Item, Did, Fail, user, FailWith
  <2>4. QED
    BY <1>0, <2>2, <2>3 DEF Values, Steps
<1>17. CASE EndOfRollbackStep
  BY <1>0, <1>17 DEF Values, Entries, Steps, ApplySteps, RollbackSteps, Planned, PlanType,
     Moved, Published, Retimed, EndOfRollbackStep, Done, Phase, user
<1>18. ASSUME NEW p \in Paths, NEW f \in UserFiles, SaveFile(p, f) PROVE Values'
  BY <1>0, <1>18 DEF Values, Entries, Files, FileAt, Below, SaveFile, Edited, tx
<1>19. ASSUME NEW p \in Paths, MakeFolder(p) PROVE Values'
  BY <1>0, <1>19 DEF Values, Entries, Files, FileAt, Below, MakeFolder, Edited, tx
<1>20. ASSUME NEW p \in Paths, Delete(p) PROVE Values'
  BY <1>0, <1>20 DEF Values, Entries, Files, FileAt, Below, Delete, Edited, tx
<1>21. CASE \/ validate_discard_request_scope \/ validate_expected_plan
            \/ CancelStaging \/ RecoverStaged
  BY <1>0, <1>21 DEF Values, Entries, Steps, ApplySteps, RollbackSteps, Planned, PlanType,
     validate_discard_request_scope, Reject, validate_expected_plan, CancelStaging,
     RecoverStaged, user
<1>22. CASE \/ EnsureBeforeStateRestored
  BY <1>0, <1>22 DEF Values, Entries, Steps, ApplySteps, RollbackSteps, Planned, PlanType,
     EnsureBeforeStateRestored, Fail, FailWith, user
<1>23. CASE UNCHANGED vars
  BY <1>0, <1>23 DEF Values, Entries, Steps, ApplySteps, RollbackSteps, Planned, PlanType,
     vars, tx, user
<1>24. QED
  BY <1>1, <1>2, <1>3, <1>4, <1>5, <1>6, <1>7, <1>8, <1>9, <1>10, <1>11, <1>12, <1>13, <1>14,
     <1>15, <1>16, <1>17, <1>18, <1>19, <1>20, <1>21, <1>22, <1>23 DEF Next, Apply, Recover,
     User

(* A step takes its paths from the plan. *)
LEMMA TodoStays ==
    ASSUME TypeInv, [Next]_vars
    PROVE  TodoKnown'
<1>0. Values /\ TodoKnown
  BY DEF TypeInv
<1>1. ASSUME NEW kind \in {"Restore", "Discard"}, NEW requested \in SUBSET Paths,
             Preview(kind, requested)
      PROVE  TodoKnown'
  BY <1>0, <1>1 DEF TodoKnown, ApplySteps, RollbackSteps, Preview, user
<1>2. CASE BeginApplying
  <2>1. UNCHANGED plan
    BY <1>2 DEF BeginApplying, Phase, user, Reject
  <2>2. QED
    BY <1>0, <1>2, <2>1, GroupsStay, Groups DEF TodoKnown, Moved, Published, Retimed,
       BeginApplying, Phase, user, Reject
<1>3. ASSUME NEW p \in Paths, BackupFile(p) PROVE TodoKnown'
  BY <1>0, <1>3, GroupsStay DEF TodoKnown, BackupFile, Item, Did, Fail, user, FailWith
<1>4. ASSUME NEW p \in Paths, RemoveSource(p) PROVE TodoKnown'
  BY <1>0, <1>4, GroupsStay DEF TodoKnown, RemoveSource, Item, Did, Fail, user, FailWith
<1>5. ASSUME NEW p \in Paths, RemoveDirectory(p) PROVE TodoKnown'
  BY <1>0, <1>5, GroupsStay DEF TodoKnown, RemoveDirectory, remove_project_directory, Item,
     Did, Fail, user, FailWith
<1>6. ASSUME NEW p \in Paths, CreateDirectory(p) PROVE TodoKnown'
  BY <1>0, <1>6, GroupsStay DEF TodoKnown, CreateDirectory, Item, Did, Fail, user, FailWith
<1>7. ASSUME NEW p \in Paths, PublishFile(p) PROVE TodoKnown'
  BY <1>0, <1>7, GroupsStay DEF TodoKnown, PublishFile, Item, Did, FailWith, user
<1>8. ASSUME NEW p \in Paths, SetMtime(p) PROVE TodoKnown'
  BY <1>0, <1>8, GroupsStay DEF TodoKnown, SetMtime, Item, Did, Fail, user, FailWith
<1>9. CASE EndOfStep
  <2>1. UNCHANGED plan
    BY <1>9 DEF EndOfStep, Done, Phase, user
  <2>2. QED
    BY <1>0, <1>9, <2>1, GroupsStay, Groups DEF TodoKnown, Moved, Published, Retimed,
       EndOfStep, Done, Phase, user
<1>10. CASE RecoverOne
  <2>1. UNCHANGED plan
    BY <1>10 DEF RecoverOne, Phase, user
  <2>2. QED
    BY <1>0, <1>10, <2>1, GroupsStay, Groups DEF TodoKnown, Moved, Published, Retimed,
       RecoverOne, Phase, user
<1>11. ASSUME NEW p \in Paths, RemoveAfter(p) PROVE TodoKnown'
  BY <1>0, <1>11, GroupsStay DEF TodoKnown, RemoveAfter, Item, user, Did, Fail, FailWith
<1>12. ASSUME NEW p \in Paths, RemoveCreated(p) PROVE TodoKnown'
  BY <1>0, <1>12, GroupsStay DEF TodoKnown, RemoveCreated, Item, remove_project_directory,
     Did, Fail, user, FailWith
<1>13. ASSUME NEW p \in Paths, RecreateRemoved(p) PROVE TodoKnown'
  BY <1>0, <1>13, GroupsStay DEF TodoKnown, RecreateRemoved, Item, Did, Fail, user, FailWith
<1>14. ASSUME NEW p \in Paths, RestoreBefore(p) PROVE TodoKnown'
  BY <1>0, <1>14, GroupsStay DEF TodoKnown, RestoreBefore, Item, Did, Fail, user, FailWith
<1>15. ASSUME NEW p \in Paths, RestoreMtime(p) PROVE TodoKnown'
  BY <1>0, <1>15, GroupsStay DEF TodoKnown, RestoreMtime, Item, Did, Fail, user, FailWith
<1>16. CASE EndOfRollbackStep
  <2>1. UNCHANGED plan
    BY <1>16 DEF EndOfRollbackStep, Done, Phase, user
  <2>2. QED
    BY <1>0, <1>16, <2>1, GroupsStay, Groups DEF TodoKnown, Moved, Published, Retimed,
       EndOfRollbackStep, Done, Phase, user
<1>17. ASSUME NEW p \in Paths, NEW f \in UserFiles, SaveFile(p, f) PROVE TodoKnown'
  BY <1>0, <1>17, GroupsStay DEF TodoKnown, SaveFile, Edited, tx
<1>18. ASSUME NEW p \in Paths, MakeFolder(p) PROVE TodoKnown'
  BY <1>0, <1>18, GroupsStay DEF TodoKnown, MakeFolder, Edited, tx
<1>19. ASSUME NEW p \in Paths, Delete(p) PROVE TodoKnown'
  BY <1>0, <1>19, GroupsStay DEF TodoKnown, Delete, Edited, tx
<1>20. CASE \/ validate_discard_request_scope \/ validate_expected_plan
            \/ CancelStaging \/ Kill
  BY <1>0, <1>20 DEF TodoKnown, ApplySteps, RollbackSteps, validate_discard_request_scope,
     Reject, validate_expected_plan, CancelStaging, Kill, user
<1>21. CASE \/ RecoverStaged \/ EnsureBeforeStateRestored
  BY <1>0, <1>21 DEF TodoKnown, ApplySteps, RollbackSteps, RecoverStaged,
     EnsureBeforeStateRestored, Fail, FailWith, user
<1>22. CASE UNCHANGED vars
  BY <1>0, <1>22, GroupsStay DEF TodoKnown, vars, tx
<1>23. QED
  BY <1>1, <1>2, <1>3, <1>4, <1>5, <1>6, <1>7, <1>8, <1>9, <1>10, <1>11, <1>12, <1>13, <1>14,
     <1>15, <1>16, <1>17, <1>18, <1>19, <1>20, <1>21, <1>22 DEF Next, Apply, Recover, User

(* Every entry of the tree stays in a folder. *)
LEMMA TreeStaysWhole ==
    ASSUME TypeInv, [Next]_vars
    PROVE  WellFormed(tree')
<1> USE PlanAssumption
<1>0. /\ Values /\ TodoKnown /\ Idle /\ WellFormed(tree)
      /\ pc # "idle" => \A r \in Paths : Kinds(r)
  BY OpKinds DEF TypeInv, Planned
<1>1. ASSUME NEW kind \in {"Restore", "Discard"}, NEW requested \in SUBSET Paths,
             Preview(kind, requested)
      PROVE  WellFormed(tree')
  BY <1>0, <1>1 DEF WellFormed, Preview, user
<1>2. ASSUME NEW p \in Paths, BackupFile(p) PROVE WellFormed(tree')
  BY <1>0, <1>2 DEF WellFormed, BackupFile, Item, Did, Fail, user, FailWith
<1>3. ASSUME NEW p \in Paths, RemoveSource(p) PROVE WellFormed(tree')
  <2>1. tree \in [Paths -> Entries]
    BY <1>0 DEF Values
  <2>2. tree' = tree \/ (tree[p] # Dir /\ tree' = [tree EXCEPT ![p] = None])
    BY <1>0, <1>3 DEF Values, Files, RemoveSource, Item, Did, Fail, user, FailWith
  <2>3. tree[p] # Dir => WellFormed([tree EXCEPT ![p] = None])
    BY <1>0, <2>1, WellFormedPut
  <2>4. QED
    BY <1>0, <2>2, <2>3
<1>4. ASSUME NEW p \in Paths, RemoveDirectory(p) PROVE WellFormed(tree')
  <2>1. tree \in [Paths -> Entries]
    BY <1>0 DEF Values
  <2>2. tree' = tree \/ ((\A q \in Below(p) : tree[q] = None) /\ tree' = [tree EXCEPT ![p] = None])
    BY <1>0, <1>4 DEF CanRemoveDirectory, RemoveDirectory, remove_project_directory, Item,
       Did, Fail, user, FailWith
  <2>3. (\A q \in Below(p) : tree[q] = None) => WellFormed([tree EXCEPT ![p] = None])
    BY <1>0, <2>1, WellFormedEmptied
  <2>4. QED
    BY <1>0, <2>2, <2>3
<1>5. ASSUME NEW p \in Paths, CreateDirectory(p) PROVE WellFormed(tree')
  <2>1. tree \in [Paths -> Entries]
    BY <1>0 DEF Values
  <2>2. tree' = tree \/ ((tree[p] # Dir /\ InFolder(p)) /\ tree' = [tree EXCEPT ![p] = Dir])
    BY <1>0, <1>5 DEF CreateDirectory, Item, Did, Fail, user, FailWith
  <2>3. (tree[p] # Dir /\ InFolder(p)) => WellFormed([tree EXCEPT ![p] = Dir])
    BY <1>0, <2>1, WellFormedPut DEF InFolder
  <2>4. QED
    BY <1>0, <2>2, <2>3
<1>6. ASSUME NEW p \in Paths, PublishFile(p) PROVE WellFormed(tree')
  <2>1. tree \in [Paths -> Entries]
    BY <1>0 DEF Values
  <2>2. \/ tree' \in {tree, Made(tree, p)}
        \/ tree[p] = None /\ tree' = [Made(tree, p) EXCEPT ![p] = plan.ops[p].after]
    BY <1>6 DEF Made, PublishFile, Item, Did, FailWith, user
  <2>3. /\ WellFormed(Made(tree, p)) /\ Made(tree, p) \in [Paths -> Entries]
        /\ Made(tree, p)[p] = tree[p] /\ \A q \in Above(p) : Made(tree, p)[q] = Dir
    BY <1>0, <2>1, WellFormedMade
  <2>4. tree[p] = None => WellFormed([Made(tree, p) EXCEPT ![p] = plan.ops[p].after])
    BY <2>3, WellFormedPut
  <2>5. QED
    BY <1>0, <2>2, <2>3, <2>4
<1>7. ASSUME NEW p \in Paths, SetMtime(p) PROVE WellFormed(tree')
  <2>1. tree \in [Paths -> Entries]
    BY <1>0 DEF Values
  <2>2. Kinds(p) /\ p \in DOMAIN plan.ops
    BY <1>0, <1>7 DEF TodoKnown, Kinds, SetMtime, Item
  <2>3. p \in Retimed
    BY <1>0, <1>7, <2>2, Groups DEF Retimed, TodoKnown, SetMtime, Item
  <2>4. plan.ops[p].before \in Files /\ plan.ops[p].after \in Files
    BY <2>2, <2>3 DEF Kinds, FileAt
  <2>5. tree' = tree \/ (tree[p] \in Files /\ tree' = [tree EXCEPT ![p] = plan.ops[p].after])
    BY <1>7, <2>4 DEF SetMtime, Item, Did, Fail, user, FailWith
  <2>6. tree[p] \in Files => WellFormed([tree EXCEPT ![p] = plan.ops[p].after])
    BY <1>0, <2>1, WellFormedPut
  <2>7. QED
    BY <1>0, <2>5, <2>6
<1>8. ASSUME NEW p \in Paths, RemoveAfter(p) PROVE WellFormed(tree')
  <2>1. tree \in [Paths -> Entries]
    BY <1>0 DEF Values
  <2>2. tree' = tree \/ (tree[p] # Dir /\ tree' = [tree EXCEPT ![p] = None])
    BY <1>0, <1>8 DEF Files, Holds, RemoveAfter, Item, user, Did, Fail, FailWith
  <2>3. tree[p] # Dir => WellFormed([tree EXCEPT ![p] = None])
    BY <1>0, <2>1, WellFormedPut
  <2>4. QED
    BY <1>0, <2>2, <2>3
<1>9. ASSUME NEW p \in Paths, RemoveCreated(p) PROVE WellFormed(tree')
  <2>1. tree \in [Paths -> Entries]
    BY <1>0 DEF Values
  <2>2. tree' = tree \/ ((\A q \in Below(p) : tree[q] = None) /\ tree' = [tree EXCEPT ![p] = None])
    BY <1>0, <1>9 DEF CanRemoveDirectory, RemoveCreated, Item, remove_project_directory, Did,
       Fail, user, FailWith
  <2>3. (\A q \in Below(p) : tree[q] = None) => WellFormed([tree EXCEPT ![p] = None])
    BY <1>0, <2>1, WellFormedEmptied
  <2>4. QED
    BY <1>0, <2>2, <2>3
<1>10. ASSUME NEW p \in Paths, RecreateRemoved(p) PROVE WellFormed(tree')
  <2>1. tree \in [Paths -> Entries]
    BY <1>0 DEF Values
  <2>2. tree' = tree \/ (InFolder(p) /\ tree' = [tree EXCEPT ![p] = Dir])
    BY <1>10 DEF RecreateRemoved, Item, Did, Fail, user, FailWith
  <2>3. tree[p] = Dir => [tree EXCEPT ![p] = Dir] = tree
    BY <2>1
  <2>4. tree[p] # Dir /\ InFolder(p) => WellFormed([tree EXCEPT ![p] = Dir])
    BY <1>0, <2>1, WellFormedPut DEF InFolder
  <2>5. QED
    BY <1>0, <2>2, <2>3, <2>4
<1>11. ASSUME NEW p \in Paths, RestoreBefore(p) PROVE WellFormed(tree')
  <2>1. tree \in [Paths -> Entries]
    BY <1>0 DEF Values
  <2>2. tree' = tree \/ ((tree[p] # Dir /\ (tree[p] # None \/ InFolder(p))) /\ tree' = [tree EXCEPT ![p] = plan.ops[p].before])
    BY <1>0, <1>11 DEF Holds, RestoreBefore, Item, Did, Fail, user, FailWith
  <2>3. (tree[p] # Dir /\ (tree[p] # None \/ InFolder(p))) => WellFormed([tree EXCEPT ![p] = plan.ops[p].before])
    BY <1>0, <2>1, WellFormedPut DEF InFolder
  <2>4. QED
    BY <1>0, <2>2, <2>3
<1>12. ASSUME NEW p \in Paths, RestoreMtime(p) PROVE WellFormed(tree')
  <2>1. tree \in [Paths -> Entries]
    BY <1>0 DEF Values
  <2>2. Kinds(p) /\ p \in DOMAIN plan.ops
    BY <1>0, <1>12 DEF TodoKnown, Kinds, RestoreMtime, Item
  <2>3. p \in Retimed
    BY <1>0, <1>12, <2>2, Groups DEF Retimed, TodoKnown, RestoreMtime, Item
  <2>4. plan.ops[p].before \in Files /\ plan.ops[p].after \in Files
    BY <2>2, <2>3 DEF Kinds, FileAt
  <2>5. tree' = tree \/ (tree[p] \in Files /\ tree' = [tree EXCEPT ![p] = plan.ops[p].before])
    BY <1>12, <2>4 DEF RestoreMtime, Item, Did, Fail, user, FailWith
  <2>6. tree[p] \in Files => WellFormed([tree EXCEPT ![p] = plan.ops[p].before])
    BY <1>0, <2>1, WellFormedPut
  <2>7. QED
    BY <1>0, <2>5, <2>6
<1>13. ASSUME NEW p \in Paths, NEW f \in UserFiles, SaveFile(p, f) PROVE WellFormed(tree')
  BY <1>0, <1>13, WellFormedPut DEF Values, InFolder, SaveFile, Edited, tx
<1>14. ASSUME NEW p \in Paths, MakeFolder(p) PROVE WellFormed(tree')
  BY <1>0, <1>14, WellFormedPut DEF Values, InFolder, MakeFolder, Edited, tx
<1>15. ASSUME NEW p \in Paths, Delete(p) PROVE WellFormed(tree')
  BY <1>0, <1>15, WellFormedWithout DEF Values, Delete, Edited, tx
<1>16. CASE \/ validate_discard_request_scope \/ validate_expected_plan
            \/ BeginApplying \/ CancelStaging \/ EndOfStep
  BY <1>0, <1>16 DEF WellFormed, validate_discard_request_scope, Reject,
     validate_expected_plan, BeginApplying, Phase, CancelStaging, EndOfStep, Done, user
<1>17. CASE \/ Kill \/ RecoverStaged \/ RecoverOne
            \/ EnsureBeforeStateRestored \/ EndOfRollbackStep
  BY <1>0, <1>17 DEF WellFormed, Kill, RecoverStaged, RecoverOne, Phase,
     EnsureBeforeStateRestored, Fail, FailWith, EndOfRollbackStep, Done, user
<1>18. CASE UNCHANGED vars
  BY <1>0, <1>18 DEF WellFormed, vars, tx, user
<1>19. QED
  BY <1>1, <1>2, <1>3, <1>4, <1>5, <1>6, <1>7, <1>8, <1>9, <1>10, <1>11, <1>12, <1>13, <1>14,
     <1>15, <1>16, <1>17, <1>18 DEF Next, Apply, Recover, User

-----------------------------------------------------------------------------
(* The preview. *)

(* A discard's selection holds the request, and the companions of what it  *)
(* holds that are files or are in the checkpoint.                          *)
LEMMA SelectionIsClosed ==
    ASSUME NEW requested \in SUBSET Paths, NEW p \in requested, NEW c \in Paths,
           c \in Companion(p), snapshot[c] # None \/ tree[c] \in Files
    PROVE  c \in normalize_discard_selection(requested)
<1> SUFFICES ASSUME NEW T \in SUBSET Paths, requested \subseteq T, GrowSelection(T) \subseteq T
             PROVE  c \in T
  BY DEF normalize_discard_selection, Closure
<1>1. c \in GrowSelection(T)
  BY DEF GrowSelection
<1>2. QED
  BY <1>1

(* Companions are paths. *)
LEMMA CompanionsArePaths == \A p : Companion(p) \subseteq Paths
BY PlanAssumption DEF Companion

(* What a preview freezes. *)
LEMMA PreviewPlans ==
    ASSUME TypeInv, NEW kind \in {"Restore", "Discard"}, NEW requested \in SUBSET Paths,
           Preview(kind, requested)
    PROVE  /\ plan' \in PlanType /\ OpsPlanned' /\ FoldersPlanned'
           /\ UNCHANGED <<snapshot, origin, tree>> /\ pc' = "previewed"
<1> DEFINE selected == IF kind = "Discard" THEN normalize_discard_selection(requested) ELSE Paths
           ops == Operations(selected)
<1>0. Values /\ tree = origin /\ pc = "idle"
  BY DEF TypeInv, Idle, Preview
<1>1. /\ plan' = [kind |-> kind, requested |-> requested, selected |-> selected, ops |-> ops,
                  remove |-> DirectoriesToRemove(ops), create |-> DirectoriesToCreate(ops)]
      /\ ~TopologyUnplannable(ops)
      /\ UNCHANGED <<snapshot, origin, tree>> /\ pc' = "previewed"
  BY DEF Preview, build_plan, user
<1>2. /\ plan'.kind = kind /\ plan'.requested = requested /\ plan'.selected = selected
      /\ plan'.ops = ops /\ plan'.remove = DirectoriesToRemove(ops)
      /\ plan'.create = DirectoriesToCreate(ops)
  BY <1>1
<1>3. selected \subseteq Paths
  BY DEF normalize_discard_selection, Closure
<1>4. ops = [p \in {q \in selected : FileAt(origin, q) # snapshot[q]} |->
               [before |-> FileAt(origin, p), after |-> snapshot[p]]]
  BY <1>0 DEF Operations
<1> HIDE DEF selected, ops
<1>5. plan' \in PlanType
  <2> DEFINE D == {q \in selected : FileAt(origin, q) # snapshot[q]}
             Op == [before : Files \cup {None}, after : SnapshotFiles \cup {None}]
  <2>1. \A p \in Paths : FileAt(origin, p) \in Files \cup {None}
                       /\ snapshot[p] \in SnapshotFiles \cup {None}
    BY <1>0 DEF Values, FileAt
  <2>2. ops \in [D -> Op]
    BY <1>3, <1>4, <2>1
  <2>3. D \in SUBSET Paths
    BY <1>3
  <2>4. ops \in UNION {[S -> Op] : S \in SUBSET Paths}
    BY <2>2, <2>3
  <2>5. DirectoriesToRemove(ops) \in SUBSET Paths /\ DirectoriesToCreate(ops) \in SUBSET Paths
    BY DEF DirectoriesToRemove, DirectoriesToCreate
  <2> HIDE DEF Op
  <2>6. plan' \in [kind : {"Restore", "Discard"}, requested : SUBSET Paths, selected : SUBSET Paths,
                   ops : UNION {[S -> Op] : S \in SUBSET Paths},
                   remove : SUBSET Paths, create : SUBSET Paths]
    BY <1>1, <1>3, <2>4, <2>5
  <2>7. QED
    BY <2>6 DEF PlanType, Op
<1>6. OpsPlanned'
  <2>1. ASSUME kind = "Discard", NEW p \in requested, NEW c \in Companion(p)
        PROVE  c \in selected \/ (snapshot[c] = None /\ origin[c] \notin Files)
    BY <1>0, <2>1, SelectionIsClosed, CompanionsArePaths DEF selected
  <2>2. QED
    BY <1>1, <1>2, <1>4, <2>1 DEF OpsPlanned, FileAt
<1>7. FoldersPlanned'
  <2>1. /\ Moved' = OfType(ops, {"Replace", "Delete"}) /\ Published' = OfType(ops, {"Restore", "Replace"})
        /\ Retimed' = OfType(ops, {"SetMetadata"})
    BY <1>2 DEF Moved, Published, Retimed
  <2>2. /\ AfterPaths(ops) = Published' \cup Retimed' /\ BeforePaths(ops) = Moved' \cup Retimed'
        /\ OfType(ops, {"Delete"}) = Moved' \ Published'
    BY <2>1, Groups DEF OfType
  <2>3. /\ plan'.remove = {q \in Paths : /\ origin[q] = Dir
                                         /\ \E p \in Published' \cup Retimed' : q = p \/ q \in Below(p)}
        /\ plan'.create = {q \in Paths : /\ origin[q] # Dir
                                         /\ \E p \in Published' \cup Retimed' : q \in Above(p)}
    BY <1>0, <1>2, <2>2 DEF DirectoriesToRemove, DirectoriesToCreate
  <2>4. ASSUME NEW p \in AfterPaths(ops)
        PROVE  /\ origin[p] = Dir => \A q \in Below(p) : origin[q] \in Files => q \in OfType(ops, {"Delete"})
               /\ \A q \in Above(p) : origin[q] \in Files => q \in BeforePaths(ops)
    BY <1>0, <1>1 DEF TopologyUnplannable, FilesBelow, BlockedBy
  <2>5. QED
    BY <1>1, <2>2, <2>3, <2>4 DEF FoldersPlanned
<1>8. QED
  BY <1>1, <1>5, <1>6, <1>7

-----------------------------------------------------------------------------
(* Types. *)

(* Before the preview there is no plan. *)
LEMMA TypeInit == Init => TypeInv
<1> SUFFICES ASSUME Init PROVE TypeInv
  OBVIOUS
<1>1. Values /\ Idle
  BY DEF Init, Values, Idle, Entries, Files, FileAt, Steps
<1>2. WellFormed(tree) /\ WellFormed(origin) /\ SnapshotWhole
  BY DEF Init, SnapshotWhole
<1>3. TodoKnown /\ Planned
  BY DEF Init, TodoKnown, Planned
<1>4. QED
  BY <1>1, <1>2, <1>3 DEF TypeInv

(* A plan is what was frozen of the tree that the preview saw, and stays   *)
(* so.                                                                     *)
LEMMA TypeStep == TypeInv /\ [Next]_vars => TypeInv'
<1> SUFFICES ASSUME TypeInv, [Next]_vars PROVE TypeInv'
  OBVIOUS
<1>0. Values /\ SnapshotWhole /\ WellFormed(tree) /\ WellFormed(origin)
  BY DEF TypeInv
<1>1. Values' /\ TodoKnown' /\ WellFormed(tree')
  BY ValuesStay, TodoStays, TreeStaysWhole
<1>2. CASE pc # "idle"
  <2>1. UNCHANGED <<snapshot, plan, origin>> /\ pc' # "idle"
    BY <1>0, <1>2, PlanStays
  <2>2. plan \in PlanType /\ OpsPlanned /\ FoldersPlanned
    BY <1>2 DEF TypeInv, Planned
  <2>3. OpsPlanned' /\ FoldersPlanned'
    BY <2>1, <2>2, GroupsStay DEF OpsPlanned, FoldersPlanned, FileAt
  <2>4. QED
    BY <1>0, <1>1, <2>1, <2>2, <2>3 DEF TypeInv, Planned, Idle, SnapshotWhole
<1>3. CASE pc = "idle" /\ UNCHANGED vars
  <2>1. Idle' /\ Planned'
    BY <1>3 DEF TypeInv, Idle, Planned, FileAt, vars, tx, user
  <2>2. QED
    BY <1>0, <1>1, <1>3, <2>1 DEF TypeInv, SnapshotWhole, vars, user
<1>4. ASSUME NEW kind \in {"Restore", "Discard"}, NEW requested \in SUBSET Paths,
             Preview(kind, requested)
      PROVE  TypeInv'
  <2>1. /\ plan' \in PlanType /\ OpsPlanned' /\ FoldersPlanned'
        /\ UNCHANGED <<snapshot, origin, tree>> /\ pc' = "previewed"
    BY <1>4, PreviewPlans
  <2>2. QED
    BY <1>0, <1>1, <2>1 DEF TypeInv, Planned, Idle, SnapshotWhole
<1>5. CASE pc = "idle" /\ Next
  BY <1>4, <1>5 DEF Next, Apply, Recover, User, Kill, validate_discard_request_scope,
     validate_expected_plan, BeginApplying, CancelStaging, EndOfStep, Done, BackupFile, Item,
     RemoveSource, RemoveDirectory, remove_project_directory, CreateDirectory, PublishFile,
     SetMtime, RecoverStaged, RecoverOne, EnsureBeforeStateRestored, EndOfRollbackStep,
     RemoveAfter, RemoveCreated, RecreateRemoved, RestoreBefore, RestoreMtime, SaveFile,
     MakeFolder, Delete, Edited, ApplySteps, RollbackSteps
<1>6. QED
  BY <1>2, <1>3, <1>5

(* The tree stays one that a file system can hold, whatever is applied,    *)
(* rolled back or edited: no step leaves an entry whose folder is missing  *)
(* or is a file.                                                           *)
THEOREM PlanTypeCorrect == Spec => []TypeOK
<1>1. TypeInv => TypeOK
  BY DEF TypeInv, TypeOK, Values, Steps, Planned, Idle
<1>2. QED
  BY <1>1, TypeInit, TypeStep, PTL DEF Spec

-----------------------------------------------------------------------------
(* The files of the user. *)

(* What the user left at a path is moved away only into the backup or to   *)
(* the copies set aside.                                                   *)
LEMMA NothingLost ==
    ASSUME TypeInv, FilesInv, [Next]_vars
    PROVE  NoFileLost'
<1> USE PlanAssumption
<1>0. /\ Values /\ TodoKnown /\ Idle
      /\ NoFileLost /\ OthersKept /\ NotBackedUp /\ AsLeft
      /\ pc # "idle" => \A r \in Paths : Kinds(r)
  BY OpKinds DEF TypeInv, Planned, FilesInv
<1>1. ASSUME NEW kind \in {"Restore", "Discard"}, NEW requested \in SUBSET Paths,
             Preview(kind, requested)
      PROVE  NoFileLost'
  BY <1>0, <1>1 DEF NoFileLost, Holds, Preview, user
<1>2. ASSUME NEW p \in Paths, BackupFile(p) PROVE NoFileLost'
  BY <1>0, <1>2 DEF NoFileLost, NotBackedUp, Holds, Values, BackupFile, Item, Did, Fail, user,
     FailWith
<1>3. ASSUME NEW p \in Paths, RemoveSource(p) PROVE NoFileLost'
  BY <1>0, <1>3 DEF NoFileLost, Holds, Values, RemoveSource, Item, Did, Fail, user, FailWith
<1>4. ASSUME NEW p \in Paths, RemoveDirectory(p) PROVE NoFileLost'
  BY <1>0, <1>4 DEF NoFileLost, Holds, Values, CanRemoveDirectory, RemoveDirectory,
     remove_project_directory, Item, Did, Fail, user, FailWith
<1>5. ASSUME NEW p \in Paths, CreateDirectory(p) PROVE NoFileLost'
  <2>1. \A q \in Paths : tree[q] \in Files => tree'[q] = tree[q]
    BY <1>0, <1>5 DEF Values, BlockedBy, CreateDirectory, Item, Did, Fail, user, FailWith
  <2>2. UNCHANGED <<mine, backup, preserved>>
    BY <1>5 DEF CreateDirectory, Item, Did, Fail, user, FailWith
  <2>3. QED
    BY <1>0, <2>1, <2>2 DEF NoFileLost, Holds
<1>6. ASSUME NEW p \in Paths, PublishFile(p) PROVE NoFileLost'
  <2>1. \A q \in Paths : tree[q] \in Files => tree'[q] = tree[q]
    BY <1>0, <1>6 DEF Values, BlockedBy, PublishFile, Item, Did, FailWith, user
  <2>2. UNCHANGED <<mine, backup, preserved>>
    BY <1>6 DEF PublishFile, Item, Did, FailWith, user
  <2>3. QED
    BY <1>0, <2>1, <2>2 DEF NoFileLost, Holds
<1>7. ASSUME NEW p \in Paths, SetMtime(p) PROVE NoFileLost'
  <2>1. Kinds(p) /\ p \in Retimed
    BY <1>0, <1>7, Groups DEF TodoKnown, Kinds, Retimed, SetMtime, Item
  <2>2. /\ plan.ops[p].before \in Files /\ plan.ops[p].after \in Files
        /\ plan.ops[p].before.data = plan.ops[p].after.data
    BY <2>1 DEF Kinds, FileAt
  <2>3. QED
    BY <1>0, <1>7, <2>2 DEF NoFileLost, Holds, Values, SetMtime, Item, Did, Fail, user, FailWith
<1>8. ASSUME NEW p \in Paths, RemoveAfter(p) PROVE NoFileLost'
  BY <1>0, <1>8 DEF NoFileLost, Holds, Values, RemoveAfter, Item, user, Did, Fail, FailWith
<1>9. ASSUME NEW p \in Paths, RemoveCreated(p) PROVE NoFileLost'
  BY <1>0, <1>9 DEF NoFileLost, Holds, Values, CanRemoveDirectory, RemoveCreated, Item,
     remove_project_directory, Did, Fail, user, FailWith
<1>10. ASSUME NEW p \in Paths, RecreateRemoved(p) PROVE NoFileLost'
  BY <1>0, <1>10 DEF NoFileLost, Holds, Values, CanRemoveDirectory, RecreateRemoved, Item,
     Did, Fail, user, FailWith
<1>11. ASSUME NEW p \in Paths, RestoreBefore(p) PROVE NoFileLost'
  <2>1. plan.ops[p].before \in Files
    BY <1>0, <1>11 DEF TodoKnown, Kinds, FileAt, RestoreBefore, Item
  <2>2. QED
    BY <1>0, <1>11, <2>1 DEF NoFileLost, Holds, Values, RestoreBefore, Item, Did, Fail, user,
       FailWith
<1>12. ASSUME NEW p \in Paths, RestoreMtime(p) PROVE NoFileLost'
  <2>1. Kinds(p) /\ p \in Retimed
    BY <1>0, <1>12, Groups DEF TodoKnown, Kinds, Retimed, RestoreMtime, Item
  <2>2. /\ plan.ops[p].before \in Files /\ plan.ops[p].after \in Files
        /\ plan.ops[p].before.data = plan.ops[p].after.data
    BY <2>1 DEF Kinds, FileAt
  <2>3. QED
    BY <1>0, <1>12, <2>2 DEF NoFileLost, Holds, Values, RestoreMtime, Item, Did, Fail, user,
       FailWith
<1>13. ASSUME NEW p \in Paths, NEW f \in UserFiles, SaveFile(p, f) PROVE NoFileLost'
  BY <1>0, <1>13 DEF NoFileLost, Holds, Values, FileAt, SaveFile, Edited, tx
<1>14. ASSUME NEW p \in Paths, MakeFolder(p) PROVE NoFileLost'
  BY <1>0, <1>14 DEF NoFileLost, Holds, Values, FileAt, MakeFolder, Edited, tx
<1>15. ASSUME NEW p \in Paths, Delete(p) PROVE NoFileLost'
  BY <1>0, <1>15 DEF NoFileLost, Holds, Values, FileAt, Delete, Edited, tx
<1>16. CASE \/ validate_discard_request_scope \/ validate_expected_plan
            \/ BeginApplying \/ CancelStaging
  BY <1>0, <1>16 DEF NoFileLost, Holds, validate_discard_request_scope, Reject,
     validate_expected_plan, BeginApplying, Phase, CancelStaging, user
<1>17. CASE \/ EndOfStep \/ Kill \/ RecoverStaged \/ RecoverOne
  BY <1>0, <1>17 DEF NoFileLost, Holds, EndOfStep, Done, Phase, Kill, RecoverStaged,
     RecoverOne, user
<1>18. CASE \/ EnsureBeforeStateRestored \/ EndOfRollbackStep
  BY <1>0, <1>18 DEF NoFileLost, Holds, EnsureBeforeStateRestored, Fail, FailWith,
     EndOfRollbackStep, Done, Phase, user
<1>19. CASE UNCHANGED vars
  BY <1>0, <1>19 DEF NoFileLost, Holds, vars, tx, user
<1>20. QED
  BY <1>1, <1>2, <1>3, <1>4, <1>5, <1>6, <1>7, <1>8, <1>9, <1>10, <1>11, <1>12, <1>13, <1>14,
     <1>15, <1>16, <1>17, <1>18, <1>19 DEF Next, Apply, Recover, User

(* A step changes the file of an operation, or no file. *)
LEMMA OutsideStays ==
    ASSUME TypeInv, FilesInv, [Next]_vars
    PROVE  OthersKept'
<1> USE PlanAssumption
<1>0. /\ Values /\ TodoKnown /\ Idle
      /\ NoFileLost /\ OthersKept /\ NotBackedUp /\ AsLeft
      /\ pc # "idle" => \A r \in Paths : Kinds(r)
  BY OpKinds DEF TypeInv, Planned, FilesInv
<1>1. ASSUME NEW kind \in {"Restore", "Discard"}, NEW requested \in SUBSET Paths,
             Preview(kind, requested)
      PROVE  OthersKept'
  <2>1. /\ plan' \in PlanType /\ OpsPlanned' /\ FoldersPlanned'
        /\ UNCHANGED <<snapshot, origin, tree, mine>> /\ pc = "idle"
    BY <1>1, PreviewPlans DEF Preview, user
  <2>2. QED
    BY <1>0, <2>1 DEF OthersKept, Idle, FileAt
<1>2. ASSUME NEW p \in Paths, RemoveSource(p) PROVE OthersKept'
  <2>1. p \in DOMAIN plan.ops
    BY <1>0, <1>2 DEF TodoKnown, Kinds, Item, RemoveSource
  <2>2. \A q \in Paths \ {p} : FileAt(tree, q)' = FileAt(tree, q)
    BY <1>0, <1>2 DEF Values, FileAt, BlockedBy, RemoveSource, Item, Did, Fail, user, FailWith
  <2>3. UNCHANGED <<mine, plan>> /\ pc # "idle"
    BY <1>2 DEF RemoveSource, Item, Did, Fail, user, FailWith
  <2>4. QED
    BY <1>0, <2>1, <2>2, <2>3 DEF OthersKept
<1>3. ASSUME NEW p \in Paths, RemoveDirectory(p) PROVE OthersKept'
  <2>1. \A q \in Paths : FileAt(tree, q)' = FileAt(tree, q)
    BY <1>0, <1>3 DEF Values, FileAt, CanRemoveDirectory, RemoveDirectory,
       remove_project_directory, Item, Did, Fail, user, FailWith
  <2>2. UNCHANGED <<mine, plan>> /\ pc # "idle"
    BY <1>3 DEF RemoveDirectory, remove_project_directory, Item, Did, Fail, user, FailWith
  <2>3. QED
    BY <1>0, <2>1, <2>2 DEF OthersKept
<1>4. ASSUME NEW p \in Paths, CreateDirectory(p) PROVE OthersKept'
  <2>1. \A q \in Paths : FileAt(tree, q)' = FileAt(tree, q)
    BY <1>0, <1>4 DEF Values, FileAt, CanRemoveDirectory, CreateDirectory, Item, Did, Fail,
       user, FailWith
  <2>2. UNCHANGED <<mine, plan>> /\ pc # "idle"
    BY <1>4 DEF CreateDirectory, Item, Did, Fail, user, FailWith
  <2>3. QED
    BY <1>0, <2>1, <2>2 DEF OthersKept
<1>5. ASSUME NEW p \in Paths, PublishFile(p) PROVE OthersKept'
  <2>1. p \in DOMAIN plan.ops
    BY <1>0, <1>5 DEF TodoKnown, Kinds, Item, PublishFile
  <2>2. \A q \in Paths \ {p} : FileAt(tree, q)' = FileAt(tree, q)
    BY <1>0, <1>5 DEF Values, FileAt, BlockedBy, PublishFile, Item, Did, FailWith, user
  <2>3. UNCHANGED <<mine, plan>> /\ pc # "idle"
    BY <1>5 DEF PublishFile, Item, Did, FailWith, user
  <2>4. QED
    BY <1>0, <2>1, <2>2, <2>3 DEF OthersKept
<1>6. ASSUME NEW p \in Paths, SetMtime(p) PROVE OthersKept'
  <2>1. p \in DOMAIN plan.ops
    BY <1>0, <1>6 DEF TodoKnown, Kinds, Item, SetMtime
  <2>2. \A q \in Paths \ {p} : FileAt(tree, q)' = FileAt(tree, q)
    BY <1>0, <1>6 DEF Values, FileAt, BlockedBy, SetMtime, Item, Did, Fail, user, FailWith
  <2>3. UNCHANGED <<mine, plan>> /\ pc # "idle"
    BY <1>6 DEF SetMtime, Item, Did, Fail, user, FailWith
  <2>4. QED
    BY <1>0, <2>1, <2>2, <2>3 DEF OthersKept
<1>7. ASSUME NEW p \in Paths, RemoveAfter(p) PROVE OthersKept'
  <2>1. p \in DOMAIN plan.ops
    BY <1>0, <1>7 DEF TodoKnown, Kinds, Item, RemoveAfter
  <2>2. \A q \in Paths \ {p} : FileAt(tree, q)' = FileAt(tree, q)
    BY <1>0, <1>7 DEF Values, FileAt, BlockedBy, RemoveAfter, Item, user, Did, Fail, FailWith
  <2>3. UNCHANGED <<mine, plan>> /\ pc # "idle"
    BY <1>7 DEF RemoveAfter, Item, user, Did, Fail, FailWith
  <2>4. QED
    BY <1>0, <2>1, <2>2, <2>3 DEF OthersKept
<1>8. ASSUME NEW p \in Paths, RemoveCreated(p) PROVE OthersKept'
  <2>1. \A q \in Paths : FileAt(tree, q)' = FileAt(tree, q)
    BY <1>0, <1>8 DEF Values, FileAt, CanRemoveDirectory, RemoveCreated, Item,
       remove_project_directory, Did, Fail, user, FailWith
  <2>2. UNCHANGED <<mine, plan>> /\ pc # "idle"
    BY <1>8 DEF RemoveCreated, Item, remove_project_directory, Did, Fail, user, FailWith
  <2>3. QED
    BY <1>0, <2>1, <2>2 DEF OthersKept
<1>9. ASSUME NEW p \in Paths, RecreateRemoved(p) PROVE OthersKept'
  <2>1. \A q \in Paths : FileAt(tree, q)' = FileAt(tree, q)
    BY <1>0, <1>9 DEF Values, FileAt, CanRemoveDirectory, RecreateRemoved, Item, Did, Fail,
       user, FailWith
  <2>2. UNCHANGED <<mine, plan>> /\ pc # "idle"
    BY <1>9 DEF RecreateRemoved, Item, Did, Fail, user, FailWith
  <2>3. QED
    BY <1>0, <2>1, <2>2 DEF OthersKept
<1>10. ASSUME NEW p \in Paths, RestoreBefore(p) PROVE OthersKept'
  <2>1. p \in DOMAIN plan.ops
    BY <1>0, <1>10 DEF TodoKnown, Kinds, Item, RestoreBefore
  <2>2. \A q \in Paths \ {p} : FileAt(tree, q)' = FileAt(tree, q)
    BY <1>0, <1>10 DEF Values, FileAt, BlockedBy, RestoreBefore, Item, Did, Fail, user, FailWith
  <2>3. UNCHANGED <<mine, plan>> /\ pc # "idle"
    BY <1>10 DEF RestoreBefore, Item, Did, Fail, user, FailWith
  <2>4. QED
    BY <1>0, <2>1, <2>2, <2>3 DEF OthersKept
<1>11. ASSUME NEW p \in Paths, RestoreMtime(p) PROVE OthersKept'
  <2>1. p \in DOMAIN plan.ops
    BY <1>0, <1>11 DEF TodoKnown, Kinds, Item, RestoreMtime
  <2>2. \A q \in Paths \ {p} : FileAt(tree, q)' = FileAt(tree, q)
    BY <1>0, <1>11 DEF Values, FileAt, BlockedBy, RestoreMtime, Item, Did, Fail, user, FailWith
  <2>3. UNCHANGED <<mine, plan>> /\ pc # "idle"
    BY <1>11 DEF RestoreMtime, Item, Did, Fail, user, FailWith
  <2>4. QED
    BY <1>0, <2>1, <2>2, <2>3 DEF OthersKept
<1>12. ASSUME NEW p \in Paths, NEW f \in UserFiles, SaveFile(p, f) PROVE OthersKept'
  BY <1>0, <1>12 DEF OthersKept, Values, FileAt, SaveFile, Edited, tx
<1>13. ASSUME NEW p \in Paths, MakeFolder(p) PROVE OthersKept'
  BY <1>0, <1>13 DEF OthersKept, Values, FileAt, MakeFolder, Edited, tx
<1>14. ASSUME NEW p \in Paths, Delete(p) PROVE OthersKept'
  BY <1>0, <1>14 DEF OthersKept, Values, FileAt, Delete, Edited, tx
<1>15. CASE \/ validate_discard_request_scope \/ validate_expected_plan
            \/ BeginApplying \/ CancelStaging
  BY <1>0, <1>15 DEF OthersKept, FileAt, ApplySteps, RollbackSteps,
     validate_discard_request_scope, Reject, validate_expected_plan, BeginApplying, Phase,
     CancelStaging, user
<1>16. CASE \/ (\E p \in Paths : BackupFile(p)) \/ EndOfStep \/ Kill
            \/ RecoverStaged
  BY <1>0, <1>16 DEF OthersKept, FileAt, ApplySteps, RollbackSteps, BackupFile, Item, Did,
     Fail, FailWith, EndOfStep, Done, Phase, Kill, RecoverStaged, user
<1>17. CASE \/ RecoverOne \/ EnsureBeforeStateRestored \/ EndOfRollbackStep
  BY <1>0, <1>17 DEF OthersKept, FileAt, ApplySteps, RollbackSteps, RecoverOne, Phase,
     EnsureBeforeStateRestored, Fail, FailWith, EndOfRollbackStep, Done, user
<1>18. CASE UNCHANGED vars
  BY <1>0, <1>18 DEF OthersKept, FileAt, ApplySteps, RollbackSteps, vars, tx, user
<1>19. QED
  BY <1>1, <1>2, <1>3, <1>4, <1>5, <1>6, <1>7, <1>8, <1>9, <1>10, <1>11, <1>12, <1>13, <1>14,
     <1>15, <1>16, <1>17, <1>18 DEF Next, Apply, Recover, User

(* No file is backed up twice. *)
LEMMA BackupsStay ==
    ASSUME TypeInv, FilesInv, [Next]_vars
    PROVE  NotBackedUp'
<1> USE PlanAssumption
<1>0. /\ Values /\ TodoKnown /\ Idle
      /\ NoFileLost /\ OthersKept /\ NotBackedUp /\ AsLeft
      /\ pc # "idle" => \A r \in Paths : Kinds(r)
  BY OpKinds DEF TypeInv, Planned, FilesInv
<1>1. ASSUME NEW kind \in {"Restore", "Discard"}, NEW requested \in SUBSET Paths,
             Preview(kind, requested)
      PROVE  NotBackedUp'
  BY <1>0, <1>1 DEF NotBackedUp, Idle, Preview, user
<1>2. ASSUME NEW p \in Paths, BackupFile(p) PROVE NotBackedUp'
  BY <1>0, <1>2 DEF NotBackedUp, Values, BackupFile, Item, Did, Fail, user, FailWith
<1>3. CASE EndOfStep
  BY <1>0, <1>3 DEF NotBackedUp, Values, EndOfStep, Done, Phase, user
<1>4. ASSUME NEW p \in Paths, RemoveAfter(p) PROVE NotBackedUp'
  BY <1>0, <1>4 DEF NotBackedUp, Values, RemoveAfter, Item, user, Did, Fail, FailWith
<1>5. ASSUME NEW p \in Paths, RemoveCreated(p) PROVE NotBackedUp'
  BY <1>0, <1>5 DEF NotBackedUp, Values, RemoveCreated, Item, remove_project_directory, Did,
     Fail, user, FailWith
<1>6. CASE EndOfRollbackStep
  BY <1>0, <1>6 DEF NotBackedUp, Values, EndOfRollbackStep, Done, Phase, user
<1>7. CASE \/ validate_discard_request_scope \/ validate_expected_plan
           \/ BeginApplying \/ CancelStaging
  BY <1>0, <1>7 DEF NotBackedUp, Values, validate_discard_request_scope, Reject,
     validate_expected_plan, BeginApplying, Phase, CancelStaging, user
<1>8. CASE \/ (\E p \in Paths : RemoveSource(p))
           \/ (\E p \in Paths : RemoveDirectory(p))
           \/ (\E p \in Paths : CreateDirectory(p))
           \/ (\E p \in Paths : PublishFile(p))
  BY <1>0, <1>8 DEF NotBackedUp, Values, RemoveSource, Item, Did, Fail, FailWith,
     RemoveDirectory, remove_project_directory, CreateDirectory, PublishFile, user
<1>9. CASE \/ (\E p \in Paths : SetMtime(p)) \/ Kill \/ RecoverStaged
           \/ RecoverOne
  BY <1>0, <1>9 DEF NotBackedUp, Values, SetMtime, Item, Did, Fail, FailWith, Kill,
     RecoverStaged, RecoverOne, Phase, user
<1>10. CASE \/ (\E p \in Paths : RecreateRemoved(p))
            \/ (\E p \in Paths : RestoreBefore(p))
            \/ (\E p \in Paths : RestoreMtime(p)) \/ EnsureBeforeStateRestored
  BY <1>0, <1>10 DEF NotBackedUp, Values, RecreateRemoved, Item, Did, Fail, FailWith,
     RestoreBefore, RestoreMtime, EnsureBeforeStateRestored, user
<1>11. CASE \/ (\E p \in Paths, f \in UserFiles : SaveFile(p, f))
            \/ (\E p \in Paths : MakeFolder(p))
            \/ (\E p \in Paths : Delete(p))
  BY <1>0, <1>11 DEF NotBackedUp, Values, SaveFile, Edited, MakeFolder, Delete, tx
<1>12. CASE UNCHANGED vars
  BY <1>0, <1>12 DEF NotBackedUp, Values, vars, tx, user
<1>13. QED
  BY <1>1, <1>2, <1>3, <1>4, <1>5, <1>6, <1>7, <1>8, <1>9, <1>10, <1>11, <1>12
     DEF Next, Apply, Recover, User

(* Before the first removal only the user changes files. *)
LEMMA AsLeftStays ==
    ASSUME TypeInv, FilesInv, [Next]_vars
    PROVE  AsLeft'
<1> USE PlanAssumption
<1>0. /\ Values /\ TodoKnown /\ Idle
      /\ NoFileLost /\ OthersKept /\ NotBackedUp /\ AsLeft
      /\ pc # "idle" => \A r \in Paths : Kinds(r)
  BY OpKinds DEF TypeInv, Planned, FilesInv
<1>1. ASSUME NEW kind \in {"Restore", "Discard"}, NEW requested \in SUBSET Paths,
             Preview(kind, requested)
      PROVE  AsLeft'
  BY <1>0, <1>1 DEF AsLeft, Idle, FileAt, Preview, user
<1>2. ASSUME NEW p \in Paths, BackupFile(p) PROVE AsLeft'
  BY <1>0, <1>2 DEF AsLeft, Unapplied, FileAt, ApplySteps, RollbackSteps, BackupFile, Item,
     Did, Fail, user, FailWith
<1>3. ASSUME NEW p \in Paths, PublishFile(p) PROVE AsLeft'
  BY <1>0, <1>3 DEF AsLeft, Unapplied, FileAt, ApplySteps, RollbackSteps, PublishFile, Item,
     Did, FailWith, user
<1>4. ASSUME NEW p \in Paths, SetMtime(p) PROVE AsLeft'
  BY <1>0, <1>4 DEF AsLeft, Unapplied, FileAt, ApplySteps, RollbackSteps, SetMtime, Item, Did,
     Fail, user, FailWith
<1>5. CASE EndOfStep
  BY <1>0, <1>5 DEF AsLeft, Unapplied, FileAt, ApplySteps, RollbackSteps, EndOfStep, Done,
     Phase, user
<1>6. CASE Kill
  BY <1>0, <1>6 DEF AsLeft, Unapplied, FileAt, ApplySteps, RollbackSteps, Kill, user
<1>7. ASSUME NEW p \in Paths, RemoveAfter(p) PROVE AsLeft'
  BY <1>0, <1>7 DEF AsLeft, Unapplied, FileAt, ApplySteps, RollbackSteps, RemoveAfter, Item,
     user, Did, Fail, FailWith
<1>8. ASSUME NEW p \in Paths, RemoveCreated(p) PROVE AsLeft'
  BY <1>0, <1>8 DEF AsLeft, Unapplied, FileAt, ApplySteps, RollbackSteps, RemoveCreated, Item,
     remove_project_directory, Did, Fail, user, FailWith
<1>9. CASE EndOfRollbackStep
  BY <1>0, <1>9 DEF AsLeft, Unapplied, FileAt, ApplySteps, RollbackSteps, EndOfRollbackStep,
     Done, Phase, user
<1>10. ASSUME NEW p \in Paths, NEW f \in UserFiles, SaveFile(p, f) PROVE AsLeft'
  BY <1>0, <1>10 DEF AsLeft, Unapplied, Values, FileAt, SaveFile, Edited, tx
<1>11. ASSUME NEW p \in Paths, MakeFolder(p) PROVE AsLeft'
  BY <1>0, <1>11 DEF AsLeft, Unapplied, Values, FileAt, MakeFolder, Edited, tx
<1>12. ASSUME NEW p \in Paths, Delete(p) PROVE AsLeft'
  BY <1>0, <1>12 DEF AsLeft, Unapplied, Values, FileAt, Delete, Edited, tx
<1>13. CASE \/ validate_discard_request_scope \/ validate_expected_plan
            \/ BeginApplying \/ CancelStaging
  BY <1>0, <1>13 DEF AsLeft, Unapplied, FileAt, ApplySteps, RollbackSteps,
     validate_discard_request_scope, Reject, validate_expected_plan, BeginApplying, Phase,
     CancelStaging, user
<1>14. CASE \/ (\E p \in Paths : RemoveSource(p))
            \/ (\E p \in Paths : RemoveDirectory(p))
            \/ (\E p \in Paths : CreateDirectory(p)) \/ RecoverStaged
  BY <1>0, <1>14 DEF AsLeft, Unapplied, FileAt, ApplySteps, RollbackSteps, RemoveSource, Item,
     Did, Fail, FailWith, RemoveDirectory, remove_project_directory, CreateDirectory,
     RecoverStaged, user
<1>15. CASE \/ RecoverOne \/ (\E p \in Paths : RecreateRemoved(p))
            \/ (\E p \in Paths : RestoreBefore(p))
            \/ (\E p \in Paths : RestoreMtime(p))
  BY <1>0, <1>15 DEF AsLeft, Unapplied, FileAt, ApplySteps, RollbackSteps, RecoverOne, Phase,
     RecreateRemoved, Item, Did, Fail, FailWith, RestoreBefore, RestoreMtime, user
<1>16. CASE \/ EnsureBeforeStateRestored
  BY <1>0, <1>16 DEF AsLeft, Unapplied, FileAt, ApplySteps, RollbackSteps,
     EnsureBeforeStateRestored, Fail, FailWith, user
<1>17. CASE UNCHANGED vars
  BY <1>0, <1>17 DEF AsLeft, Unapplied, FileAt, ApplySteps, RollbackSteps, vars, tx, user
<1>18. QED
  BY <1>1, <1>2, <1>3, <1>4, <1>5, <1>6, <1>7, <1>8, <1>9, <1>10, <1>11, <1>12, <1>13, <1>14,
     <1>15, <1>16, <1>17 DEF Next, Apply, Recover, User

(* Initially the files are as the user left them. *)
LEMMA FilesInit == Init => FilesInv
<1> SUFFICES ASSUME Init PROVE FilesInv
  OBVIOUS
<1>1. NoFileLost
  BY PlanAssumption DEF Init, NoFileLost, Holds, FileAt
<1>2. OthersKept /\ NotBackedUp /\ AsLeft
  BY DEF Init, OthersKept, NotBackedUp, AsLeft, Unapplied
<1>3. QED
  BY <1>1, <1>2 DEF FilesInv

(* Every step keeps account of them. *)
LEMMA FilesStep == TypeInv /\ FilesInv /\ [Next]_vars => FilesInv'
BY NothingLost, OutsideStays, BackupsStay, AsLeftStays DEF FilesInv

(* What the user last left at a path is in the tree, in the backup or in   *)
(* the copies recovery sets aside, whatever Unity and the user save while  *)
(* the plan is applied and rolled back.                                    *)
THEOREM NoFileIsLost == Spec => []NoFileLost
<1>1. FilesInv => NoFileLost
  BY DEF FilesInv
<1>2. QED
  BY <1>1, TypeInit, TypeStep, FilesInit, FilesStep, PTL DEF Spec

(* A path outside the previewed operations keeps the file the user left,   *)
(* although folders around it come and go.                                 *)
THEOREM OutsideScopeIsUntouched == Spec => []OutsideScopeUntouched
<1>1. TypeInv /\ FilesInv => OutsideScopeUntouched
  BY DEF TypeInv, Idle, FilesInv, OthersKept, OutsideScopeUntouched
<1>2. QED
  BY <1>1, TypeInit, TypeStep, FilesInit, FilesStep, PTL DEF Spec

-----------------------------------------------------------------------------
(* What a commit leaves. *)

(* Each step of the apply leaves a file that the user left alone where the *)
(* commit expects it.                                                      *)
LEMMA ApplyStays ==
    ASSUME TypeInv, Applied, pc # "idle", [Next]_vars
    PROVE  Applied'
<1> USE PlanAssumption
<1>0. /\ Values /\ TodoKnown /\ Applied
      /\ UNCHANGED <<snapshot, plan, origin>> /\ \A r \in Paths : Kinds(r)
      /\ Moved' = Moved /\ Published' = Published /\ Retimed' = Retimed
  BY PlanStays, GroupsStay, OpKinds DEF TypeInv, Planned
<1>1. ASSUME NEW kind \in {"Restore", "Discard"}, NEW requested \in SUBSET Paths,
             Preview(kind, requested)
      PROVE  Applied'
  BY <1>1 DEF Preview, user
<1>2. CASE validate_expected_plan
  BY <1>0, <1>2 DEF Applied, validate_expected_plan, user, Reject
<1>3. ASSUME NEW p \in Paths, RemoveSource(p) PROVE Applied'
  BY <1>0, <1>3 DEF Applied, Values, TodoKnown, Entries, CanRemoveDirectory, RemoveSource,
     Item, Did, Fail, user, FailWith
<1>4. ASSUME NEW p \in Paths, RemoveDirectory(p) PROVE Applied'
  BY <1>0, <1>4 DEF Applied, Values, TodoKnown, Entries, CanRemoveDirectory, RemoveDirectory,
     remove_project_directory, Item, Did, Fail, user, FailWith
<1>5. ASSUME NEW p \in Paths, CreateDirectory(p) PROVE Applied'
  BY <1>0, <1>5 DEF Applied, Values, TodoKnown, Entries, CanRemoveDirectory, CreateDirectory,
     Item, Did, Fail, user, FailWith
<1>6. ASSUME NEW p \in Paths, PublishFile(p) PROVE Applied'
  <2>1. p \in Published \cup Retimed /\ Kinds(p)
    BY <1>0, <1>6 DEF TodoKnown, PublishFile, Item
  <2>2. plan.ops[p].after = snapshot[p]
    BY <2>1 DEF Kinds
  <2>3. \/ pc' = "pending"
        \/ /\ pc' = "publish" /\ todo' = todo \ {p} /\ tree'[p] = snapshot[p]
           /\ \A q \in Paths \ {p} : tree'[q] = tree[q] \/ (tree[q] \notin Files /\ tree'[q] = Dir)
    BY <1>0, <1>6, <2>2 DEF Values, Entries, BlockedBy, PublishFile, Item, Did, FailWith, user
  <2>4. pc = "publish" /\ UNCHANGED touched
    BY <1>6 DEF PublishFile, Item, Did, FailWith, user
  <2>5. QED
    BY <1>0, <2>1, <2>3, <2>4 DEF Applied, Kinds, Values
<1>7. ASSUME NEW p \in Paths, SetMtime(p) PROVE Applied'
  <2>1. p \in Published \cup Retimed /\ Kinds(p)
    BY <1>0, <1>7 DEF TodoKnown, SetMtime, Item
  <2>2. plan.ops[p].after = snapshot[p]
    BY <2>1 DEF Kinds
  <2>3. \/ pc' = "pending"
        \/ /\ pc' = "publish" /\ todo' = todo \ {p} /\ tree'[p] = snapshot[p]
           /\ \A q \in Paths \ {p} : tree'[q] = tree[q] \/ (tree[q] \notin Files /\ tree'[q] = Dir)
    BY <1>0, <1>7, <2>2 DEF Values, Entries, BlockedBy, SetMtime, Item, Did, Fail, user,
       FailWith
  <2>4. pc = "publish" /\ UNCHANGED touched
    BY <1>7 DEF SetMtime, Item, Did, Fail, user, FailWith
  <2>5. QED
    BY <1>0, <2>1, <2>3, <2>4 DEF Applied, Kinds, Values
<1>8. CASE EndOfStep
  <2>1. /\ AfterPaths(plan.ops) = Published \cup Retimed
        /\ OfType(plan.ops, {"Replace", "Delete"}) = Moved
    BY Groups DEF Moved, Published, Retimed
  <2>2. UNCHANGED <<tree, touched>> /\ todo = {}
    BY <1>8 DEF EndOfStep, Done, user
  <2>3. CASE pc \in {"backup", "removeDirectories"}
    BY <1>0, <1>8, <2>1, <2>2, <2>3 DEF Applied, EndOfStep, Done, Phase
  <2>4. CASE pc = "removeSources"
    BY <1>0, <1>8, <2>1, <2>2, <2>4 DEF Applied, EndOfStep, Done, Phase
  <2>5. CASE pc = "createDirectories"
    BY <1>0, <1>8, <2>1, <2>2, <2>5 DEF Applied, EndOfStep, Done, Phase
  <2>6. CASE pc = "publish"
    <3>1. pc' = "committed"
      BY <1>8, <2>6 DEF EndOfStep, Done, Phase
    <3>2. ASSUME NEW p \in Paths \ touched, p \in DOMAIN plan.ops
          PROVE  FileAt(tree, p) = snapshot[p]
      <4>1. Kinds(p)
        BY <1>0
      <4>2. CASE p \in Moved \ Published
        BY <1>0, <2>6, <4>1, <4>2 DEF Applied, Kinds, FileAt
      <4>3. CASE p \in Published \cup Retimed
        BY <1>0, <2>2, <2>6, <4>1, <4>3 DEF Applied, Kinds, FileAt
      <4>4. QED
        BY <3>2, <4>1, <4>2, <4>3 DEF Kinds
    <3>3. QED
      BY <1>0, <2>2, <3>1, <3>2 DEF Applied, FileAt
  <2>7. QED
    BY <1>8, <2>3, <2>4, <2>5, <2>6 DEF EndOfStep, Done
<1>9. CASE Kill
  BY <1>0, <1>9 DEF Applied, FileAt, Kill, user
<1>10. ASSUME NEW p \in Paths, RemoveAfter(p) PROVE Applied'
  BY <1>0, <1>10 DEF Applied, FileAt, RemoveAfter, Item, user, Did, Fail, FailWith
<1>11. ASSUME NEW p \in Paths, RemoveCreated(p) PROVE Applied'
  BY <1>0, <1>11 DEF Applied, FileAt, RemoveCreated, Item, remove_project_directory, Did,
     Fail, user, FailWith
<1>12. CASE EndOfRollbackStep
  BY <1>0, <1>12 DEF Applied, FileAt, EndOfRollbackStep, Done, Phase, user
<1>13. ASSUME NEW p \in Paths, NEW f \in UserFiles, SaveFile(p, f) PROVE Applied'
  BY <1>0, <1>13 DEF Applied, Values, FileAt, SaveFile, Edited, tx
<1>14. ASSUME NEW p \in Paths, MakeFolder(p) PROVE Applied'
  BY <1>0, <1>14 DEF Applied, Values, FileAt, MakeFolder, Edited, tx
<1>15. ASSUME NEW p \in Paths, Delete(p) PROVE Applied'
  BY <1>0, <1>15 DEF Applied, Values, FileAt, Delete, Edited, tx
<1>16. CASE \/ validate_discard_request_scope \/ BeginApplying
            \/ CancelStaging \/ (\E p \in Paths : BackupFile(p))
  BY <1>0, <1>16 DEF Applied, FileAt, validate_discard_request_scope, Reject, BeginApplying,
     Phase, CancelStaging, BackupFile, Item, Did, Fail, FailWith, user
<1>17. CASE \/ RecoverStaged \/ RecoverOne
            \/ (\E p \in Paths : RecreateRemoved(p))
            \/ (\E p \in Paths : RestoreBefore(p))
  BY <1>0, <1>17 DEF Applied, FileAt, RecoverStaged, RecoverOne, Phase, RecreateRemoved, Item,
     Did, Fail, FailWith, RestoreBefore, user
<1>18. CASE \/ (\E p \in Paths : RestoreMtime(p)) \/ EnsureBeforeStateRestored
  BY <1>0, <1>18 DEF Applied, FileAt, RestoreMtime, Item, Did, Fail, FailWith,
     EnsureBeforeStateRestored, user
<1>19. CASE UNCHANGED vars
  BY <1>0, <1>19 DEF Applied, FileAt, vars, tx, user
<1>20. QED
  BY <1>1, <1>2, <1>3, <1>4, <1>5, <1>6, <1>7, <1>8, <1>9, <1>10, <1>11, <1>12, <1>13, <1>14,
     <1>15, <1>16, <1>17, <1>18, <1>19 DEF Next, Apply, Recover, User

(* And so from the preview on. *)
LEMMA AppliedStep == TypeInv /\ Applied /\ [Next]_vars => Applied'
<1> SUFFICES ASSUME TypeInv, Applied, [Next]_vars, pc = "idle" PROVE Applied'
  BY ApplyStays
<1>1. ASSUME NEW kind, NEW requested, Preview(kind, requested) PROVE Applied'
  BY <1>1 DEF Applied, Preview
<1>2. CASE UNCHANGED vars
  BY <1>2 DEF Applied, vars, tx
<1>3. QED
  BY <1>1, <1>2 DEF Next, Apply, Recover, User, Kill, validate_discard_request_scope,
     validate_expected_plan, BeginApplying, CancelStaging, EndOfStep, Done, BackupFile, Item,
     RemoveSource, RemoveDirectory, remove_project_directory, CreateDirectory, PublishFile,
     SetMtime, RecoverStaged, RecoverOne, EnsureBeforeStateRestored, EndOfRollbackStep,
     RemoveAfter, RemoveCreated, RecreateRemoved, RestoreBefore, RestoreMtime, SaveFile,
     MakeFolder, Delete, Edited, ApplySteps, RollbackSteps

(* A committed restore leaves the files of the checkpoint and no other, a  *)
(* committed discard those of its selection, except where the user has     *)
(* edited since the preview.                                               *)
THEOREM CommitsAsPreviewed == Spec => []CommittedAsPreviewed
<1>1. Init => Applied
  BY DEF Init, Applied
<1>2. TypeInv /\ FilesInv /\ Applied => CommittedAsPreviewed
  <2> SUFFICES ASSUME TypeInv, FilesInv, Applied, pc = "committed", NEW p \in Paths \ touched
               PROVE  FileAt(tree, p) = IF p \in plan.selected THEN snapshot[p]
                                                              ELSE FileAt(origin, p)
    BY DEF CommittedAsPreviewed
  <2>1. Kinds(p)
    BY OpKinds DEF TypeInv, Planned
  <2>2. p \notin DOMAIN plan.ops => FileAt(tree, p) = FileAt(origin, p)
    BY DEF FilesInv, OthersKept, AsLeft
  <2>3. p \in DOMAIN plan.ops => FileAt(tree, p) = snapshot[p]
    BY DEF Applied
  <2>4. QED
    BY <2>1, <2>2, <2>3 DEF Kinds
<1>3. QED
  BY <1>1, <1>2, AppliedStep, TypeInit, TypeStep, FilesInit, FilesStep, PTL DEF Spec

(* A committed discard of an asset or of its .meta leaves the two as they  *)
(* are in the checkpoint.                                                  *)
THEOREM PairsAreKeptTogether == Spec => []PairsStayTogether
<1>1. TypeInv /\ CommittedAsPreviewed => PairsStayTogether
  <2> SUFFICES ASSUME TypeInv, CommittedAsPreviewed, pc = "committed", plan.kind = "Discard",
                      NEW p \in plan.requested, NEW c \in Paths \ touched, c \in Companion(p)
               PROVE  FileAt(tree, c) = snapshot[c]
    BY DEF PairsStayTogether
  <2>1. c \in plan.selected \/ (snapshot[c] = None /\ origin[c] \notin Files)
    BY DEF TypeInv, Planned, OpsPlanned
  <2>2. FileAt(tree, c) = IF c \in plan.selected THEN snapshot[c] ELSE FileAt(origin, c)
    BY DEF CommittedAsPreviewed
  <2>3. QED
    BY <2>1, <2>2 DEF FileAt
<1>2. QED
  BY <1>1, TypeInit, TypeStep, CommitsAsPreviewed, PTL DEF Spec

-----------------------------------------------------------------------------
(* When the user leaves the tree alone. *)

(* Where the folders to remove and to create lie: no operation writes a    *)
(* file above another, a folder in the way holds only what goes with it.   *)
FoldersFit ==
    /\ \A p \in Published \cup Retimed : \A q \in Above(p) :
         /\ q \notin Published \cup Retimed \cup plan.remove
         /\ origin[q] # Dir => q \in plan.create
         /\ origin[q] \in Files => q \in Moved
    /\ \A q \in plan.create :
         /\ origin[q] # Dir /\ q \notin Published \cup Retimed
         /\ origin[q] \in Files => q \in Moved
         /\ \A r \in Above(q) : /\ r \notin plan.remove
                                /\ origin[r] # Dir => r \in plan.create
                                /\ origin[r] \in Files => r \in Moved
    /\ \A q \in plan.remove :
         /\ origin[q] = Dir
         /\ \A r \in Below(q) : /\ origin[r] \in Files => r \in Moved
                                /\ origin[r] = Dir => r \in plan.remove

(* So the preview plans them. *)
LEMMA PlannedFoldersFit == TypeInv /\ pc # "idle" => FoldersFit
<1> SUFFICES ASSUME TypeInv, pc # "idle" PROVE FoldersFit
  OBVIOUS
<1> USE PlanAssumption
<1>0. /\ FoldersPlanned /\ SnapshotWhole /\ WellFormed(origin)
      /\ \A r \in Paths : Kinds(r)
      /\ Published \cup Retimed \subseteq Paths
  <2>1. Values /\ OpsPlanned /\ FoldersPlanned /\ SnapshotWhole /\ WellFormed(origin)
        /\ plan \in PlanType
    BY DEF TypeInv, Planned
  <2>2. DOMAIN plan.ops \subseteq Paths
    BY <2>1 DEF PlanType
  <2>3. QED
    BY <2>1, <2>2, OpKinds, Groups DEF Published, Retimed
<1>1. ASSUME NEW p \in Published \cup Retimed PROVE snapshot[p] # None
  BY <1>0 DEF Kinds
<1>2. ASSUME NEW p \in Published \cup Retimed, NEW q \in Above(p)
      PROVE  q \in Paths /\ q \notin Published \cup Retimed
  BY <1>0, <1>1 DEF SnapshotWhole, Above
<1>3. ASSUME NEW p \in Published \cup Retimed, NEW q \in Above(p), q \in plan.remove PROVE FALSE
  <2>1. PICK r \in Published \cup Retimed : q = r \/ q \in Below(r)
    BY <1>0, <1>3 DEF FoldersPlanned
  <2>2. r \in Above(p)
    BY <1>0, <1>2, <1>3, <2>1, Folders
  <2>3. QED
    BY <1>2, <2>2
<1>4. ASSUME NEW p \in Published \cup Retimed, NEW q \in Above(p)
      PROVE  /\ origin[q] # Dir => q \in plan.create
             /\ origin[q] \in Files => q \in Moved
  BY <1>0, <1>2 DEF FoldersPlanned
<1>5. ASSUME NEW q \in plan.create
      PROVE  /\ origin[q] # Dir /\ q \notin Published \cup Retimed
             /\ origin[q] \in Files => q \in Moved
             /\ \A r \in Above(q) : /\ r \notin plan.remove
                                    /\ origin[r] # Dir => r \in plan.create
                                    /\ origin[r] \in Files => r \in Moved
  <2>1. PICK p \in Published \cup Retimed : q \in Above(p)
    BY <1>0 DEF FoldersPlanned
  <2>2. q \in Paths /\ origin[q] # Dir
    BY <1>0 DEF FoldersPlanned
  <2>3. Above(q) \subseteq Above(p)
    BY <1>0, <2>1, <2>2, Folders
  <2>4. QED
    BY <1>2, <1>3, <1>4, <2>1, <2>2, <2>3
<1>6. ASSUME NEW q \in plan.remove
      PROVE  /\ origin[q] = Dir
             /\ \A r \in Below(q) : /\ origin[r] \in Files => r \in Moved
                                    /\ origin[r] = Dir => r \in plan.remove
  <2>1. q \in Paths /\ origin[q] = Dir
    BY <1>0 DEF FoldersPlanned
  <2>2. PICK p \in Published \cup Retimed : q = p \/ q \in Below(p)
    BY <1>0 DEF FoldersPlanned
  <2>3. p \in Paths /\ origin[p] = Dir
    BY <1>0, <2>1, <2>2, Folders DEF WellFormed
  <2>4. ASSUME NEW r \in Below(q) PROVE r \in Paths /\ r \in Below(p)
    BY <2>1, <2>2, <2>3, Folders DEF Below
  <2>5. QED
    BY <1>0, <2>1, <2>2, <2>3, <2>4 DEF FoldersPlanned
<1>7. QED
  BY <1>2, <1>3, <1>4, <1>5, <1>6 DEF FoldersFit

(* The preview sees the tree as it is. *)
LEMMA UndisturbedPreview ==
    ASSUME TypeInv, pc = "idle", [Next]_vars
    PROVE  UndisturbedInv'
<1>1. ASSUME NEW kind \in {"Restore", "Discard"}, NEW requested \in SUBSET Paths,
             Preview(kind, requested)
      PROVE  UndisturbedInv'
  <2>1. plan' \in PlanType /\ OpsPlanned' /\ FoldersPlanned'
        /\ tree' = origin' /\ pc' = "previewed"
    BY <1>1, PreviewPlans DEF TypeInv, Idle
  <2>2. QED
    BY <2>1 DEF UndisturbedInv, Placed, Forward, Backward, Unapplied, RollbackSteps
<1>2. CASE UNCHANGED vars
  BY <1>2 DEF UndisturbedInv, vars, tx
<1>3. QED
  BY <1>1, <1>2 DEF Next, Apply, Recover, User, Kill, validate_discard_request_scope,
     validate_expected_plan, BeginApplying, CancelStaging, EndOfStep, Done, BackupFile, Item,
     RemoveSource, RemoveDirectory, remove_project_directory, CreateDirectory, PublishFile,
     SetMtime, RecoverStaged, RecoverOne, EnsureBeforeStateRestored, EndOfRollbackStep,
     RemoveAfter, RemoveCreated, RecreateRemoved, RestoreBefore, RestoreMtime, SaveFile,
     MakeFolder, Delete, Edited, ApplySteps, RollbackSteps

(* The edits of the user are counted for good. *)
LEMMA TouchedGrows ==
    ASSUME TypeInv, [Next]_vars
    PROVE  touched \subseteq touched'
<1>1. ASSUME NEW kind \in {"Restore", "Discard"}, NEW requested \in SUBSET Paths,
             Preview(kind, requested)
      PROVE  touched \subseteq touched'
  BY <1>1 DEF TypeInv, Preview, user
<1>2. CASE \/ validate_discard_request_scope \/ validate_expected_plan
           \/ BeginApplying \/ CancelStaging
           \/ (\E p \in Paths : BackupFile(p))
           \/ (\E p \in Paths : RemoveSource(p))
           \/ (\E p \in Paths : RemoveDirectory(p))
           \/ (\E p \in Paths : CreateDirectory(p))
  BY <1>2 DEF TypeInv, validate_discard_request_scope, Reject, validate_expected_plan,
     BeginApplying, Phase, CancelStaging, BackupFile, Item, Did, Fail, FailWith, RemoveSource,
     RemoveDirectory, remove_project_directory, CreateDirectory, user
<1>3. CASE \/ (\E p \in Paths : PublishFile(p))
           \/ (\E p \in Paths : SetMtime(p)) \/ EndOfStep \/ Kill
           \/ RecoverStaged \/ RecoverOne \/ (\E p \in Paths : RemoveAfter(p))
           \/ (\E p \in Paths : RemoveCreated(p))
  BY <1>3 DEF TypeInv, PublishFile, Item, Did, FailWith, SetMtime, Fail, EndOfStep, Done,
     Phase, Kill, RecoverStaged, RecoverOne, RemoveAfter, RemoveCreated,
     remove_project_directory, user
<1>4. CASE \/ (\E p \in Paths : RecreateRemoved(p))
           \/ (\E p \in Paths : RestoreBefore(p))
           \/ (\E p \in Paths : RestoreMtime(p)) \/ EnsureBeforeStateRestored
           \/ EndOfRollbackStep
           \/ (\E p \in Paths, f \in UserFiles : SaveFile(p, f))
           \/ (\E p \in Paths : MakeFolder(p)) \/ (\E p \in Paths : Delete(p))
  BY <1>4 DEF TypeInv, RecreateRemoved, Item, Did, Fail, FailWith, RestoreBefore,
     RestoreMtime, EnsureBeforeStateRestored, EndOfRollbackStep, Done, Phase, SaveFile,
     Edited, MakeFolder, Delete, tx, user
<1>5. CASE UNCHANGED vars
  BY <1>5 DEF TypeInv, vars, tx, user
<1>6. QED
  BY <1>1, <1>2, <1>3, <1>4, <1>5
     DEF Next, Apply, Recover, User

(* A file that goes has a backup, a folder that comes or goes is planned.   *)
LEMMA PlacedStays ==
    ASSUME TypeInv, pc # "idle", touched' = {}, UndisturbedInv, NEW q \in Paths, [Next]_vars
    PROVE  Placed(q)'
<1> USE PlanAssumption
<1>0. /\ Values /\ Values' /\ TodoKnown /\ SnapshotWhole /\ FoldersFit /\ touched = {}
      /\ UNCHANGED <<snapshot, plan, origin>>
      /\ Moved' = Moved /\ Published' = Published /\ Retimed' = Retimed
      /\ \A r \in Paths : Kinds(r)
  BY TouchedGrows, PlanStays, GroupsStay, OpKinds, ValuesStay, PlannedFoldersFit
     DEF TypeInv, Planned
<1>a. \A r \in Paths : Placed(r) /\ Forward(r) /\ Backward(r)
  BY <1>0 DEF UndisturbedInv
<1>1. ASSUME NEW kind \in {"Restore", "Discard"}, NEW requested \in SUBSET Paths,
             Preview(kind, requested)
      PROVE  Placed(q)'
  BY <1>1 DEF Preview, user
<1>2. ASSUME NEW p \in Paths, BackupFile(p) PROVE Placed(q)'
  BY <1>0, <1>a, <1>2 DEF Placed, Forward, Unapplied, BackupFile, Item, Did, Fail, user,
     FailWith
<1>3. ASSUME NEW p \in Paths, RemoveSource(p) PROVE Placed(q)'
  <2>1. p \in Moved /\ origin[p] \in Files /\ backup[p] = origin[p]
    BY <1>0, <1>a, <1>3 DEF TodoKnown, Kinds, Forward, RemoveSource, Item
  <2>2. QED
    BY <1>0, <1>a, <1>3, <2>1 DEF Values, Placed, RemoveSource, Item, Did, Fail, user, FailWith
<1>4. ASSUME NEW p \in Paths, RemoveDirectory(p) PROVE Placed(q)'
  <2>1. p \in plan.remove /\ origin[p] = Dir
    BY <1>0, <1>a, <1>4 DEF TodoKnown, FoldersFit, RemoveDirectory, remove_project_directory,
       Item
  <2>2. QED
    BY <1>0, <1>a, <1>4, <2>1 DEF Values, CanRemoveDirectory, Placed, RemoveDirectory,
       remove_project_directory, Item, Did, Fail, user, FailWith
<1>5. ASSUME NEW p \in Paths, CreateDirectory(p) PROVE Placed(q)'
  <2>1. /\ p \in plan.create /\ origin[p] # Dir
        /\ p \in Retimed => snapshot[p] \in Files
    BY <1>0, <1>a, <1>5 DEF TodoKnown, FoldersFit, Kinds, CreateDirectory, Item
  <2>2. QED
    BY <1>0, <1>a, <1>5, <2>1 DEF Values, Placed, CreateDirectory, Item, Did, Fail, user,
       FailWith
<1>6. ASSUME NEW p \in Paths, PublishFile(p) PROVE Placed(q)'
  <2>1. p \in Published /\ plan.ops[p].after = snapshot[p] /\ snapshot[p] \in Files
    BY <1>0, <1>6, Groups DEF TodoKnown, Kinds, Retimed, Published, PublishFile, Item
  <2>2. UNCHANGED backup
    BY <1>6 DEF PublishFile, Item, Did, FailWith, user
  <2>3. CASE q = p
    <3>1. p \notin Above(p)
      BY Folders
    <3>2. tree'[p] = tree[p] \/ (tree[p] = None /\ tree'[p] = snapshot[p])
      BY <1>0, <1>6, <2>1, <3>1 DEF Values, PublishFile, Item, Did, FailWith, user
    <3>3. QED
      BY <1>0, <1>a, <2>1, <2>2, <2>3, <3>2 DEF Placed, Kinds
  <2>4. CASE q # p /\ q \in Above(p) /\ tree'[q] # tree[q]
    <3>1. tree'[q] = Dir /\ tree[q] \notin Files
      BY <1>0, <1>6, <2>4 DEF Values, BlockedBy, PublishFile, Item, Did, FailWith, user
    <3>2. origin[q] # Dir => q \in plan.create
      BY <1>0, <2>1, <2>4 DEF FoldersFit
    <3>3. QED
      BY <1>0, <1>a, <2>2, <3>1, <3>2 DEF Placed, Kinds
  <2>5. CASE tree'[q] = tree[q]
    BY <1>0, <1>a, <2>2, <2>5 DEF Placed
  <2>6. q = p \/ q \in Above(p) \/ tree'[q] = tree[q]
    BY <1>0, <1>6 DEF Values, PublishFile, Item, Did, FailWith, user
  <2>7. QED
    BY <2>3, <2>4, <2>5, <2>6
<1>7. ASSUME NEW p \in Paths, SetMtime(p) PROVE Placed(q)'
  <2>1. /\ p \in Retimed /\ plan.ops[p].after = snapshot[p]
        /\ origin[p] \in Files /\ snapshot[p] \in Files
    BY <1>0, <1>a, <1>7, Groups DEF TodoKnown, Kinds, Retimed, Published, SetMtime, Item
  <2>2. QED
    BY <1>0, <1>a, <1>7, <2>1 DEF Values, Placed, SetMtime, Item, Did, Fail, user, FailWith
<1>8. ASSUME NEW p \in Paths, RemoveAfter(p) PROVE Placed(q)'
  <2>1. /\ p \in Published /\ plan.ops[p].after = snapshot[p] /\ snapshot[p] \in Files
        /\ Kinds(p)
    BY <1>0, <1>8 DEF TodoKnown, Kinds, RemoveAfter, Item
  <2>2. UNCHANGED backup
    BY <1>8 DEF RemoveAfter, Item, user, Did, Fail, FailWith
  <2>3. \/ tree' = tree
        \/ tree' = [tree EXCEPT ![p] = None] /\ Holds(p, snapshot[p])
    BY <1>0, <1>8, <2>1 DEF Values, RemoveAfter, Item, user, Did, Fail, FailWith
  <2>4. QED
    BY <1>0, <1>a, <2>1, <2>2, <2>3 DEF Values, Placed, Kinds, Holds
<1>9. ASSUME NEW p \in Paths, RemoveCreated(p) PROVE Placed(q)'
  <2>1. /\ p \in plan.create /\ origin[p] # Dir
        /\ p \in Retimed => snapshot[p] \in Files
    BY <1>0, <1>a, <1>9 DEF TodoKnown, FoldersFit, Kinds, RemoveCreated, Item
  <2>2. QED
    BY <1>0, <1>a, <1>9, <2>1 DEF Values, CanRemoveDirectory, Placed, RemoveCreated, Item,
       remove_project_directory, Did, Fail, user, FailWith
<1>10. ASSUME NEW p \in Paths, RecreateRemoved(p) PROVE Placed(q)'
  <2>1. p \in plan.remove /\ origin[p] = Dir
    BY <1>0, <1>a, <1>10 DEF TodoKnown, FoldersFit, RecreateRemoved, Item
  <2>2. QED
    BY <1>0, <1>a, <1>10, <2>1 DEF Values, Placed, RecreateRemoved, Item, Did, Fail, user,
       FailWith
<1>11. ASSUME NEW p \in Paths, RestoreBefore(p) PROVE Placed(q)'
  <2>1. p \in Moved /\ origin[p] \in Files /\ plan.ops[p].before = origin[p]
    BY <1>0, <1>a, <1>11 DEF TodoKnown, Kinds, FileAt, RestoreBefore, Item
  <2>2. QED
    BY <1>0, <1>a, <1>11, <2>1 DEF Values, Placed, RestoreBefore, Item, Did, Fail, user,
       FailWith
<1>12. ASSUME NEW p \in Paths, RestoreMtime(p) PROVE Placed(q)'
  <2>1. p \in Retimed /\ origin[p] \in Files /\ plan.ops[p].before = origin[p]
    BY <1>0, <1>a, <1>12 DEF TodoKnown, Kinds, FileAt, RestoreMtime, Item
  <2>2. QED
    BY <1>0, <1>a, <1>12, <2>1 DEF Values, Placed, RestoreMtime, Item, Did, Fail, user, FailWith
<1>13. ASSUME NEW p \in Paths, NEW f \in UserFiles, SaveFile(p, f) PROVE Placed(q)'
  BY <1>0, <1>13 DEF SaveFile, Edited, tx
<1>14. ASSUME NEW p \in Paths, MakeFolder(p) PROVE Placed(q)'
  BY <1>0, <1>14 DEF MakeFolder, Edited, tx
<1>15. ASSUME NEW p \in Paths, Delete(p) PROVE Placed(q)'
  BY <1>0, <1>15 DEF Delete, Edited, tx
<1>16. CASE \/ validate_discard_request_scope \/ validate_expected_plan
            \/ BeginApplying \/ CancelStaging
  BY <1>0, <1>a, <1>16 DEF Placed, validate_discard_request_scope, Reject,
     validate_expected_plan, BeginApplying, Phase, CancelStaging, user
<1>17. CASE \/ EndOfStep \/ Kill \/ RecoverStaged \/ RecoverOne
  BY <1>0, <1>a, <1>17 DEF Placed, EndOfStep, Done, Phase, Kill, RecoverStaged, RecoverOne, user
<1>18. CASE \/ EnsureBeforeStateRestored \/ EndOfRollbackStep
  BY <1>0, <1>a, <1>18 DEF Placed, EnsureBeforeStateRestored, Fail, FailWith,
     EndOfRollbackStep, Done, Phase, user
<1>19. CASE UNCHANGED vars
  BY <1>0, <1>a, <1>19 DEF Placed, vars, tx, user
<1>20. QED
  BY <1>1, <1>2, <1>3, <1>4, <1>5, <1>6, <1>7, <1>8, <1>9, <1>10, <1>11, <1>12, <1>13, <1>14,
     <1>15, <1>16, <1>17, <1>18, <1>19 DEF Next, Apply, Recover, User

(* Each step of the apply makes the tree that the next one starts from.     *)
LEMMA ForwardStays ==
    ASSUME TypeInv, pc # "idle", touched' = {}, UndisturbedInv, NEW q \in Paths, [Next]_vars
    PROVE  Forward(q)'
<1> USE PlanAssumption
<1>0. /\ Values /\ Values' /\ TodoKnown /\ SnapshotWhole /\ FoldersFit /\ touched = {}
      /\ UNCHANGED <<snapshot, plan, origin>>
      /\ Moved' = Moved /\ Published' = Published /\ Retimed' = Retimed
      /\ \A r \in Paths : Kinds(r)
  BY TouchedGrows, PlanStays, GroupsStay, OpKinds, ValuesStay, PlannedFoldersFit
     DEF TypeInv, Planned
<1>a. \A r \in Paths : Placed(r) /\ Forward(r) /\ Backward(r)
  BY <1>0 DEF UndisturbedInv
<1>1. ASSUME NEW kind \in {"Restore", "Discard"}, NEW requested \in SUBSET Paths,
             Preview(kind, requested)
      PROVE  Forward(q)'
  BY <1>1 DEF Preview, user
<1>2. CASE validate_expected_plan
  BY <1>0, <1>a, <1>2 DEF Forward, Without, Unapplied, Moved, ApplySteps, RollbackSteps,
     validate_expected_plan, user, Reject
<1>3. CASE BeginApplying
  BY <1>0, <1>a, <1>3 DEF Forward, Without, Unapplied, Moved, ApplySteps, RollbackSteps,
     BeginApplying, Phase, user, Reject
<1>4. ASSUME NEW p \in Paths, BackupFile(p) PROVE Forward(q)'
  <2>1. p \in Moved
    BY <1>0, <1>a, <1>4 DEF TodoKnown, BackupFile, Item
  <2>2. QED
    BY <1>0, <1>a, <1>4, <2>1 DEF Values, Forward, Without, Unapplied, BackupFile, Item, Did,
       Fail, user, FailWith
<1>5. ASSUME NEW p \in Paths, RemoveSource(p) PROVE Forward(q)'
  <2>1. p \in Moved
    BY <1>0, <1>a, <1>5 DEF TodoKnown, RemoveSource, Item
  <2>2. QED
    BY <1>0, <1>a, <1>5, <2>1 DEF Values, Forward, Without, Unapplied, RemoveSource, Item,
       Did, Fail, user, FailWith
<1>6. ASSUME NEW p \in Paths, RemoveDirectory(p) PROVE Forward(q)'
  <2>1. p \in plan.remove
    BY <1>0, <1>a, <1>6 DEF TodoKnown, RemoveDirectory, remove_project_directory, Item
  <2>2. QED
    BY <1>0, <1>a, <1>6, <2>1 DEF Values, CanRemoveDirectory, Forward, Without, Unapplied,
       RemoveDirectory, remove_project_directory, Item, Did, Fail, user, FailWith
<1>7. ASSUME NEW p \in Paths, CreateDirectory(p) PROVE Forward(q)'
  <2>1. p \in plan.create
    BY <1>0, <1>a, <1>7 DEF TodoKnown, CreateDirectory, Item
  <2>2. QED
    BY <1>0, <1>a, <1>7, <2>1 DEF Values, Forward, Without, Unapplied, CreateDirectory, Item,
       Did, Fail, user, FailWith
<1>8. ASSUME NEW p \in Paths, PublishFile(p) PROVE Forward(q)'
  <2>1. p \in Published /\ plan.ops[p].after = snapshot[p]
    BY <1>0, <1>8, Groups DEF TodoKnown, Kinds, Retimed, Published, PublishFile, Item
  <2>2. p \notin Above(p) /\ p \in Paths
    BY Folders
  <2>3. \A r \in Above(p) : /\ r \notin Published \cup Retimed \cup plan.remove
                            /\ r \notin plan.create => origin[r] = Dir /\ r \notin Moved
    BY <1>0, <2>1 DEF FoldersFit, Kinds, Above
  <2>4. CASE pc' = "publish"
    <3>1. /\ todo' = todo \ {p} /\ pc = "publish"
          /\ tree' = [[r \in Paths |-> IF r \in Above(p) THEN Dir ELSE tree[r]]
                        EXCEPT ![p] = snapshot[p]]
      BY <1>8, <2>1, <2>4 DEF PublishFile, Item, Did, FailWith, user
    <3>2. CASE q = p
      BY <1>0, <2>1, <2>2, <2>4, <3>1, <3>2 DEF Forward, Unapplied
    <3>3. CASE q \in Above(p)
      <4>1. tree'[q] = Dir
        BY <2>2, <3>1, <3>3
      <4>2. /\ q \notin Published' \cup Retimed'
            /\ q \notin plan'.create => origin'[q] = Dir /\ q \notin Moved' \cup plan'.remove
        BY <1>0, <2>3, <3>3
      <4>3. QED
        BY <2>4, <4>1, <4>2 DEF Forward, Without, Unapplied
    <3>4. CASE q # p /\ q \notin Above(p)
      <4>1. tree'[q] = tree[q]
        BY <3>1, <3>4
      <4>2. QED
        BY <1>0, <1>a, <2>4, <3>1, <3>4, <4>1 DEF Forward, Without, Unapplied
    <3>5. QED
      BY <3>2, <3>3, <3>4
  <2>5. CASE pc' # "publish"
    BY <1>8, <2>5 DEF Forward, Unapplied, PublishFile, Item, Did, FailWith, user
  <2>6. QED
    BY <2>4, <2>5
<1>9. ASSUME NEW p \in Paths, SetMtime(p) PROVE Forward(q)'
  <2>1. p \in Retimed /\ plan.ops[p].after = snapshot[p]
    BY <1>0, <1>9, Groups DEF TodoKnown, Kinds, Retimed, Published, SetMtime, Item
  <2>2. QED
    BY <1>0, <1>a, <1>9, <2>1 DEF Values, Forward, Without, Unapplied, SetMtime, Item, Did,
       Fail, user, FailWith
<1>10. CASE EndOfStep
  <2>1. /\ AfterPaths(plan.ops) = Published \cup Retimed
        /\ OfType(plan.ops, {"Replace", "Delete"}) = Moved
    BY Groups DEF Moved, Published, Retimed
  <2>2. UNCHANGED <<tree, backup>> /\ todo = {}
    BY <1>10 DEF EndOfStep, Done
  <2>3. CASE pc = "backup"
    BY <1>0, <1>a, <1>10, <2>1, <2>2, <2>3 DEF Forward, Without, Unapplied, EndOfStep, Done,
       Phase
  <2>4. CASE pc = "removeSources"
    BY <1>0, <1>a, <1>10, <2>1, <2>2, <2>4 DEF Forward, Without, Unapplied, EndOfStep, Done,
       Phase
  <2>5. CASE pc = "removeDirectories"
    BY <1>0, <1>a, <1>10, <2>1, <2>2, <2>5 DEF Forward, Without, Unapplied, EndOfStep, Done,
       Phase
  <2>6. CASE pc = "createDirectories"
    BY <1>0, <1>a, <1>10, <2>1, <2>2, <2>6 DEF Forward, Without, Unapplied, EndOfStep, Done,
       Phase
  <2>7. CASE pc = "publish"
    BY <1>10, <2>7 DEF Forward, Unapplied, EndOfStep, Done, Phase
  <2>8. QED
    BY <1>10, <2>3, <2>4, <2>5, <2>6, <2>7 DEF EndOfStep, Done
<1>11. CASE Kill
  BY <1>0, <1>a, <1>11 DEF Forward, Without, Unapplied, Moved, ApplySteps, RollbackSteps,
     Kill, user
<1>12. ASSUME NEW p \in Paths, RemoveAfter(p) PROVE Forward(q)'
  BY <1>12 DEF Forward, Unapplied, RemoveAfter, Item, user, Did, Fail, FailWith
<1>13. ASSUME NEW p \in Paths, RemoveCreated(p) PROVE Forward(q)'
  BY <1>13 DEF Forward, Unapplied, RemoveCreated, Item, remove_project_directory, Did, Fail,
     user, FailWith
<1>14. ASSUME NEW p \in Paths, RestoreBefore(p) PROVE Forward(q)'
  BY <1>14 DEF Forward, Unapplied, RestoreBefore, Item, Did, Fail, user, FailWith
<1>15. CASE EndOfRollbackStep
  BY <1>15 DEF Forward, Unapplied, EndOfRollbackStep, Done, Phase, user
<1>16. ASSUME NEW p \in Paths, NEW f \in UserFiles, SaveFile(p, f) PROVE Forward(q)'
  BY <1>0, <1>16 DEF SaveFile, Edited, tx
<1>17. ASSUME NEW p \in Paths, MakeFolder(p) PROVE Forward(q)'
  BY <1>0, <1>17 DEF MakeFolder, Edited, tx
<1>18. ASSUME NEW p \in Paths, Delete(p) PROVE Forward(q)'
  BY <1>0, <1>18 DEF Delete, Edited, tx
<1>19. CASE \/ validate_discard_request_scope \/ CancelStaging
            \/ RecoverStaged
  BY <1>0, <1>a, <1>19 DEF Forward, Without, Unapplied, validate_discard_request_scope,
     Reject, CancelStaging, RecoverStaged, user
<1>20. CASE \/ RecoverOne \/ (\E p \in Paths : RecreateRemoved(p))
            \/ (\E p \in Paths : RestoreMtime(p))
  BY <1>0, <1>a, <1>20 DEF Forward, Without, Unapplied, RecoverOne, Phase, RecreateRemoved,
     Item, Did, Fail, FailWith, RestoreMtime, user
<1>21. CASE \/ EnsureBeforeStateRestored
  BY <1>0, <1>a, <1>21 DEF Forward, Without, Unapplied, EnsureBeforeStateRestored, Fail,
     FailWith, user
<1>22. CASE UNCHANGED vars
  BY <1>0, <1>a, <1>22 DEF Forward, Without, Unapplied, vars, tx, user
<1>23. QED
  BY <1>1, <1>2, <1>3, <1>4, <1>5, <1>6, <1>7, <1>8, <1>9, <1>10, <1>11, <1>12, <1>13, <1>14,
     <1>15, <1>16, <1>17, <1>18, <1>19, <1>20, <1>21, <1>22 DEF Next, Apply, Recover, User

(* Each step of the rollback undoes what the apply did with its paths.      *)
LEMMA BackwardStays ==
    ASSUME TypeInv, pc # "idle", touched' = {}, UndisturbedInv, NEW q \in Paths, [Next]_vars
    PROVE  Backward(q)'
<1> USE PlanAssumption
<1>0. /\ Values /\ Values' /\ TodoKnown /\ SnapshotWhole /\ FoldersFit /\ touched = {}
      /\ UNCHANGED <<snapshot, plan, origin>>
      /\ Moved' = Moved /\ Published' = Published /\ Retimed' = Retimed
      /\ \A r \in Paths : Kinds(r)
  BY TouchedGrows, PlanStays, GroupsStay, OpKinds, ValuesStay, PlannedFoldersFit
     DEF TypeInv, Planned
<1>a. \A r \in Paths : Placed(r) /\ Forward(r) /\ Backward(r)
  BY <1>0 DEF UndisturbedInv
<1>1. ASSUME NEW kind \in {"Restore", "Discard"}, NEW requested \in SUBSET Paths,
             Preview(kind, requested)
      PROVE  Backward(q)'
  BY <1>1 DEF Preview, user
<1>2. CASE validate_discard_request_scope
  BY <1>2 DEF Backward, RollbackSteps, validate_discard_request_scope, user, Reject
<1>3. CASE validate_expected_plan
  BY <1>3 DEF Backward, RollbackSteps, validate_expected_plan, user, Reject
<1>4. CASE BeginApplying
  BY <1>4 DEF Backward, RollbackSteps, BeginApplying, Phase, user, Reject
<1>5. ASSUME NEW p \in Paths, BackupFile(p) PROVE Backward(q)'
  BY <1>5 DEF Backward, RollbackSteps, BackupFile, Item, Did, Fail, user, FailWith
<1>6. ASSUME NEW p \in Paths, RemoveSource(p) PROVE Backward(q)'
  BY <1>6 DEF Backward, RollbackSteps, RemoveSource, Item, Did, Fail, user, FailWith
<1>7. ASSUME NEW p \in Paths, RemoveDirectory(p) PROVE Backward(q)'
  BY <1>7 DEF Backward, RollbackSteps, RemoveDirectory, remove_project_directory, Item, Did,
     Fail, user, FailWith
<1>8. ASSUME NEW p \in Paths, CreateDirectory(p) PROVE Backward(q)'
  BY <1>8 DEF Backward, RollbackSteps, CreateDirectory, Item, Did, Fail, user, FailWith
<1>9. ASSUME NEW p \in Paths, PublishFile(p) PROVE Backward(q)'
  BY <1>9 DEF Backward, RollbackSteps, PublishFile, Item, Did, FailWith, user
<1>10. ASSUME NEW p \in Paths, SetMtime(p) PROVE Backward(q)'
  BY <1>10 DEF Backward, RollbackSteps, SetMtime, Item, Did, Fail, user, FailWith
<1>11. CASE EndOfStep
  BY <1>11 DEF Backward, RollbackSteps, EndOfStep, Done, Phase, user
<1>12. CASE Kill
  BY <1>12 DEF Backward, RollbackSteps, Kill, user
<1>13. CASE RecoverStaged
  BY <1>0, <1>a, <1>13 DEF Forward, Unapplied, Backward, RollbackSteps, RecoverStaged, user
<1>14. CASE RecoverOne
  BY <1>0, <1>a, <1>14 DEF Published, Backward, RollbackSteps, RecoverOne, Phase, user
<1>15. ASSUME NEW p \in Paths, RemoveAfter(p) PROVE Backward(q)'
  <2>1. p \in Published /\ Kinds(p)
    BY <1>0, <1>15 DEF TodoKnown, RemoveAfter, Item
  <2>2. CASE pc' = "pending"
    BY <2>2 DEF Backward, RollbackSteps
  <2>3. CASE pc' # "pending"
    <3>1. /\ pc = "removeAfter" /\ pc' = pc /\ todo' = todo \ {p}
          /\ \/ tree' = [tree EXCEPT ![p] = None]
             \/ /\ tree' = tree
                /\ tree[p] \notin Files \/ Holds(p, plan.ops[p].before)
      BY <1>15, <2>3 DEF RemoveAfter, Item, user, Did, Fail, FailWith
    <3>2. tree'[p] # snapshot[p]
      BY <1>0, <2>1, <3>1 DEF Values, Kinds, Holds, FileAt
    <3>3. q # p => tree'[q] = tree[q]
      BY <1>0, <3>1 DEF Values
    <3>4. QED
      BY <1>0, <1>a, <3>1, <3>2, <3>3 DEF Backward, RollbackSteps
  <2>4. QED
    BY <2>2, <2>3
<1>16. ASSUME NEW p \in Paths, RemoveCreated(p) PROVE Backward(q)'
  <2>1. p \in plan.create /\ Kinds(p)
    BY <1>0, <1>16 DEF TodoKnown, Kinds, RemoveCreated, Item
  <2>2. CASE pc' = "pending"
    BY <2>2 DEF Backward, RollbackSteps
  <2>3. CASE pc' # "pending"
    <3>1. /\ UNCHANGED pc /\ todo' = todo \ {p}
          /\ (tree'[p] = tree[p] /\ tree[p] # Dir) \/ tree'[p] = None
          /\ q # p => tree'[q] = tree[q]
      BY <1>0, <1>16, <2>1, <2>3 DEF Values, RemoveCreated, Item, remove_project_directory,
         Did, Fail, user, FailWith
    <3>2. pc = "removeCreated"
      BY <1>16 DEF RemoveCreated, Item
    <3>3. QED
      BY <1>0, <1>a, <2>1, <3>1, <3>2 DEF Backward, RollbackSteps, Kinds
  <2>4. QED
    BY <2>2, <2>3
<1>17. ASSUME NEW p \in Paths, RecreateRemoved(p) PROVE Backward(q)'
  <2>1. p \in plan.remove \ plan.create /\ Kinds(p)
    BY <1>0, <1>17 DEF TodoKnown, FoldersFit, RecreateRemoved, Item
  <2>2. CASE pc' = "pending"
    BY <2>2 DEF Backward, RollbackSteps
  <2>3. CASE pc' # "pending"
    <3>1. /\ UNCHANGED pc /\ todo' = todo \ {p}
          /\ tree'[p] = Dir
          /\ q # p => tree'[q] = tree[q]
      BY <1>0, <1>17, <2>1, <2>3 DEF Values, RecreateRemoved, Item, Did, Fail, user, FailWith
    <3>2. pc = "recreateRemoved"
      BY <1>17 DEF RecreateRemoved, Item
    <3>3. QED
      BY <1>0, <1>a, <2>1, <3>1, <3>2 DEF Backward, RollbackSteps, Kinds
  <2>4. QED
    BY <2>2, <2>3
<1>18. ASSUME NEW p \in Paths, RestoreBefore(p) PROVE Backward(q)'
  <2>1. /\ p \in Moved \ plan.remove /\ Kinds(p) /\ origin[p] \in Files
        /\ plan.ops[p].before = origin[p]
    BY <1>0, <1>18 DEF TodoKnown, FoldersFit, Kinds, FileAt, RestoreBefore, Item
  <2>2. CASE pc' = "pending"
    BY <2>2 DEF Backward, RollbackSteps
  <2>3. CASE pc' # "pending"
    <3>1. /\ UNCHANGED pc /\ todo' = todo \ {p}
          /\ tree'[p] = origin[p]
          /\ q # p => tree'[q] = tree[q]
      BY <1>0, <1>18, <2>1, <2>3 DEF Values, RestoreBefore, Item, Did, Fail, user, FailWith
    <3>2. pc = "restoreBefore"
      BY <1>18 DEF RestoreBefore, Item
    <3>3. QED
      BY <1>0, <1>a, <2>1, <3>1, <3>2 DEF Backward, RollbackSteps, Kinds
  <2>4. QED
    BY <2>2, <2>3
<1>19. ASSUME NEW p \in Paths, RestoreMtime(p) PROVE Backward(q)'
  <2>1. /\ p \in Retimed \ plan.remove /\ Kinds(p) /\ origin[p] \in Files
        /\ plan.ops[p].before = origin[p]
    BY <1>0, <1>19 DEF TodoKnown, FoldersFit, Kinds, FileAt, RestoreMtime, Item
  <2>2. CASE pc' = "pending"
    BY <2>2 DEF Backward, RollbackSteps
  <2>3. CASE pc' # "pending"
    <3>1. /\ UNCHANGED pc /\ todo' = todo \ {p}
          /\ tree'[p] = origin[p]
          /\ q # p => tree'[q] = tree[q]
      BY <1>0, <1>19, <2>1, <2>3 DEF Values, RestoreMtime, Item, Did, Fail, user, FailWith
    <3>2. pc = "restoreMtimes"
      BY <1>19 DEF RestoreMtime, Item
    <3>3. QED
      BY <1>0, <1>a, <2>1, <3>1, <3>2 DEF Backward, RollbackSteps, Kinds
  <2>4. QED
    BY <2>2, <2>3
<1>20. CASE EnsureBeforeStateRestored
  <2>1. CASE pc' = "pending"
    BY <2>1 DEF Backward, RollbackSteps
  <2>2. CASE pc' # "pending"
    <3>1. /\ pc' = "recovered" /\ pc = "restoreMtimes" /\ UNCHANGED tree
          /\ q \in DOMAIN plan.ops => FileAt(tree, q) = plan.ops[q].before
      BY <1>20, <2>2 DEF EnsureBeforeStateRestored, user, Fail, FailWith
    <3>2. tree[q] \in Entries /\ origin[q] \in Entries /\ Kinds(q) /\ Placed(q) /\ Backward(q)
      BY <1>0, <1>a DEF Values
    <3>3. tree[q] \in Files \/ origin[q] \in Files => tree[q] = origin[q]
      BY <3>1, <3>2 DEF Kinds, Placed, FileAt
    <3>4. tree[q] = Dir <=> origin[q] = Dir
      BY <3>1, <3>2 DEF Placed, Backward
    <3>5. tree[q] = origin[q]
      BY <3>2, <3>3, <3>4 DEF Entries
    <3>6. QED
      BY <1>0, <3>1, <3>5 DEF Backward, RollbackSteps
  <2>3. QED
    BY <2>1, <2>2
<1>21. CASE EndOfRollbackStep
  <2>1. UNCHANGED tree /\ todo = {} /\ Kinds(q)
    BY <1>0, <1>21 DEF EndOfRollbackStep, Done
  <2>2. CASE pc = "removeAfter"
    BY <1>0, <1>a, <1>21, <2>1, <2>2 DEF Backward, RollbackSteps, EndOfRollbackStep, Done, Phase
  <2>3. CASE pc = "removeCreated"
    BY <1>0, <1>a, <1>21, <2>1, <2>3 DEF Backward, RollbackSteps, EndOfRollbackStep, Done, Phase
  <2>4. CASE pc = "recreateRemoved"
    BY <1>0, <1>a, <1>21, <2>1, <2>4 DEF Moved, Backward, RollbackSteps, EndOfRollbackStep,
       Done, Phase
  <2>5. CASE pc = "restoreBefore"
    BY <1>0, <1>a, <1>21, <2>1, <2>5 DEF Retimed, Backward, RollbackSteps, EndOfRollbackStep,
       Done, Phase
  <2>6. QED
    BY <1>21, <2>2, <2>3, <2>4, <2>5 DEF EndOfRollbackStep, Done
<1>22. ASSUME NEW p \in Paths, NEW f \in UserFiles, SaveFile(p, f) PROVE Backward(q)'
  BY <1>0, <1>22 DEF SaveFile, Edited, tx
<1>23. ASSUME NEW p \in Paths, MakeFolder(p) PROVE Backward(q)'
  BY <1>0, <1>23 DEF MakeFolder, Edited, tx
<1>24. ASSUME NEW p \in Paths, Delete(p) PROVE Backward(q)'
  BY <1>0, <1>24 DEF Delete, Edited, tx
<1>25. CASE \/ CancelStaging
  BY <1>0, <1>a, <1>25 DEF Backward, RollbackSteps, CancelStaging, user
<1>26. CASE UNCHANGED vars
  BY <1>0, <1>a, <1>26 DEF Backward, RollbackSteps, vars, tx, user
<1>27. QED
  BY <1>1, <1>2, <1>3, <1>4, <1>5, <1>6, <1>7, <1>8, <1>9, <1>10, <1>11, <1>12, <1>13, <1>14,
     <1>15, <1>16, <1>17, <1>18, <1>19, <1>20, <1>21, <1>22, <1>23, <1>24, <1>25, <1>26 DEF
     Next, Apply, Recover, User

(* The plan, and nothing else, tells how the tree differs from the one the *)
(* preview saw, while the user leaves it alone.                            *)
LEMMA UndisturbedStep == TypeInv /\ UndisturbedInv /\ [Next]_vars => UndisturbedInv'
<1> SUFFICES ASSUME TypeInv, UndisturbedInv, [Next]_vars PROVE UndisturbedInv'
  OBVIOUS
<1>1. CASE pc = "idle"
  BY <1>1, UndisturbedPreview
<1>2. CASE pc # "idle"
  BY <1>2, PlacedStays, ForwardStays, BackwardStays DEF UndisturbedInv
<1>3. QED
  BY <1>1, <1>2

(* A rollback that the user does not disturb brings back every file and    *)
(* every folder that the preview saw, wherever the apply or an earlier     *)
(* rollback was killed.                                                    *)
THEOREM RollsBackWhole == Spec => []RolledBackWhole
<1>1. Init => UndisturbedInv
  BY DEF Init, UndisturbedInv
<1>2. TypeInv /\ UndisturbedInv => RolledBackWhole
  <2> SUFFICES ASSUME TypeInv, UndisturbedInv, pc = "recovered", touched = {} PROVE tree = origin
    BY DEF RolledBackWhole
  <2>1. \A p \in Paths : tree[p] = origin[p]
    BY DEF UndisturbedInv, Backward
  <2>2. QED
    BY <2>1 DEF TypeInv, Values
<1>3. QED
  BY <1>1, <1>2, UndisturbedStep, TypeInit, TypeStep, PTL DEF Spec

-----------------------------------------------------------------------------
(* A restore meets no failing check. *)

(* What the preview froze passes the checks of a journal. *)
LEMMA JournalHolds == TypeInv /\ pc # "idle" => JournalAccepted
<1> SUFFICES ASSUME TypeInv, pc # "idle" PROVE JournalAccepted
  OBVIOUS
<1>1. /\ Values /\ OpsPlanned /\ FoldersPlanned /\ plan \in PlanType
      /\ AfterPaths(plan.ops) = Published \cup Retimed
      /\ AfterPaths(plan.ops) \subseteq Paths
  <2>1. Values /\ OpsPlanned /\ FoldersPlanned /\ plan \in PlanType
    BY DEF TypeInv, Planned
  <2>2. DOMAIN plan.ops \subseteq Paths
    BY <2>1 DEF PlanType
  <2>3. QED
    BY <2>1, <2>2, Groups DEF Published, Retimed
<1>2. validate_journal_operations
  <2> SUFFICES ASSUME NEW p \in DOMAIN plan.ops
               PROVE  /\ plan.ops[p].after = snapshot[p]
                      /\ plan.ops[p].before # plan.ops[p].after
                      /\ OpType(plan.ops[p]) = "SetMetadata" =>
                           plan.ops[p].before.data = snapshot[p].data
    BY DEF validate_journal_operations
  <2>1. p \in Paths
    BY <1>1 DEF PlanType
  <2>2. Kinds(p)
    BY <1>1, <2>1, OpKinds
  <2>3. FileAt(origin, p) # snapshot[p]
    BY <1>1 DEF OpsPlanned
  <2>4. OpType(plan.ops[p]) = "SetMetadata" => p \in Retimed
    BY Groups DEF Retimed
  <2>5. QED
    BY <2>2, <2>3, <2>4 DEF Kinds, FileAt
<1>3. validate_journal_directory_topology
  <2>1. \A q \in plan.remove : \E p \in AfterPaths(plan.ops) : q = p \/ q \in Below(p)
    BY <1>1 DEF FoldersPlanned
  <2>2. ASSUME NEW q \in plan.create PROVE Below(q) \cap AfterPaths(plan.ops) # {}
    BY <1>1, Folders DEF FoldersPlanned
  <2>3. QED
    BY <2>1, <2>2 DEF validate_journal_directory_topology
<1>4. QED
  BY <1>2, <1>3 DEF JournalAccepted

(* A file above a planned path is one that the plan moves. *)
LEMMA NothingStandsAbove ==
    ASSUME TypeInv, pc # "idle", NEW p \in DOMAIN plan.ops \cup plan.create,
           NEW q \in Above(p), origin[q] \in Files
    PROVE  q \in BeforePaths(plan.ops)
<1> USE PlanAssumption
<1>1. FoldersFit /\ WellFormed(origin) /\ Values /\ plan \in PlanType /\ OpsPlanned
  BY PlannedFoldersFit DEF TypeInv, Planned
<1>2. p \in Paths /\ Kinds(p)
  BY <1>1, OpKinds DEF PlanType
<1>3. q \in Moved
  <2>1. CASE p \in plan.create \/ p \in Published
    BY <1>1, <2>1 DEF FoldersFit
  <2>2. CASE p \in Moved \cup Retimed
    BY <1>1, <1>2, <2>2 DEF Kinds, WellFormed
  <2>3. QED
    BY <1>2, <2>1, <2>2 DEF Kinds
<1>4. QED
  BY <1>3, Groups DEF Moved

(* The tree that the preview saw passes the checks of a restore. *)
LEMMA RecheckPasses ==
    ASSUME TypeInv, pc # "idle", plan.kind = "Restore", tree = origin
    PROVE  recheck_preconditions
<1> USE PlanAssumption
<1>1. FoldersFit /\ Values /\ plan \in PlanType /\ OpsPlanned /\ FoldersPlanned
  BY PlannedFoldersFit DEF TypeInv, Planned
<1>2. \A p \in DOMAIN plan.ops \cup plan.create : BlockedBy(p) \subseteq BeforePaths(plan.ops)
  BY NothingStandsAbove DEF BlockedBy
<1>3. ASSUME NEW p \in DOMAIN plan.ops
      PROVE  /\ FileAt(tree, p) = plan.ops[p].before
             /\ tree[p] = Dir => p \in plan.remove
  <2>1. p \in Paths
    BY <1>1 DEF PlanType
  <2>2. Kinds(p)
    BY <1>1, <2>1, OpKinds
  <2>3. QED
    BY <1>1, <2>1, <2>2 DEF Kinds, FoldersPlanned
<1>4. \A q \in plan.remove : tree[q] = Dir
  BY <1>1 DEF FoldersFit
<1>5. \A q \in plan.create : /\ tree[q] # Dir
                             /\ tree[q] \in Files => q \in BeforePaths(plan.ops)
  BY <1>1, Groups DEF FoldersFit, Moved
<1>6. QED
  BY <1>2, <1>3, <1>4, <1>5 DEF recheck_preconditions

(* What holds of an undisturbed restore, put together. *)
Going ==
    /\ Values /\ TodoKnown /\ SnapshotWhole /\ FoldersPlanned /\ FoldersFit
    /\ WellFormed(tree) /\ WellFormed(origin)
    /\ plan.kind = "Restore" /\ plan.remove \subseteq Paths /\ plan.create \subseteq Paths
    /\ \A p \in Paths : Kinds(p) /\ Placed(p) /\ Forward(p) /\ Backward(p)

(* Which is what the invariants say. *)
LEMMA GoingHolds ==
    ASSUME TypeInv, UndisturbedInv, pc # "idle", plan.kind = "Restore", touched = {}
    PROVE  Going
<1>1. /\ Values /\ TodoKnown /\ SnapshotWhole /\ WellFormed(tree) /\ WellFormed(origin)
      /\ plan \in PlanType /\ OpsPlanned /\ FoldersPlanned
  BY DEF TypeInv, Planned
<1>2. \A p \in Paths : Kinds(p) /\ Placed(p) /\ Forward(p) /\ Backward(p)
  BY <1>1, OpKinds DEF UndisturbedInv
<1>3. plan.remove \subseteq Paths /\ plan.create \subseteq Paths
  BY <1>1 DEF PlanType
<1>4. QED
  BY <1>1, <1>2, <1>3, PlannedFoldersFit DEF Going

(* A folder is removed after all that was in it. *)
LEMMA RemoveGoesOn ==
    ASSUME Going, NEW q \in Paths, Item("removeDirectories", q)
    PROVE  CanRemoveDirectory(q)
<1> USE PlanAssumption
<1>1. pc = "removeDirectories" /\ q \in plan.remove /\ q \in todo /\ origin[q] = Dir
  BY DEF Going, Item, TodoKnown, FoldersFit
<1>2. tree[q] = Dir
  BY <1>1 DEF Going, Forward, Without, Kinds
<1>3. ASSUME NEW r \in Below(q) PROVE tree[r] = None
  <2>1. /\ r \in Paths /\ r # q
        /\ origin[r] \in Files => r \in Moved
        /\ origin[r] = Dir => r \in plan.remove
        /\ origin[r] \in Entries
    BY <1>1, Folders DEF Going, FoldersFit, Below, Values
  <2>2. r \notin todo
    BY <1>1, <2>1, Folders DEF Item, Earlier
  <2>3. tree[r] = Without(Moved \cup (plan.remove \ todo), r)
    BY <1>1, <2>1 DEF Going, Forward
  <2>4. QED
    BY <2>1, <2>2, <2>3 DEF Without, Entries
<1>4. QED
  BY <1>2, <1>3 DEF CanRemoveDirectory

(* A folder is created in one that is there. *)
LEMMA CreateGoesOn ==
    ASSUME Going, NEW q \in Paths, Item("createDirectories", q)
    PROVE  tree[q] = None /\ InFolder(q)
<1> USE PlanAssumption
<1>1. pc = "createDirectories" /\ q \in plan.create /\ q \in todo
  BY DEF Going, Item, TodoKnown
<1>2. /\ origin[q] \in Entries /\ origin[q] # Dir
      /\ origin[q] \in Files => q \in Moved
      /\ \A r \in Above(q) : /\ r \notin plan.remove
                             /\ origin[r] # Dir => r \in plan.create
  BY <1>1 DEF Going, FoldersFit, Values
<1>3. tree[q] = None
  BY <1>1, <1>2 DEF Going, Forward, Without, Entries
<1>4. ASSUME NEW r \in Above(q) PROVE tree[r] = Dir
  <2>1. r \in Paths /\ r # q
    BY Folders DEF Above
  <2>2. r \notin todo
    BY <1>1, <2>1, Folders DEF Item, Earlier
  <2>3. tree[r] = IF r \in plan.create THEN Dir ELSE Without(Moved \cup plan.remove, r)
    BY <1>1, <2>1, <2>2 DEF Going, Forward
  <2>4. r \in Moved => origin[r] \in Files
    BY <2>1 DEF Going, Kinds
  <2>5. QED
    BY <1>2, <2>3, <2>4 DEF Without
<1>5. QED
  BY <1>3, <1>4 DEF InFolder

(* A file is published where nothing is, in folders that are there. *)
LEMMA PublishGoesOn ==
    ASSUME Going, NEW p \in Paths, Item("publish", p)
    PROVE  /\ p \in Published => BlockedBy(p) = {} /\ tree[p] = None
           /\ p \in Retimed => tree[p] = plan.ops[p].before
<1> USE PlanAssumption
<1>1. /\ pc = "publish" /\ p \in todo /\ p \in Published \cup Retimed
      /\ Kinds(p) /\ origin[p] \in Entries
  BY DEF Going, Item, TodoKnown, Values
<1>2. p \notin plan.create
  BY <1>1 DEF Going, FoldersFit
<1>3. tree[p] = Without(Moved \cup plan.remove, p)
  BY <1>1, <1>2 DEF Going, Forward
<1>4. CASE p \in Published
  <2>1. tree[p] = None
    <3>1. origin[p] \in Files => p \in Moved
      BY <1>1, <1>4 DEF Kinds
    <3>2. origin[p] = Dir => p \in plan.remove
      BY <1>4 DEF Going, FoldersPlanned
    <3>3. QED
      BY <1>1, <1>3, <3>1, <3>2 DEF Without, Entries
  <2>2. ASSUME NEW q \in Above(p) PROVE tree[q] \notin Files
    <3>1. /\ q \in Paths /\ q \notin Published \cup Retimed
          /\ origin[q] \in Files => q \in Moved
      BY <1>4 DEF Going, FoldersFit, Above
    <3>2. tree[q] = IF q \in plan.create THEN Dir ELSE Without(Moved \cup plan.remove, q)
      BY <1>1, <3>1 DEF Going, Forward
    <3>3. QED
      BY <3>1, <3>2 DEF Without
  <2>3. QED
    BY <1>1, <1>4, <2>1, <2>2 DEF BlockedBy, Kinds
<1>5. CASE p \in Retimed
  <2>1. /\ origin[p] \in Files /\ p \notin Moved /\ p \notin Published
        /\ plan.ops[p].before = origin[p]
    BY <1>1, <1>5 DEF Kinds, FileAt
  <2>2. p \notin plan.remove
    BY <2>1 DEF Going, FoldersFit
  <2>3. QED
    BY <1>3, <2>1, <2>2 DEF Without
<1>6. QED
  BY <1>1, <1>4, <1>5

(* A rollback finds above a path no file but those that the plan moves, ... *)
LEMMA NothingObstructs ==
    ASSUME TypeInv, Going, pc \in RollbackSteps, NEW p \in DOMAIN plan.ops,
           pc = "removeAfter" => p \in Published
    PROVE  ~Obstructed(p)
<1> USE PlanAssumption
<1>1. p \in Paths /\ Kinds(p)
  BY DEF TypeInv, Planned, PlanType, Going, RollbackSteps
<1>2. ASSUME NEW q \in Above(p), tree[q] \in Files PROVE q \in BeforePaths(plan.ops)
  <2>1. q \in Paths /\ Kinds(q) /\ Placed(q) /\ Backward(q)
    BY DEF Going, Above
  <2>2. CASE tree[q] = origin[q]
    BY <1>2, <2>2, NothingStandsAbove DEF RollbackSteps
  <2>3. CASE q \in Retimed
    BY <2>3, Groups DEF Retimed
  <2>4. CASE q \in Published /\ tree[q] = snapshot[q]
    <3>1. pc = "removeAfter"
      BY <2>1, <2>4 DEF Backward
    <3>2. QED
      BY <2>4, <3>1 DEF Going, FoldersFit
  <2>5. QED
    BY <1>2, <2>1, <2>2, <2>3, <2>4 DEF Placed
<1>3. QED
  BY <1>2 DEF Obstructed, BlockedBy

(* ... where it removes, the file that it published or the one it replaced, *)
LEMMA RemoveAfterGoesOn ==
    ASSUME TypeInv, Going, NEW p \in Paths, Item("removeAfter", p)
    PROVE  /\ ~Obstructed(p)
           /\ \/ tree[p] \notin Files
              \/ Holds(p, plan.ops[p].after) \/ Holds(p, plan.ops[p].before)
<1> USE PlanAssumption
<1>1. pc = "removeAfter" /\ p \in Published /\ Kinds(p) /\ Placed(p)
  BY DEF Going, Item, TodoKnown
<1>2. ~Obstructed(p)
  BY <1>1, NothingObstructs DEF Kinds, RollbackSteps
<1>3. ASSUME tree[p] \in Files
      PROVE  Holds(p, plan.ops[p].after) \/ Holds(p, plan.ops[p].before)
  <2>1. CASE tree[p] = origin[p]
    BY <1>1, <1>3, <2>1 DEF Kinds, FileAt, Holds
  <2>2. CASE tree[p] = snapshot[p]
    BY <1>1, <1>3, <2>2 DEF Kinds, Holds
  <2>3. QED
    BY <1>1, <1>3, <2>1, <2>2 DEF Placed
<1>4. QED
  BY <1>2, <1>3

(* in the folders that it created nothing else, *)
LEMMA RemoveCreatedGoesOn ==
    ASSUME Going, NEW q \in Paths, Item("removeCreated", q)
    PROVE  /\ tree[q] = Dir => CanRemoveDirectory(q)
           /\ tree[q] \in Files => q \in BeforePaths(plan.ops)
<1> USE PlanAssumption
<1>1. /\ pc = "removeCreated" /\ q \in todo /\ q \in plan.create
      /\ origin[q] # Dir /\ q \notin Published \cup Retimed
      /\ origin[q] \in Files => q \in Moved
  BY DEF Going, Item, TodoKnown, FoldersFit
<1>2. ASSUME tree[q] = Dir, NEW r \in Below(q) PROVE tree[r] = None
  <2>1. r \in Paths /\ r # q /\ q \in Above(r) /\ tree[r] \in Entries
    BY Folders DEF Below, Going, Values
  <2>2. Kinds(r) /\ Placed(r) /\ Backward(r)
    BY <2>1 DEF Going
  <2>3. origin[r] = None
    BY <1>1, <2>1 DEF Going, WellFormed
  <2>4. tree[r] \notin Files
    BY <1>1, <2>2, <2>3 DEF Placed, Backward, Kinds, RollbackSteps
  <2>5. r \notin todo
    BY <1>1, <2>1, Folders DEF Item, Earlier
  <2>6. tree[r] # Dir
    BY <1>1, <2>2, <2>3, <2>5 DEF Placed, Backward
  <2>7. QED
    BY <2>1, <2>4, <2>6 DEF Entries
<1>3. ASSUME tree[q] \in Files PROVE q \in BeforePaths(plan.ops)
  <2>1. tree[q] = origin[q]
    BY <1>1, <1>3 DEF Going, Placed
  <2>2. QED
    BY <1>1, <1>3, <2>1, Groups DEF Moved
<1>4. QED
  BY <1>2, <1>3 DEF CanRemoveDirectory

(* where it recreates a folder, nothing, or the folder, *)
LEMMA RecreateGoesOn ==
    ASSUME Going, NEW q \in Paths, Item("recreateRemoved", q)
    PROVE  tree[q] \notin Files /\ InFolder(q)
<1> USE PlanAssumption
<1>1. pc = "recreateRemoved" /\ q \in todo /\ q \in plan.remove /\ origin[q] = Dir
  BY DEF Going, Item, TodoKnown, FoldersFit
<1>2. Kinds(q) /\ Placed(q) /\ Backward(q)
  BY DEF Going
<1>3. tree[q] \notin Files
  BY <1>1, <1>2 DEF Placed, Backward, Kinds, RollbackSteps
<1>4. ASSUME NEW r \in Above(q) PROVE tree[r] = Dir
  <2>1. r \in Paths /\ r # q
    BY Folders DEF Above
  <2>2. origin[r] = Dir /\ Placed(r) /\ Backward(r)
    BY <1>1, <2>1 DEF Going, WellFormed
  <2>3. r \notin todo
    BY <1>1, <2>1, Folders DEF Item, Earlier
  <2>4. QED
    BY <1>1, <2>2, <2>3 DEF Placed, Backward
<1>5. QED
  BY <1>3, <1>4 DEF InFolder

(* where it brings back a file, that file, or nothing and a backup of it,  *)
LEMMA RestoreBeforeGoesOn ==
    ASSUME TypeInv, Going, NEW p \in Paths, Item("restoreBefore", p)
    PROVE  /\ ~Obstructed(p)
           /\ \/ Holds(p, plan.ops[p].before)
              \/ tree[p] = None /\ InFolder(p) /\ backup[p] = plan.ops[p].before
<1> USE PlanAssumption
<1>1. /\ pc = "restoreBefore" /\ p \in Moved /\ origin[p] \in Files
      /\ plan.ops[p].before = origin[p] /\ p \notin Retimed /\ p \in DOMAIN plan.ops
      /\ tree[p] \in Entries /\ Placed(p) /\ Backward(p)
  BY DEF Going, Item, TodoKnown, Kinds, FileAt, Values
<1>2. ~Obstructed(p)
  BY <1>1, NothingObstructs DEF RollbackSteps
<1>3. CASE tree[p] \in Files
  <2>1. tree[p] = origin[p]
    BY <1>1, <1>3 DEF Placed, Backward, RollbackSteps
  <2>2. QED
    BY <1>1, <1>2, <2>1 DEF Holds
<1>4. CASE tree[p] = Dir
  BY <1>1, <1>4 DEF Placed, Backward
<1>5. CASE tree[p] = None
  <2>1. backup[p] = origin[p]
    BY <1>1, <1>5 DEF Placed
  <2>2. ASSUME NEW q \in Above(p) PROVE tree[q] = Dir
    <3>1. q \in Paths /\ origin[q] = Dir
      BY <1>1 DEF Going, WellFormed, Above
    <3>2. QED
      BY <1>1, <3>1 DEF Going, Placed, Backward
  <2>3. QED
    BY <1>1, <1>2, <1>5, <2>1, <2>2 DEF InFolder
<1>6. QED
  BY <1>1, <1>3, <1>4, <1>5 DEF Entries

(* and where it sets a time, one of the two that it knows. *)
LEMMA RestoreMtimeGoesOn ==
    ASSUME Going, NEW p \in Paths, Item("restoreMtimes", p)
    PROVE  tree[p] \in {plan.ops[p].before, plan.ops[p].after}
<1>1. p \in Retimed /\ Kinds(p) /\ Placed(p)
  BY DEF Going, Item, TodoKnown
<1>2. QED
  BY <1>1 DEF Placed, Kinds, FileAt

(* At its end every planned file is as it was before.                     *)
LEMMA EnsureGoesOn ==
    ASSUME TypeInv, Going, pc = "restoreMtimes", todo = {}, NEW p \in DOMAIN plan.ops
    PROVE  ~Obstructed(p) /\ FileAt(tree, p) = plan.ops[p].before
<1> USE PlanAssumption
<1>1. ~Obstructed(p)
  BY NothingObstructs DEF RollbackSteps
<1>2. p \in Paths
  BY DEF TypeInv, Planned, PlanType
<1>3. Kinds(p) /\ Placed(p) /\ Backward(p)
  BY <1>2 DEF Going
<1>4. CASE p \in Moved \cup Retimed
  BY <1>1, <1>3, <1>4 DEF Backward, Kinds, FileAt
<1>5. CASE p \in Published \ Moved
  BY <1>1, <1>3, <1>5 DEF Placed, Backward, Kinds, FileAt, RollbackSteps
<1>6. QED
  BY <1>1, <1>3, <1>4, <1>5 DEF Kinds

(* Only a preview leaves the idle state. *)
LEMMA PreviewOrNothing ==
    ASSUME pc = "idle", [Next]_vars
    PROVE  UNCHANGED failed
BY DEF Next, Preview, vars, tx, Apply, Recover, User, Kill, validate_discard_request_scope,
   validate_expected_plan, BeginApplying, CancelStaging, EndOfStep, Done, BackupFile, Item,
   RemoveSource, RemoveDirectory, remove_project_directory, CreateDirectory, PublishFile,
   SetMtime, RecoverStaged, RecoverOne, EnsureBeforeStateRestored, EndOfRollbackStep,
   RemoveAfter, RemoveCreated, RecreateRemoved, RestoreBefore, RestoreMtime, SaveFile,
   MakeFolder, Delete, Edited, ApplySteps, RollbackSteps

(* So no check fails. *)
NoCheckFails == pc # "idle" /\ plan.kind = "Restore" /\ touched = {} => failed = {}

(* Not one of the steps of the apply and of the rollback. *)
LEMMA GoesOnStep ==
    ASSUME TypeInv, UndisturbedInv, NoCheckFails,
           pc # "idle", plan.kind = "Restore", touched = {}, touched' = {},
           [Next]_vars
    PROVE  failed' = {}
<1>0. failed = {}
  BY DEF NoCheckFails
<1>a. Going
  BY GoingHolds
<1> USE PlanAssumption
<1>1. ASSUME NEW kind \in {"Restore", "Discard"}, NEW requested \in SUBSET Paths,
             Preview(kind, requested)
      PROVE  failed' = {}
  BY <1>1 DEF Preview, user
<1>2. CASE validate_discard_request_scope
  BY <1>0, <1>2 DEF ScopeAccepted, validate_discard_request_scope, user, Reject
<1>3. CASE validate_expected_plan
  <2>1. tree = origin
    BY <1>a, <1>3 DEF Going, Forward, Unapplied, Values, validate_expected_plan
  <2>2. QED
    BY <1>0, <1>3, <2>1, RecheckPasses, JournalHolds DEF validate_plan_shape,
       validate_expected_plan, user, Reject
<1>4. CASE BeginApplying
  <2>1. tree = origin
    BY <1>a, <1>4 DEF Going, Forward, Unapplied, Values, BeginApplying
  <2>2. QED
    BY <1>0, <1>4, <2>1, RecheckPasses DEF BeginApplying, Phase, user, Reject
<1>5. ASSUME NEW p \in Paths, BackupFile(p) PROVE failed' = {}
  <2>1. tree[p] = plan.ops[p].before /\ Unguarded(p)
    BY <1>a, <1>5 DEF Going, TodoKnown, Forward, Unapplied, Kinds, FileAt, Unguarded,
       BackupFile, Item
  <2>2. QED
    BY <1>0, <1>5, <2>1 DEF BackupFile, Item, Did, Fail, user, FailWith
<1>6. ASSUME NEW p \in Paths, RemoveSource(p) PROVE failed' = {}
  <2>1. tree[p] = backup[p] /\ Unguarded(p)
    BY <1>a, <1>6 DEF Going, TodoKnown, Forward, Without, Unguarded, RemoveSource, Item
  <2>2. QED
    BY <1>0, <1>6, <2>1 DEF RemoveSource, Item, Did, Fail, user, FailWith
<1>7. ASSUME NEW p \in Paths, RemoveDirectory(p) PROVE failed' = {}
  BY <1>0, <1>a, <1>7, RemoveGoesOn DEF RemoveDirectory, remove_project_directory, Did, user
<1>8. ASSUME NEW p \in Paths, CreateDirectory(p) PROVE failed' = {}
  BY <1>0, <1>a, <1>8, CreateGoesOn DEF CreateDirectory, Did, user
<1>9. ASSUME NEW p \in Paths, PublishFile(p) PROVE failed' = {}
  <2>1. p \in Published /\ Item("publish", p) /\ Unguarded(p)
    BY <1>a, <1>9, Groups DEF Going, TodoKnown, Retimed, Published, Unguarded, PublishFile, Item
  <2>2. BlockedBy(p) = {} /\ tree[p] = None
    BY <1>a, <2>1, PublishGoesOn
  <2>3. QED
    BY <1>0, <1>9, <2>1, <2>2 DEF PublishFile, Did, user
<1>10. ASSUME NEW p \in Paths, SetMtime(p) PROVE failed' = {}
  <2>1. p \in Retimed /\ Item("publish", p)
    BY <1>a, <1>10, Groups DEF Going, TodoKnown, Retimed, Published, SetMtime, Item
  <2>2. tree[p] = plan.ops[p].before
    BY <1>a, <2>1, PublishGoesOn
  <2>3. QED
    BY <1>0, <1>10, <2>1, <2>2 DEF SetMtime, Did, user
<1>11. ASSUME NEW p \in Paths, RemoveAfter(p) PROVE failed' = {}
  <2>1. Item("removeAfter", p) /\ Unguarded(p)
    BY <1>11 DEF Unguarded, RemoveAfter
  <2>2. QED
    BY <1>0, <1>a, <1>11, <2>1, RemoveAfterGoesOn DEF RemoveAfter, Did, user
<1>12. ASSUME NEW p \in Paths, RemoveCreated(p) PROVE failed' = {}
  <2>1. Item("removeCreated", p)
    BY <1>12 DEF RemoveCreated
  <2>2. QED
    BY <1>0, <1>a, <1>12, <2>1, RemoveCreatedGoesOn
       DEF RemoveCreated, remove_project_directory, Did, user
<1>13. ASSUME NEW p \in Paths, RecreateRemoved(p) PROVE failed' = {}
  <2>1. tree[p] \notin Files /\ InFolder(p)
    BY <1>a, <1>13, RecreateGoesOn DEF RecreateRemoved
  <2>2. QED
    BY <1>0, <1>13, <2>1 DEF RecreateRemoved, Did, user
<1>14. ASSUME NEW p \in Paths, RestoreBefore(p) PROVE failed' = {}
  <2>1. Item("restoreBefore", p) /\ Unguarded(p)
    BY <1>14 DEF Unguarded, RestoreBefore
  <2>2. QED
    BY <1>0, <1>a, <1>14, <2>1, RestoreBeforeGoesOn DEF RestoreBefore, Did, user
<1>15. ASSUME NEW p \in Paths, RestoreMtime(p) PROVE failed' = {}
  <2>1. tree[p] \in {plan.ops[p].before, plan.ops[p].after}
    BY <1>a, <1>15, RestoreMtimeGoesOn DEF RestoreMtime
  <2>2. QED
    BY <1>0, <1>15, <2>1 DEF RestoreMtime, Did, user
<1>16. CASE EnsureBeforeStateRestored
  <2>1. \A p \in DOMAIN plan.ops : /\ ~Obstructed(p) /\ Unguarded(p)
                                   /\ FileAt(tree, p) = plan.ops[p].before
    BY <1>a, <1>16, EnsureGoesOn DEF Unguarded, EnsureBeforeStateRestored
  <2>2. QED
    BY <1>0, <1>16, <2>1 DEF EnsureBeforeStateRestored
<1>17. ASSUME NEW p \in Paths, NEW f \in UserFiles, SaveFile(p, f) PROVE failed' = {}
  BY <1>17 DEF SaveFile, Edited, tx
<1>18. ASSUME NEW p \in Paths, MakeFolder(p) PROVE failed' = {}
  BY <1>18 DEF MakeFolder, Edited, tx
<1>19. ASSUME NEW p \in Paths, Delete(p) PROVE failed' = {}
  BY <1>19 DEF Delete, Edited, tx
<1>20. CASE \/ CancelStaging \/ EndOfStep \/ Kill \/ RecoverStaged
  BY <1>0, <1>20 DEF Done, CancelStaging, EndOfStep, Done, Phase, Kill, RecoverStaged, user
<1>21. CASE \/ RecoverOne \/ EndOfRollbackStep
  BY <1>0, <1>21 DEF Done, RecoverOne, Phase, EndOfRollbackStep, Done, user
<1>22. CASE UNCHANGED vars
  BY <1>0, <1>22 DEF Done, vars, tx, user
<1>23. QED
  BY <1>1, <1>2, <1>3, <1>4, <1>5, <1>6, <1>7, <1>8, <1>9, <1>10, <1>11, <1>12, <1>13, <1>14,
     <1>15, <1>16, <1>17, <1>18, <1>19, <1>20, <1>21, <1>22 DEF Next, Apply, Recover, User

(* A restore that the user does not disturb meets no failing check,        *)
(* whether it is applied to the end, killed and rolled back, or killed     *)
(* again in the rollback: what the preview plans, the apply can do, and    *)
(* what the apply does, the rollback can undo.                             *)
THEOREM RestoreGoesOn == Spec => []UndisturbedRestoreGoesOn
<1>1. Init => NoCheckFails /\ UndisturbedInv
  BY DEF Init, NoCheckFails, UndisturbedInv
<1>2. TypeInv /\ UndisturbedInv /\ NoCheckFails /\ [Next]_vars => NoCheckFails'
  <2> SUFFICES ASSUME TypeInv, UndisturbedInv, NoCheckFails, [Next]_vars,
                      pc' # "idle", plan'.kind = "Restore", touched' = {}
               PROVE  failed' = {}
    BY DEF NoCheckFails
  <2>1. CASE pc = "idle"
    BY <2>1, PreviewOrNothing DEF TypeInv, Idle
  <2>2. CASE pc # "idle"
    <3>1. Values /\ touched = {} /\ plan' = plan
      BY <2>2, TouchedGrows, PlanStays DEF TypeInv
    <3>2. QED
      BY <2>2, <3>1, GoesOnStep
  <2>3. QED
    BY <2>1, <2>2
<1>3. TypeInv /\ NoCheckFails => UndisturbedRestoreGoesOn
  BY DEF TypeInv, Idle, Planned, PlanType, NoCheckFails, UndisturbedRestoreGoesOn
<1>4. QED
  BY <1>1, <1>2, <1>3, UndisturbedStep, TypeInit, TypeStep, PTL DEF Spec
=============================================================================
