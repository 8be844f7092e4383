-------------------------- MODULE WorkingTreeScan --------------------------
(***************************************************************************)
(* How a checkpoint or a diff reads the working tree.  The user goes on    *)
(* editing while the walk, the assessment of each file, the hashing and    *)
(* the copying into the object store take place one after the other, and   *)
(* two caches of fingerprints, one of working files and one of stored      *)
(* objects, decide what is not read at all.                                *)
(*                                                                         *)
(* A fingerprint (device, inode, length, modification and change time) is  *)
(* modelled by the file's modification time and a version: every write, by *)
(* anyone, gives the file a version it never had.  All contents have the   *)
(* same length, so that a length never betrays a change.                   *)
(***************************************************************************)
EXTENDS Integers, FiniteSets

CONSTANTS
    Paths,           \* tracked file paths
    Written,         \* contents that a program writes, each a pair of halves
    Times,           \* modification times
    InitialFiles,    \* what can be at a path at first
    None,            \* "no file", "no record", "no checkpoint"
    MaxChanges,      \* bound on the number of writes by others
    MaxCheckpoints,  \* bound on the number of checkpoints
    MaxScans         \* bound on the number of checkpoints and diffs tried

(* What reading the two halves of a file at different moments can give. *)
Contents == {<<w[1], x[2]>> : w \in Written, x \in Written}

Versions == Nat
File  == [data : Contents, time : Times, ver : Versions]
Entry == [data : Contents, time : Times]

ASSUME ScanAssumption ==
    /\ IsFiniteSet(Paths) /\ Paths # {}
    /\ \A w \in Written : w = <<w[1], w[2]>>
    /\ InitialFiles \subseteq [data : Written, time : Times, ver : {0}] \cup {None}
    /\ None \notin File /\ None \notin Entry /\ None \notin Times
    /\ None \notin Contents /\ None \notin Versions
    /\ None \notin [ver : Versions, data : Contents]
    /\ None \notin [time : Times, ver : Versions, data : Contents]
    /\ None \notin [Paths -> Entry \cup {None}]
    /\ MaxChanges \in Nat /\ MaxCheckpoints \in Nat /\ MaxScans \in Nat

VARIABLES
    tree,        \* the tracked files
    versions,    \* the last version given out
    changes,     \* number of writes by others so far
    cache,       \* file_fingerprints: fingerprint and object of each path
    objects,     \* loose objects: version and content of each
    integrity,   \* object_integrity_fingerprints: version of each object
    published,   \* the checkpoints
    latest,      \* refs/latest
    (* the operation under way *)
    kind,        \* create, diff or metadata
    phase,
    baseline,    \* the checkpoint it compares with
    found,       \* what it knows of each path
    incomplete,  \* whether a tracked file could not be read
    unstored,    \* objects this creation still has to store
    created,     \* objects it wrote
    hashed,      \* objects just read, whose fingerprint is still to be taken
    updates,     \* fingerprints of the objects it read
    scans,       \* number of operations so far
    (* for the properties *)
    seen,        \* what was at each path since the operation began
    harmed,      \* objects damaged since a creation last looked at them
    missed       \* objects damaged after they were read and before their
                 \* fingerprint was taken

disk == <<tree, versions, changes>>
caches == <<cache, integrity>>
store == <<objects, published, latest>>
scan == <<kind, phase, baseline, found, incomplete, unstored, created, hashed, updates, scans>>
vars == <<disk, caches, store, scan, seen, harmed, missed>>

-----------------------------------------------------------------------------
(* Types. *)

NoEntries == [p \in Paths |-> None]
Checkpoint == [Paths -> Entry \cup {None}]
Known == [st : {"todo", "gone", "walked", "assessed", "reading", "hashed", "failed"},
          time : Times \cup {None}, ver : Versions \cup {None},
          data : Contents \cup {None}]

Unknown == [st |-> "todo", time |-> None, ver |-> None, data |-> None]

TypeOK ==
    /\ tree \in [Paths -> File \cup {None}]
    /\ versions \in Versions /\ changes \in 0..MaxChanges
    /\ cache \in [Paths -> [time : Times, ver : Versions, data : Contents] \cup {None}]
    /\ objects \in [Contents -> [ver : Versions, data : Contents] \cup {None}]
    /\ integrity \in [Contents -> Versions \cup {None}]
    /\ published \subseteq Checkpoint
    /\ latest \in Checkpoint \cup {None}
    /\ kind \in {"create", "diff", "metadata"}
    /\ phase \in {"idle", "walk", "assess", "hash", "preload", "fingerprint", "store",
                  "readback", "record", "publish", "refresh"}
    /\ baseline \in Checkpoint \cup {None}
    /\ found \in [Paths -> Known]
    /\ incomplete \in BOOLEAN
    /\ unstored \subseteq Contents /\ created \subseteq Contents
    /\ hashed \subseteq Contents
    /\ updates \in [Contents -> Versions \cup {None}]
    /\ scans \in 0..MaxScans
    /\ seen \in [Paths -> SUBSET (Entry \cup {None})]
    /\ harmed \subseteq Contents /\ missed \subseteq Contents

Init ==
    /\ tree \in [Paths -> InitialFiles]
    /\ versions = 0 /\ changes = 0
    /\ cache = NoEntries
    /\ objects = [o \in Contents |-> None]
    /\ integrity = [o \in Contents |-> None]
    /\ published = {} /\ latest = None
    /\ kind = "create" /\ phase = "idle" /\ baseline = None
    /\ found = [p \in Paths |-> Unknown]
    /\ incomplete = FALSE /\ unstored = {} /\ created = {} /\ hashed = {}
    /\ updates = [o \in Contents |-> None] /\ scans = 0
    /\ seen = [p \in Paths |-> {}] /\ harmed = {} /\ missed = {}

-----------------------------------------------------------------------------
(* The user, and other programs. *)

AsEntry(f) == IF f = None THEN None ELSE [data |-> f.data, time |-> f.time]

Edit(p) ==
    /\ changes < MaxChanges /\ changes' = changes + 1
    /\ versions' = versions + 1
    /\ \E f \in [data : Written, time : Times, ver : {versions + 1}] \cup {None} :
         /\ f # None \/ tree[p] # None
         /\ tree' = [tree EXCEPT ![p] = f]
         /\ seen' = [seen EXCEPT ![p] = @ \cup (IF phase = "idle" THEN {} ELSE {AsEntry(f)})]
    /\ UNCHANGED <<caches, store, scan, harmed, missed>>

(* Something writes into a stored object, in place. *)
Damage(o) ==
    /\ changes < MaxChanges /\ changes' = changes + 1
    /\ objects[o] # None
    /\ versions' = versions + 1
    /\ \E d \in Written : objects' = [objects EXCEPT ![o] = [ver |-> versions + 1, data |-> d]]
    /\ harmed' = harmed \cup {o}
    /\ UNCHANGED <<tree, caches, published, latest, scan, seen, missed>>

(* A restore or discard, before it changes the files at the paths ps; it   *)
(* holds the exclusive lock.  When the rows cannot be deleted the database *)
(* is.                                                                     *)
invalidate_file_fingerprints(ps) ==
    /\ phase = "idle"
    /\ \/ cache' = [p \in Paths |-> IF p \in ps THEN None ELSE cache[p]]
          /\ UNCHANGED integrity
       \/ cache' = NoEntries /\ integrity' = [o \in Contents |-> None]
    /\ UNCHANGED <<disk, store, scan, seen, harmed, missed>>

(* When an operation ends, in whatever way, what it knew goes with it. *)
EndScan ==
    /\ phase' = "idle"
    /\ kind' = "create" /\ baseline' = None
    /\ found' = [p \in Paths |-> Unknown]
    /\ incomplete' = FALSE /\ unstored' = {} /\ created' = {} /\ hashed' = {}
    /\ updates' = [o \in Contents |-> None]
    /\ seen' = [p \in Paths |-> {}]
    /\ UNCHANGED <<disk, store, scans, harmed, missed>>

-----------------------------------------------------------------------------
(* The walk.  A creation compares with the latest checkpoint, a diff with  *)
(* the one it was given.                                                   *)

Begin(k, b) ==
    /\ phase = "idle" /\ scans < MaxScans
    /\ CASE k = "create" -> b = latest /\ Cardinality(published) < MaxCheckpoints
         [] OTHER        -> b \in published
    /\ kind' = k /\ baseline' = b
    /\ phase' = "walk"
    /\ found' = [p \in Paths |-> Unknown]
    /\ incomplete' = FALSE /\ unstored' = {} /\ created' = {} /\ hashed' = {}
    /\ updates' = [o \in Contents |-> None]
    /\ scans' = scans + 1
    /\ seen' = [p \in Paths |-> {AsEntry(tree[p])}]
    /\ UNCHANGED <<disk, caches, store, harmed, missed>>

Learn(p, k, ok) ==
    /\ found' = [found EXCEPT ![p] = k]
    /\ incomplete' = (incomplete \/ ~ok)
    /\ UNCHANGED <<disk, caches, store, kind, phase, baseline, unstored, created, hashed,
                   updates, scans, seen, harmed, missed>>

All(sts) == \A p \in Paths : found[p].st \in sts

(* A folder, or an entry of it, that cannot be read leaves the walk        *)
(* incomplete.                                                             *)
collect_project_files(p) ==
    /\ phase = "walk" /\ found[p].st = "todo"
    /\ \/ /\ tree[p] = None
          /\ Learn(p, [Unknown EXCEPT !.st = "gone"], TRUE)
       \/ /\ tree[p] # None
          /\ Learn(p, [Unknown EXCEPT !.st = "walked", !.time = tree[p].time], TRUE)
       \/ Learn(p, [Unknown EXCEPT !.st = "failed"], FALSE)

(* The assessment: the fingerprint is taken, and the content is reused     *)
(* when the cache knows it and the baseline agrees.                        *)
Reusable(p, f) ==
    /\ cache[p] # None
    /\ baseline # None /\ baseline[p] # None
    /\ cache[p].ver = f.ver /\ cache[p].time = f.time
    /\ baseline[p].data = cache[p].data
    /\ baseline[p].time = f.time

(* The fault: a file that vanished or changed since the walk is left out   *)
(* without a word.                                                         *)
AssessQuietly(p) ==
    /\ phase = "assess" /\ found[p].st = "walked"
    /\ LET f == tree[p] IN
       IF f = None \/ f.time # found[p].time
       THEN Learn(p, [Unknown EXCEPT !.st = "failed"], TRUE)
       ELSE LET assessed == [found[p] EXCEPT !.ver = f.ver] IN
            IF Reusable(p, f)
            THEN Learn(p, [assessed EXCEPT !.st = "hashed", !.data = cache[p].data], TRUE)
            ELSE Learn(p, [assessed EXCEPT !.st = "assessed"], TRUE)

Assess(p) ==
    /\ phase = "assess" /\ found[p].st = "walked"
    /\ LET f == tree[p] IN
       IF f = None \/ f.time # found[p].time
       THEN Learn(p, [Unknown EXCEPT !.st = "failed"], FALSE)
       ELSE LET assessed == [found[p] EXCEPT !.ver = f.ver] IN
            IF Reusable(p, f)
            THEN Learn(p, [assessed EXCEPT !.st = "hashed", !.data = cache[p].data], TRUE)
            ELSE Learn(p, [assessed EXCEPT !.st = "assessed"], TRUE)

(* Hashing reads the first half, then the second, then looks at the        *)
(* version of the file, its binding to the path and its fingerprint.       *)
StartHash(p) ==
    /\ phase = "hash" /\ found[p].st = "assessed"
    /\ IF tree[p] = None
       THEN Learn(p, [Unknown EXCEPT !.st = "failed"], FALSE)
       ELSE Learn(p, [found[p] EXCEPT !.st = "reading", !.data = tree[p].data], TRUE)

(* The fault: the file is taken for unchanged when its modification time   *)
(* is the same.                                                            *)
HashAcceptedByTime(p) ==
    /\ tree[p] # None
    /\ tree[p].time = found[p].time

HashAccepted(p) ==
    /\ tree[p] # None
    /\ tree[p].ver = found[p].ver /\ tree[p].time = found[p].time

FinishHash(p) ==
    /\ phase = "hash" /\ found[p].st = "reading"
    /\ IF HashAccepted(p)
       THEN Learn(p, [found[p] EXCEPT !.st = "hashed",
                                      !.data = <<found[p].data[1], tree[p].data[2]>>], TRUE)
       ELSE Learn(p, [Unknown EXCEPT !.st = "failed"], FALSE)

(* Each phase ends when every path is through it. *)
NextPhase ==
    /\ \/ /\ phase = "walk" /\ kind # "metadata" /\ All({"gone", "walked", "failed"})
          /\ phase' = "assess"
       \/ phase = "assess" /\ All({"gone", "assessed", "hashed", "failed"}) /\ phase' = "hash"
       \/ /\ phase = "hash" /\ kind = "create" /\ All({"gone", "hashed", "failed"})
          /\ ~incomplete
          /\ phase' = "preload"
    /\ UNCHANGED <<disk, caches, store, kind, baseline, found, incomplete, unstored, created,
                   hashed, updates, scans, seen, harmed, missed>>

(* A creation that could not read a file ends there. *)
RefuseIncomplete ==
    /\ phase = "hash" /\ kind = "create" /\ All({"gone", "hashed", "failed"})
    /\ incomplete
    /\ EndScan /\ UNCHANGED caches

-----------------------------------------------------------------------------
(* Diffs. *)

ReadyToReport ==
    \/ phase = "walk" /\ kind = "metadata" /\ All({"gone", "walked", "failed"})
    \/ phase = "hash" /\ kind = "diff" /\ All({"gone", "hashed", "failed"})

Working(p) == found[p].st \in {"walked", "hashed"}

(* compare_maps: a file that was not found is unknown when the scan is     *)
(* incomplete, else deleted.                                               *)
Deleted  == {p \in Paths : baseline[p] # None /\ ~Working(p) /\ ~incomplete}
Missing  == {p \in Paths : baseline[p] # None /\ ~Working(p) /\ incomplete}
Added    == {p \in Paths : baseline[p] = None /\ Working(p)}
Modified == {p \in Paths : /\ baseline[p] # None /\ Working(p)
                           /\ \/ found[p].time # baseline[p].time
                              \/ kind = "diff" /\ found[p].data # baseline[p].data}
Unchanged == {p \in Paths : baseline[p] # None /\ Working(p)} \ Modified

Report == ReadyToReport /\ EndScan /\ UNCHANGED caches

-----------------------------------------------------------------------------
(* Storing the objects of a creation, and publishing it. *)

Scanned == {p \in Paths : found[p].st = "hashed"}
Needed == {found[p].data : p \in Scanned}
Snapshot == [p \in Paths |-> IF p \in Scanned
                             THEN [data |-> found[p].data, time |-> found[p].time]
                             ELSE None]

Intact(o) == objects[o] # None /\ objects[o].data = o
(* The fault: any recorded fingerprint will do. *)
CacheHasRow(o) == integrity[o] # None
CacheMatches(o) == integrity[o] = objects[o].ver

(* An object whose fingerprint is the recorded one is taken as it is; any  *)
(* other is read.                                                          *)
preload_available_current_objects ==
    /\ phase = "preload"
    /\ LET present   == {o \in Needed : objects[o] # None}
           available == {o \in present : CacheMatches(o) \/ Intact(o)}
       IN /\ unstored' = Needed \ available
          /\ hashed' = {o \in available : ~CacheMatches(o)}
          /\ harmed' = harmed \ available
          /\ missed' = missed \ hashed'
    /\ phase' = "fingerprint"
    /\ UNCHANGED <<disk, caches, store, kind, baseline, found, incomplete, created, updates,
                   scans, seen>>

(* The fingerprints of the objects that were read are taken afterwards,    *)
(* and not compared with what was read.                                    *)
FingerprintsTaken == [o \in Contents |-> IF o \in hashed THEN objects[o].ver ELSE updates[o]]

TakeFingerprints ==
    /\ updates' = FingerprintsTaken
    /\ hashed' = {}
    /\ missed' = missed \cup (hashed \cap harmed)

FingerprintPreloaded ==
    /\ phase = "fingerprint"
    /\ TakeFingerprints
    /\ phase' = "store"
    /\ UNCHANGED <<disk, caches, store, kind, baseline, found, incomplete, unstored, created,
                   scans, seen, harmed>>

SourceHas(p, o) == tree[p] # None /\ tree[p].data = o
SourceChanged(p) == tree[p] # None => tree[p].ver # found[p].ver

(* put_object_from_file_with_known_hash_impl copies the object from a path *)
(* that had it.  It keeps an object that turned up intact, replaces a      *)
(* damaged one, and refuses when the file no longer has the content.       *)
PutObject(o) ==
    /\ phase = "store" /\ o \in unstored
    /\ \/ Intact(o) /\ UNCHANGED <<objects, versions, created>>
       \/ /\ ~Intact(o)
          /\ \E p \in Scanned : found[p].data = o /\ SourceHas(p, o)
          /\ versions' = versions + 1
          /\ objects' = [objects EXCEPT ![o] = [ver |-> versions + 1, data |-> o]]
          /\ created' = created \cup {o}
    /\ unstored' = unstored \ {o}
    /\ harmed' = harmed \ {o} /\ missed' = missed \ {o}
    /\ UNCHANGED <<tree, changes, caches, published, latest, kind, phase, baseline, found,
                   incomplete, hashed, updates, scans, seen>>

RefuseObject(o) ==
    /\ phase = "store" /\ o \in unstored
    /\ ~Intact(o)
    /\ \E p \in Scanned : found[p].data = o /\ SourceChanged(p)
    /\ EndScan /\ UNCHANGED caches

StoreDone ==
    /\ phase = "store" /\ unstored = {}
    /\ phase' = "readback"
    /\ UNCHANGED <<disk, caches, store, kind, baseline, found, incomplete, created, unstored,
                   hashed, updates, scans, seen, harmed, missed>>

(* Every object the creation wrote is read back. *)
Readback ==
    /\ phase = "readback"
    /\ \A o \in created : Intact(o)
    /\ phase' = "record"
    /\ hashed' = created
    /\ harmed' = harmed \ created
    /\ missed' = missed \ created
    /\ UNCHANGED <<disk, caches, store, kind, baseline, found, incomplete, created, unstored,
                   updates, scans, seen>>

ReadbackFails ==
    /\ phase = "readback"
    /\ \E o \in created : ~Intact(o)
    /\ EndScan /\ UNCHANGED caches

(* The fingerprints of all that was read go into the cache, which may fail. *)
RecordFingerprints ==
    /\ phase = "record"
    /\ TakeFingerprints
    /\ \/ integrity' = [o \in Contents |-> IF FingerprintsTaken[o] = None THEN integrity[o]
                                            ELSE FingerprintsTaken[o]]
       \/ UNCHANGED integrity
    /\ phase' = "publish"
    /\ UNCHANGED <<disk, cache, store, kind, baseline, found, incomplete, created, unstored,
                   scans, seen, harmed>>

(* The publication itself is the subject of CheckpointRepo. *)
Publish ==
    /\ phase = "publish"
    /\ published' = published \cup {Snapshot}
    /\ latest' = Snapshot
    /\ phase' = "refresh"
    /\ UNCHANGED <<disk, caches, objects, kind, baseline, found, incomplete, created, unstored,
                   hashed, updates, scans, seen, harmed, missed>>

(* Rows of paths the scan did not see are dropped. *)
(* The fault: the fingerprint is taken anew when the rows are written. *)
FingerprintNow(p) == [time |-> found[p].time,
                      ver |-> IF tree[p] = None THEN found[p].ver ELSE tree[p].ver,
                      data |-> found[p].data]
(* The fault: the modification time is not recorded. *)
FingerprintUntimed(p) == [time |-> None, ver |-> found[p].ver, data |-> found[p].data]
Fingerprint(p) == [time |-> found[p].time, ver |-> found[p].ver, data |-> found[p].data]

refresh_file_fingerprints ==
    /\ phase = "refresh"
    /\ cache' = [p \in Paths |-> IF p \in Scanned THEN Fingerprint(p) ELSE None]
    /\ EndScan /\ UNCHANGED integrity

(* The operation is cancelled, fails, or its process ends. *)
Abort == phase # "idle" /\ EndScan /\ UNCHANGED caches

Next ==
    \/ \E p \in Paths : Edit(p)
    \/ \E o \in Contents : Damage(o)
    \/ \E ps \in (SUBSET Paths) \ {{}} : invalidate_file_fingerprints(ps)
    \/ \E k \in {"create", "diff", "metadata"}, b \in published \cup {latest} : Begin(k, b)
    \/ \E p \in Paths : \/ collect_project_files(p)
                        \/ Assess(p)
                        \/ StartHash(p)
                        \/ FinishHash(p)
    \/ NextPhase
    \/ RefuseIncomplete
    \/ Report
    \/ preload_available_current_objects
    \/ FingerprintPreloaded
    \/ \E o \in Contents : PutObject(o) \/ RefuseObject(o)
    \/ StoreDone
    \/ Readback
    \/ ReadbackFails
    \/ RecordFingerprints
    \/ Publish
    \/ refresh_file_fingerprints
    \/ Abort

Spec == Init /\ [][Next]_vars

-----------------------------------------------------------------------------
(* Properties. *)

(* What a scan says of a file, in a checkpoint or in a diff: the content   *)
(* and the modification time were in that file together, at some moment    *)
(* since the scan began.  It holds although the walk, the fingerprint, the *)
(* two ends of the hashing and a cache filled by an earlier checkpoint     *)
(* each saw the file at a different time.                                  *)
ReadingsAreTrue ==
    phase # "idle" =>
        \A p \in Scanned : [data |-> found[p].data, time |-> found[p].time] \in seen[p]

(* A diff that reports a file as deleted (compare_maps) saw its path empty *)
(* at some moment of the scan, and one that reports it as added, modified  *)
(* or unchanged saw a file there.                                          *)
DiffsAreTrue ==
    ReadyToReport =>
        /\ \A p \in Deleted : None \in seen[p]
        /\ \A p \in Added \cup Modified : seen[p] \ {None} # {}
        /\ \A p \in Unchanged : \E e \in seen[p] :
              IF kind = "diff" THEN e = baseline[p]
              ELSE e # None /\ e.time = baseline[p].time

(* A row of file_fingerprints whose fingerprint is the one of the file     *)
(* names the content of the file.                                          *)
CacheIsTrue ==
    \A p \in Paths :
        cache[p] # None /\ tree[p] # None
        /\ cache[p].ver = tree[p].ver /\ cache[p].time = tree[p].time
        => cache[p].data = tree[p].data

(* When a checkpoint becomes visible every object it names is there and    *)
(* intact, unless it was damaged after this creation last looked at it, or *)
(* once between the reading and the fingerprint of an earlier or of this   *)
(* creation: all other damage the integrity cache notices, although it     *)
(* spares a creation the reading.                                          *)
PublishesIntactObjects ==
    phase = "publish" =>
        \A o \in Needed : objects[o] # None /\ (Intact(o) \/ o \in harmed \cup missed)
=============================================================================
