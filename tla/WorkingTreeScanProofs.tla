------------------------ MODULE WorkingTreeScanProofs ------------------------
(***************************************************************************)
(* Proofs about WorkingTreeScan, for any paths, contents and modification  *)
(* times, and any number of edits, checkpoints and scans.                  *)
(***************************************************************************)
EXTENDS WorkingTreeScan, TLAPS

-----------------------------------------------------------------------------
(* The inductive invariants. *)

(* What is known of a path by the time it is in a state. *)
WellKnown(k) ==
    /\ k.st \in {"walked", "assessed", "reading", "hashed"} => k.time # None
    /\ k.st \in {"assessed", "reading", "hashed"} => k.ver # None
    /\ k.st \in {"reading", "hashed"} => k.data # None

(* No version is given out before its time: the next write makes a file    *)
(* that no cache and no operation knows.                                   *)
VersionsGiven ==
    /\ \A p \in Paths : /\ tree[p] # None => tree[p].ver <= versions
                        /\ cache[p] # None => cache[p].ver <= versions
                        /\ found[p].ver # None => found[p].ver <= versions
    /\ \A o \in Contents : /\ objects[o] # None => objects[o].ver <= versions
                           /\ integrity[o] # None => integrity[o] <= versions
                           /\ updates[o] # None => updates[o] <= versions

(* What was read of a file is its content as long as the fingerprint, that *)
(* was taken before, is the one of the file.                               *)
FoundIsTrue ==
    \A p \in Paths :
        /\ found[p].st \in {"reading", "hashed"} /\ tree[p] # None
        /\ tree[p].ver = found[p].ver /\ tree[p].time = found[p].time
        => found[p].data = tree[p].data

ScanInv ==
    /\ TypeOK
    /\ \A p \in Paths : WellKnown(found[p])
    /\ \A o \in hashed : objects[o] # None
    /\ VersionsGiven
    /\ CacheIsTrue
    /\ FoundIsTrue

(* What an operation knows of a path was there since it began. *)
SeenInv ==
    phase # "idle" =>
        /\ kind # "create" => baseline # None
        /\ \A p \in Paths :
             /\ AsEntry(tree[p]) \in seen[p]
             /\ found[p].st = "gone" => None \in seen[p]
             /\ found[p].st = "walked" =>
                  \E e \in seen[p] : e # None /\ e.time = found[p].time
             /\ found[p].st = "hashed" =>
                  [data |-> found[p].data, time |-> found[p].time] \in seen[p]
             /\ found[p].st = "failed" => incomplete

(* An object with a recorded fingerprint is intact, and so is one that was *)
(* just read and one that the creation need not store any more, unless it  *)
(* was damaged since or between its reading and its fingerprint.           *)
ObjectsInv ==
    /\ \A o \in Contents :
         objects[o] # None /\ objects[o].ver \in {integrity[o], updates[o]} =>
             objects[o].data = o \/ o \in missed
    /\ phase \in {"fingerprint", "record"} =>
         \A o \in hashed : objects[o] # None /\ (Intact(o) \/ o \in harmed)
    /\ phase \in {"fingerprint", "store", "readback", "record", "publish"} =>
         \A o \in Needed \ unstored :
            objects[o] # None /\ (Intact(o) \/ o \in harmed \cup missed)
    /\ phase \in {"readback", "record", "publish"} => unstored = {}

-----------------------------------------------------------------------------
(* Contents. *)

(* A content is its two halves, and what programs write are contents. *)
LEMMA Halves ==
    /\ Written \subseteq Contents
    /\ \A c \in Contents : c = <<c[1], c[2]>>
    /\ \A c, d \in Contents : <<c[1], d[2]>> \in Contents
<1>1. Written \subseteq Contents
  BY ScanAssumption DEF Contents
<1>2. \A c \in Contents : c = <<c[1], c[2]>>
  BY DEF Contents
<1>3. ASSUME NEW c \in Contents, NEW d \in Contents PROVE <<c[1], d[2]>> \in Contents
  <2>1. PICK w \in Written, x \in Written : c = <<w[1], x[2]>>
    BY DEF Contents
  <2>2. PICK y \in Written, z \in Written : d = <<y[1], z[2]>>
    BY DEF Contents
  <2>3. c[1] = w[1] /\ d[2] = z[2]
    BY <2>1, <2>2
  <2>4. QED
    BY <2>3 DEF Contents
<1>4. QED
  BY <1>1, <1>2, <1>3

-----------------------------------------------------------------------------
(* The operations that read a file. *)

(* What a step learns of a path, and how that relates to the file. *)
Learned(p, k, ok) ==
    \/ k.st = "gone" /\ tree[p] = None
    \/ k.st = "walked" /\ tree[p] # None /\ k.time = tree[p].time
    \/ k.st = "failed" /\ ~ok
    \/ k.st = "assessed" /\ tree[p] # None /\ k.time = tree[p].time /\ k.ver = tree[p].ver
    \/ /\ k.st = "reading" /\ tree[p] # None /\ k.data = tree[p].data
       /\ k.time = found[p].time /\ k.ver = found[p].ver
    \/ /\ k.st = "hashed" /\ tree[p] # None
       /\ k.time = tree[p].time /\ k.ver = tree[p].ver /\ k.data = tree[p].data

Reads(p) == collect_project_files(p) \/ Assess(p) \/ StartHash(p) \/ FinishHash(p)

(* The walk, the assessment and the hashing learn what is so: a content    *)
(* that is taken from the cache, or put together from two reads, is the    *)
(* one of the file.                                                        *)
LEMMA ReadsLearn ==
    ASSUME ScanInv, NEW p \in Paths, Reads(p)
    PROVE  \E k \in Known, ok \in BOOLEAN :
             /\ Learn(p, k, ok) /\ WellKnown(k) /\ Learned(p, k, ok)
             /\ k.ver # None => k.ver <= versions
             /\ phase \in {"walk", "assess", "hash"}
<1> USE ScanAssumption
<1>0. /\ tree[p] \in File \cup {None} /\ found[p] \in Known /\ WellKnown(found[p])
      /\ cache[p] \in [time : Times, ver : Versions, data : Contents] \cup {None}
      /\ versions \in Nat
  BY DEF ScanInv, TypeOK, Versions
<1>u. /\ Unknown.time = None /\ Unknown.ver = None /\ Unknown.data = None
      /\ \A s \in {"gone", "failed"} :
           /\ [Unknown EXCEPT !.st = s] \in Known
           /\ [Unknown EXCEPT !.st = s].st = s /\ [Unknown EXCEPT !.st = s].ver = None
      /\ WellKnown([Unknown EXCEPT !.st = "gone"]) /\ WellKnown([Unknown EXCEPT !.st = "failed"])
  BY DEF Unknown, Known, WellKnown
<1>f. ASSUME Learn(p, [Unknown EXCEPT !.st = "failed"], FALSE), phase \in {"walk", "assess", "hash"}
      PROVE  \E k \in Known, ok \in BOOLEAN :
                /\ Learn(p, k, ok) /\ WellKnown(k) /\ Learned(p, k, ok)
                /\ k.ver # None => k.ver <= versions
                /\ phase \in {"walk", "assess", "hash"}
  <2>1. Learned(p, [Unknown EXCEPT !.st = "failed"], FALSE)
    BY <1>u DEF Learned
  <2>2. QED
    BY <2>1, <1>u, <1>f
<1>1. CASE collect_project_files(p)
  <2>1. CASE tree[p] = None /\ Learn(p, [Unknown EXCEPT !.st = "gone"], TRUE)
    <3>1. Learn(p, [Unknown EXCEPT !.st = "gone"], TRUE) /\ phase = "walk"
      BY <1>1, <2>1 DEF collect_project_files
    <3>2. Learned(p, [Unknown EXCEPT !.st = "gone"], TRUE)
      BY <2>1, <1>u DEF Learned
    <3>3. QED
      BY <3>1, <3>2, <1>u
  <2>2. CASE /\ tree[p] # None
             /\ Learn(p, [Unknown EXCEPT !.st = "walked", !.time = tree[p].time], TRUE)
    <3>1. PICK k : k = [Unknown EXCEPT !.st = "walked", !.time = tree[p].time]
      OBVIOUS
    <3>2. /\ k \in Known /\ k.st = "walked" /\ k.time = tree[p].time /\ k.ver = None
          /\ k.time # None
      BY <3>1, <2>2, <1>0 DEF Unknown, Known, File
    <3>3. Learn(p, k, TRUE) /\ phase = "walk"
      BY <1>1, <2>2, <3>1 DEF collect_project_files
    <3>4. WellKnown(k) /\ Learned(p, k, TRUE)
      BY <3>2, <2>2 DEF WellKnown, Learned
    <3>5. QED
      BY <3>2, <3>3, <3>4
  <2>3. CASE Learn(p, [Unknown EXCEPT !.st = "failed"], FALSE)
    BY <1>1, <2>3, <1>f DEF collect_project_files
  <2>4. QED
    BY <1>1, <2>1, <2>2, <2>3 DEF collect_project_files
<1>2. CASE Assess(p)
  <2>1. CASE tree[p] = None \/ tree[p].time # found[p].time
    BY <1>2, <2>1, <1>f DEF Assess
  <2>2. CASE tree[p] # None /\ tree[p].time = found[p].time
    <3>0. /\ found[p].st = "walked" /\ phase = "assess"
          /\ tree[p] \in File /\ tree[p].ver \in Nat /\ tree[p].ver # None
          /\ tree[p].ver <= versions
      BY <1>2, <2>2, <1>0 DEF Assess, File, Versions, ScanInv, VersionsGiven
    <3>1. CASE Reusable(p, tree[p])
      <4>1. PICK k : k = [[found[p] EXCEPT !.ver = tree[p].ver]
                            EXCEPT !.st = "hashed", !.data = cache[p].data]
        OBVIOUS
      <4>2. Learn(p, k, TRUE)
        BY <1>2, <2>2, <3>1, <4>1 DEF Assess
      <4>3. cache[p].data = tree[p].data
        BY <3>1, <2>2 DEF Reusable, ScanInv, CacheIsTrue
      <4>4. /\ k \in Known /\ k.st = "hashed" /\ k.time = tree[p].time /\ k.ver = tree[p].ver
            /\ k.data = tree[p].data /\ k.time # None /\ k.ver # None /\ k.data # None
        BY <4>1, <4>3, <3>0, <2>2, <1>0 DEF Known, File
      <4>5. WellKnown(k) /\ Learned(p, k, TRUE)
        BY <4>4, <2>2 DEF WellKnown, Learned
      <4>6. QED
        BY <4>2, <4>4, <4>5, <3>0
    <3>2. CASE ~Reusable(p, tree[p])
      <4>1. PICK k : k = [[found[p] EXCEPT !.ver = tree[p].ver] EXCEPT !.st = "assessed"]
        OBVIOUS
      <4>2. Learn(p, k, TRUE)
        BY <1>2, <2>2, <3>2, <4>1 DEF Assess
      <4>3. /\ k \in Known /\ k.st = "assessed" /\ k.time = tree[p].time /\ k.ver = tree[p].ver
            /\ k.time # None /\ k.ver # None
        BY <4>1, <3>0, <2>2, <1>0 DEF Known, File
      <4>4. WellKnown(k) /\ Learned(p, k, TRUE)
        BY <4>3, <2>2 DEF WellKnown, Learned
      <4>5. QED
        BY <4>2, <4>3, <4>4, <3>0
    <3>3. QED
      BY <3>1, <3>2
  <2>3. QED
    BY <2>1, <2>2
<1>3. CASE StartHash(p)
  <2>1. CASE tree[p] = None
    BY <1>3, <2>1, <1>f DEF StartHash
  <2>2. CASE tree[p] # None
    <3>1. PICK k : k = [found[p] EXCEPT !.st = "reading", !.data = tree[p].data]
      OBVIOUS
    <3>2. Learn(p, k, TRUE) /\ found[p].st = "assessed" /\ phase = "hash"
      BY <1>3, <2>2, <3>1 DEF StartHash
    <3>3. /\ k \in Known /\ k.st = "reading" /\ k.data = tree[p].data
          /\ k.time = found[p].time /\ k.ver = found[p].ver /\ k.data # None
      BY <3>1, <2>2, <1>0 DEF Known, File
    <3>4. WellKnown(k) /\ Learned(p, k, TRUE) /\ k.ver <= versions
      BY <3>2, <3>3, <2>2, <1>0 DEF WellKnown, Learned, ScanInv, VersionsGiven
    <3>5. QED
      BY <3>2, <3>3, <3>4
  <2>3. QED
    BY <2>1, <2>2
<1>4. CASE FinishHash(p)
  <2>1. CASE ~HashAccepted(p)
    BY <1>4, <2>1, <1>f DEF FinishHash
  <2>2. CASE HashAccepted(p)
    <3>0. /\ tree[p] # None /\ tree[p].ver = found[p].ver /\ tree[p].time = found[p].time
          /\ found[p].st = "reading" /\ phase = "hash" /\ tree[p].ver <= versions
      BY <1>4, <2>2, <1>0 DEF FinishHash, HashAccepted, ScanInv, VersionsGiven
    <3>1. found[p].data = tree[p].data /\ tree[p].data \in Contents
      BY <3>0, <1>0 DEF ScanInv, FoundIsTrue, File
    <3>2. <<found[p].data[1], tree[p].data[2]>> = tree[p].data
      BY <3>1, Halves
    <3>3. PICK k : k = [found[p] EXCEPT !.st = "hashed", !.data = tree[p].data]
      OBVIOUS
    <3>4. Learn(p, k, TRUE)
      BY <1>4, <2>2, <3>2, <3>3 DEF FinishHash
    <3>5. /\ k \in Known /\ k.st = "hashed" /\ k.time = tree[p].time /\ k.ver = tree[p].ver
          /\ k.data = tree[p].data /\ k.time # None /\ k.ver # None /\ k.data # None
      BY <3>0, <3>1, <3>3, <1>0 DEF Known, File
    <3>6. WellKnown(k) /\ Learned(p, k, TRUE)
      BY <3>5, <3>0 DEF WellKnown, Learned
    <3>7. QED
      BY <3>4, <3>5, <3>6, <3>0
  <2>3. QED
    BY <2>1, <2>2
<1>5. QED
  BY <1>1, <1>2, <1>3, <1>4 DEF Reads

-----------------------------------------------------------------------------
(* Types, versions and the truth of what was read. *)

(* Before anything was written or read. *)
LEMMA ScanInit == Init => ScanInv
<1> SUFFICES ASSUME Init PROVE ScanInv
  OBVIOUS
<1> USE ScanAssumption, Halves
<1>1. InitialFiles \subseteq File \cup {None}
  BY DEF File, Versions
<1>2. tree \in [Paths -> File \cup {None}] /\ \A p \in Paths : tree[p] # None => tree[p].ver = 0
  BY <1>1 DEF Init
<1>3. Unknown \in Known /\ WellKnown(Unknown) /\ Unknown.st = "todo" /\ Unknown.ver = None
  BY DEF Unknown, Known, WellKnown
<1>b. incomplete \in BOOLEAN
  BY DEF Init
<1>4. TypeOK
  <2>1. /\ cache = NoEntries /\ integrity = [o \in Contents |-> None]
        /\ objects = [o \in Contents |-> None] /\ updates = [o \in Contents |-> None]
        /\ found = [p \in Paths |-> Unknown] /\ seen = [p \in Paths |-> {}]
        /\ versions = 0 /\ changes = 0 /\ published = {} /\ latest = None /\ kind = "create"
        /\ phase = "idle" /\ baseline = None /\ unstored = {} /\ created = {} /\ scans = 0
        /\ harmed = {} /\ missed = {} /\ hashed = {}
    BY DEF Init
  <2>2. QED
    BY <2>1, <1>b, <1>2, <1>3 DEF TypeOK, Versions, NoEntries
<1>5. VersionsGiven
  BY <1>2, <1>3 DEF Init, VersionsGiven, NoEntries
<1>6. CacheIsTrue /\ FoundIsTrue
  BY <1>3 DEF Init, CacheIsTrue, FoundIsTrue, NoEntries
<1>7. QED
  BY <1>3, <1>4, <1>5, <1>6 DEF Init, ScanInv

(* What a publication makes a checkpoint of. *)
LEMMA SnapshotTyped ==
    ASSUME ScanInv
    PROVE  /\ Snapshot \in Checkpoint /\ Needed \subseteq Contents
           /\ \A p \in Scanned : Fingerprint(p) \in [time : Times, ver : Versions, data : Contents]
<1>1. ASSUME NEW p \in Scanned
      PROVE  found[p].time \in Times /\ found[p].ver \in Versions /\ found[p].data \in Contents
  <2>1. found[p] \in Known /\ WellKnown(found[p]) /\ found[p].st = "hashed"
    BY DEF ScanInv, TypeOK, Scanned
  <2>2. QED
    BY <2>1 DEF WellKnown, Known
<1>2. QED
  BY <1>1 DEF Snapshot, Checkpoint, Needed, Fingerprint, Entry

(* The steps that end an operation and change nothing else. *)
Ends == \/ RefuseIncomplete \/ Report \/ ReadbackFails \/ Abort
        \/ \E o \in Contents : RefuseObject(o)

(* Every step keeps the types, gives versions out in order, and keeps the  *)
(* cache and the readings true.                                            *)
LEMMA ScanStep == ScanInv /\ [Next]_vars => ScanInv'
<1> SUFFICES ASSUME ScanInv, [Next]_vars PROVE ScanInv'
  OBVIOUS
<1> USE ScanAssumption
<1>t. TypeOK /\ versions \in Nat /\ versions <= versions + 1 /\ versions + 1 \in Nat
  BY DEF ScanInv, TypeOK, Versions
<1>1. ASSUME NEW p \in Paths, Edit(p) PROVE ScanInv'
  <2>1. PICK f \in [data : Written, time : Times, ver : {versions + 1}] \cup {None} :
           /\ tree' = [tree EXCEPT ![p] = f]
           /\ seen' = [seen EXCEPT ![p] = @ \cup (IF phase = "idle" THEN {} ELSE {AsEntry(f)})]
    BY <1>1 DEF Edit
  <2>2. f \in File \cup {None} /\ (f # None => f.ver = versions + 1)
    BY <2>1, <1>t, Halves DEF File, Versions
  <2>3. AsEntry(f) \in Entry \cup {None}
    BY <2>2 DEF AsEntry, File, Entry
  <2>4. /\ versions' = versions + 1 /\ changes' = changes + 1 /\ changes < MaxChanges
        /\ UNCHANGED <<caches, store, scan, harmed, missed>>
    BY <1>1 DEF Edit
  <2>5. tree' \in [Paths -> File \cup {None}] /\ seen' \in [Paths -> SUBSET (Entry \cup {None})]
    BY <2>1, <2>2, <2>3, <1>t DEF TypeOK
  <2>6. TypeOK'
    BY <2>4, <2>5, <1>t DEF TypeOK, Versions, caches, store, scan
  <2>7. \A x \in Paths : x # p => tree'[x] = tree[x]
    BY <2>1, <1>t DEF TypeOK
  <2>8. tree'[p] = f
    BY <2>1, <1>t DEF TypeOK
  <2>9. VersionsGiven'
    <3>1. \A x \in Paths : tree'[x] # None => tree'[x].ver <= versions'
      <4>1. \A x \in Paths : tree[x] # None => tree[x].ver \in Nat
        BY <1>t DEF TypeOK, File, Versions
      <4>2. QED
        BY <2>2, <2>4, <2>7, <2>8, <1>t, <4>1 DEF ScanInv, VersionsGiven
    <3>2. \A x \in Paths : /\ cache[x] # None => cache[x].ver \in Nat
                           /\ found[x].ver # None => found[x].ver \in Nat
      BY <1>t DEF TypeOK, Known, Versions
    <3>3. \A o \in Contents : /\ objects[o] # None => objects[o].ver \in Nat
                              /\ integrity[o] # None => integrity[o] \in Nat
                              /\ updates[o] # None => updates[o] \in Nat
      BY <1>t DEF TypeOK, Versions
    <3>4. QED
      BY <3>1, <3>2, <3>3, <2>4, <1>t DEF ScanInv, VersionsGiven, caches, store, scan
  <2>10. \A x \in Paths : cache[x] # None => cache[x].ver \in Nat /\ cache[x].ver # versions + 1
    BY <1>t DEF TypeOK, Versions, ScanInv, VersionsGiven
  <2>11. CacheIsTrue'
    BY <2>10, <2>2, <2>4, <2>7, <2>8 DEF ScanInv, CacheIsTrue, caches
  <2>12. \A x \in Paths : found[x].ver # versions + 1
    BY <1>t DEF TypeOK, Known, Versions, ScanInv, VersionsGiven
  <2>13. FoundIsTrue'
    BY <2>12, <2>2, <2>4, <2>7, <2>8 DEF ScanInv, FoundIsTrue, scan
  <2>14. QED
    BY <2>4, <2>6, <2>9, <2>11, <2>13 DEF ScanInv, scan, store
<1>2. ASSUME NEW o \in Contents, Damage(o) PROVE ScanInv'
  <2>1. PICK d \in Written : objects' = [objects EXCEPT ![o] = [ver |-> versions + 1, data |-> d]]
    BY <1>2 DEF Damage
  <2>2. /\ versions' = versions + 1 /\ changes' = changes + 1 /\ changes < MaxChanges
        /\ harmed' = harmed \cup {o}
        /\ UNCHANGED <<tree, caches, published, latest, scan, seen, missed>>
    BY <1>2 DEF Damage
  <2>3. [ver |-> versions + 1, data |-> d] \in [ver : Versions, data : Contents]
    BY <1>t, Halves DEF Versions
  <2>4. objects' \in [Contents -> [ver : Versions, data : Contents] \cup {None}]
    BY <2>1, <2>3, <1>t DEF TypeOK
  <2>5. TypeOK'
    BY <2>2, <2>4, <1>t DEF TypeOK, Versions, caches, scan
  <2>6. \A x \in Contents : objects'[x] # None => objects'[x].ver <= versions'
    <3>1. \A x \in Contents : objects[x] # None => objects[x].ver \in Nat
      BY <1>t DEF TypeOK, Versions
    <3>2. QED
      BY <3>1, <2>1, <2>2, <1>t DEF TypeOK, ScanInv, VersionsGiven
  <2>7. VersionsGiven'
    <3>1. \A x \in Paths : /\ cache[x] # None => cache[x].ver \in Nat
                           /\ found[x].ver # None => found[x].ver \in Nat
                           /\ tree[x] # None => tree[x].ver \in Nat
      BY <1>t DEF TypeOK, Known, Versions, File
    <3>2. \A x \in Contents : /\ integrity[x] # None => integrity[x] \in Nat
                              /\ updates[x] # None => updates[x] \in Nat
      BY <1>t DEF TypeOK, Versions
    <3>3. QED
      BY <3>1, <3>2, <2>2, <2>6, <1>t DEF ScanInv, VersionsGiven, caches, scan
  <2>8. \A x \in hashed' : objects'[x] # None
    BY <2>1, <2>2, <2>3, <1>t DEF ScanInv, TypeOK, scan
  <2>9. QED
    BY <2>2, <2>5, <2>7, <2>8 DEF ScanInv, CacheIsTrue, FoundIsTrue, caches, scan
<1>3. ASSUME NEW ps, invalidate_file_fingerprints(ps) PROVE ScanInv'
  <2>1. /\ cache' \in [Paths -> [time : Times, ver : Versions, data : Contents] \cup {None}]
        /\ \A p \in Paths : cache'[p] \in {cache[p], None}
        /\ integrity' \in [Contents -> Versions \cup {None}]
        /\ \A o \in Contents : integrity'[o] \in {integrity[o], None}
    BY <1>3, <1>t DEF invalidate_file_fingerprints, NoEntries, TypeOK
  <2>2. UNCHANGED <<disk, store, scan, seen, harmed, missed>>
    BY <1>3 DEF invalidate_file_fingerprints
  <2>3. TypeOK'
    BY <2>1, <2>2, <1>t DEF TypeOK, disk, store, scan
  <2>4. VersionsGiven'
    BY <2>1, <2>2 DEF ScanInv, VersionsGiven, disk, store, scan
  <2>5. CacheIsTrue' /\ FoundIsTrue'
    BY <2>1, <2>2 DEF ScanInv, CacheIsTrue, FoundIsTrue, disk, scan
  <2>6. QED
    BY <2>2, <2>3, <2>4, <2>5 DEF ScanInv, scan, store
<1>4. ASSUME NEW k \in {"create", "diff", "metadata"}, NEW b \in published \cup {latest}, Begin(k, b)
      PROVE  ScanInv'
  <2>1. Unknown \in Known /\ WellKnown(Unknown) /\ Unknown.st = "todo" /\ Unknown.ver = None
    BY DEF Unknown, Known, WellKnown
  <2>2. /\ kind' = k /\ baseline' = b /\ phase' = "walk" /\ incomplete' = FALSE
        /\ unstored' = {} /\ created' = {} /\ hashed' = {} /\ scans' = scans + 1 /\ scans < MaxScans
        /\ updates' = [o \in Contents |-> None]
        /\ found' = [p \in Paths |-> Unknown]
        /\ seen' = [p \in Paths |-> {AsEntry(tree[p])}]
        /\ UNCHANGED <<disk, caches, store, harmed, missed>>
    BY <1>4 DEF Begin
  <2>3. \A p \in Paths : AsEntry(tree[p]) \in Entry \cup {None}
    BY <1>t DEF AsEntry, TypeOK, File, Entry
  <2>4. seen' \in [Paths -> SUBSET (Entry \cup {None})] /\ found' \in [Paths -> Known]
        /\ updates' \in [Contents -> Versions \cup {None}] /\ b \in Checkpoint \cup {None}
    BY <2>1, <2>2, <2>3, <1>t DEF TypeOK
  <2>b. incomplete' \in BOOLEAN
    BY <2>2
  <2>5. TypeOK'
    <3>1. /\ kind' = k /\ baseline' = b /\ phase' = "walk"
          /\ unstored' = {} /\ created' = {} /\ hashed' = {} /\ scans' = scans + 1 /\ scans < MaxScans
          /\ UNCHANGED <<disk, caches, store, harmed, missed>>
      BY <2>2
    <3>2. QED
      BY <3>1, <2>b, <2>4, <1>t DEF TypeOK, disk, caches, store
  <2>6. VersionsGiven'
    BY <2>1, <2>2 DEF ScanInv, VersionsGiven, disk, caches, store
  <2>7. CacheIsTrue' /\ FoundIsTrue'
    BY <2>1, <2>2 DEF ScanInv, CacheIsTrue, FoundIsTrue, disk, caches
  <2>8. QED
    BY <2>1, <2>2, <2>5, <2>6, <2>7 DEF ScanInv
<1>5. ASSUME NEW p \in Paths, Reads(p) PROVE ScanInv'
  <2>1. PICK k \in Known, ok \in BOOLEAN :
           /\ Learn(p, k, ok) /\ WellKnown(k) /\ Learned(p, k, ok)
           /\ k.ver # None => k.ver <= versions
    BY <1>5, ReadsLearn
  <2>2. /\ found' = [found EXCEPT ![p] = k] /\ incomplete' \in BOOLEAN
        /\ UNCHANGED <<disk, caches, store, kind, phase, baseline, unstored, created, hashed,
                       updates, scans, seen, harmed, missed>>
    BY <2>1, <1>t DEF Learn, TypeOK
  <2>3. /\ found' \in [Paths -> Known] /\ found'[p] = k
        /\ \A x \in Paths : x # p => found'[x] = found[x]
    BY <2>1, <2>2, <1>t DEF TypeOK
  <2>4. TypeOK'
    BY <2>2, <2>3, <1>t DEF TypeOK, disk, caches, store
  <2>5. VersionsGiven'
    BY <2>1, <2>2, <2>3 DEF ScanInv, VersionsGiven, disk, caches, store
  <2>6. CacheIsTrue'
    BY <2>2 DEF ScanInv, CacheIsTrue, disk, caches
  <2>7. FoundIsTrue'
    <3>1. /\ k.st \in {"reading", "hashed"} /\ tree[p] # None
          /\ tree[p].ver = k.ver /\ tree[p].time = k.time
          => k.data = tree[p].data
      BY <2>1 DEF Learned
    <3>2. QED
      BY <3>1, <2>2, <2>3 DEF ScanInv, FoundIsTrue, disk
  <2>8. \A x \in Paths : WellKnown(found'[x])
    BY <2>1, <2>3 DEF ScanInv
  <2>9. \A o \in hashed' : objects'[o] # None
    BY <2>2 DEF ScanInv, store
  <2>10. QED
    BY <2>4, <2>5, <2>6, <2>7, <2>8, <2>9 DEF ScanInv
<1>e. ASSUME EndScan, UNCHANGED integrity,
             cache' \in [Paths -> [time : Times, ver : Versions, data : Contents] \cup {None}],
             \A p \in Paths : cache'[p] # None => cache'[p].ver <= versions,
             CacheIsTrue'
      PROVE  ScanInv'
  <2>1. Unknown \in Known /\ WellKnown(Unknown) /\ Unknown.st = "todo" /\ Unknown.ver = None
    BY DEF Unknown, Known, WellKnown
  <2>2. /\ kind' = "create" /\ baseline' = None /\ phase' = "idle" /\ incomplete' = FALSE
        /\ unstored' = {} /\ created' = {} /\ hashed' = {}
        /\ updates' = [o \in Contents |-> None]
        /\ found' = [p \in Paths |-> Unknown]
        /\ seen' = [p \in Paths |-> {}]
        /\ UNCHANGED <<disk, store, scans, harmed, missed>>
    BY <1>e DEF EndScan
  <2>b. incomplete' \in BOOLEAN
    BY <2>2
  <2>3. TypeOK'
    <3>1. /\ seen' \in [Paths -> SUBSET (Entry \cup {None})] /\ found' \in [Paths -> Known]
          /\ updates' \in [Contents -> Versions \cup {None}]
      BY <2>1, <2>2
    <3>2. /\ kind' = "create" /\ baseline' = None /\ phase' = "idle"
          /\ unstored' = {} /\ created' = {} /\ hashed' = {}
          /\ UNCHANGED <<disk, store, scans, harmed, missed>>
      BY <2>2
    <3>3. QED
      BY <1>e, <3>1, <3>2, <2>b, <1>t DEF TypeOK, disk, store
  <2>4. VersionsGiven'
    BY <1>e, <2>1, <2>2 DEF ScanInv, VersionsGiven, disk, store
  <2>5. FoundIsTrue'
    BY <2>1, <2>2 DEF FoundIsTrue
  <2>6. QED
    BY <1>e, <2>1, <2>2, <2>3, <2>4, <2>5 DEF ScanInv
<1>6. CASE Ends
  <2>1. EndScan /\ UNCHANGED caches
    BY <1>6 DEF Ends, RefuseIncomplete, Report, ReadbackFails, Abort, RefuseObject
  <2>2. CacheIsTrue'
    BY <2>1 DEF ScanInv, CacheIsTrue, EndScan, disk, caches
  <2>3. QED
    BY <2>1, <2>2, <1>e, <1>t DEF caches, TypeOK, ScanInv, VersionsGiven
<1>m. CASE NextPhase
  <2>1. /\ phase' \in {"assess", "hash", "preload"}
        /\ UNCHANGED <<disk, caches, store, kind, baseline, found, incomplete, unstored, created,
                       hashed, updates, scans, seen, harmed, missed>>
    BY <1>m DEF NextPhase
  <2>2. TypeOK'
    BY <2>1, <1>t DEF TypeOK, disk, caches, store
  <2>3. QED
    BY <2>1, <2>2 DEF ScanInv, VersionsGiven, CacheIsTrue, FoundIsTrue, disk, caches, store
<1>7. CASE preload_available_current_objects
  <2>1. /\ phase' = "fingerprint" /\ unstored' \subseteq Contents /\ harmed' \subseteq Contents
        /\ hashed' \subseteq Contents /\ missed' \subseteq Contents
        /\ UNCHANGED <<disk, caches, store, kind, baseline, found, incomplete, created, updates,
                       scans, seen>>
    BY <1>7, <1>t, SnapshotTyped DEF preload_available_current_objects, TypeOK
  <2>2. TypeOK'
    BY <2>1, <1>t DEF TypeOK, disk, caches, store
  <2>3. QED
    BY <1>7, <2>1, <2>2 DEF ScanInv, VersionsGiven, CacheIsTrue, FoundIsTrue, disk, caches, store,
       preload_available_current_objects
<1>f. ASSUME TakeFingerprints
      PROVE  /\ FingerprintsTaken \in [Contents -> Versions \cup {None}]
             /\ updates' = FingerprintsTaken /\ hashed' = {} /\ missed' \subseteq Contents
             /\ \A o \in Contents : updates'[o] # None => updates'[o] <= versions
  <2>1. \A o \in hashed : objects[o] # None
    BY DEF ScanInv
  <2>2. FingerprintsTaken \in [Contents -> Versions \cup {None}]
    BY <2>1, <1>t DEF FingerprintsTaken, TypeOK
  <2>3. \A o \in Contents : FingerprintsTaken[o] # None => FingerprintsTaken[o] <= versions
    BY <2>1, <1>t DEF FingerprintsTaken, ScanInv, VersionsGiven
  <2>4. QED
    BY <1>f, <2>2, <2>3, <1>t DEF TakeFingerprints, TypeOK
<1>fp. CASE FingerprintPreloaded
  <2>1. /\ phase' = "store"
        /\ UNCHANGED <<disk, caches, store, kind, baseline, found, incomplete, unstored, created,
                       scans, seen, harmed>>
        /\ hashed' = {}
    BY <1>fp, <1>f DEF FingerprintPreloaded
  <2>2. /\ updates' \in [Contents -> Versions \cup {None}] /\ missed' \subseteq Contents
        /\ \A o \in Contents : updates'[o] # None => updates'[o] <= versions
    BY <1>fp, <1>f DEF FingerprintPreloaded
  <2>3. TypeOK'
    BY <2>1, <2>2, <1>t DEF TypeOK, disk, caches, store
  <2>4. QED
    BY <2>1, <2>2, <2>3 DEF ScanInv, VersionsGiven, CacheIsTrue, FoundIsTrue, disk, caches, store
<1>rf. CASE RecordFingerprints
  <2>1. /\ phase' = "publish"
        /\ UNCHANGED <<disk, cache, store, kind, baseline, found, incomplete, created, unstored,
                       scans, seen, harmed>>
        /\ hashed' = {}
    BY <1>rf, <1>f DEF RecordFingerprints
  <2>2. /\ FingerprintsTaken \in [Contents -> Versions \cup {None}] /\ missed' \subseteq Contents
        /\ updates' = FingerprintsTaken
        /\ \A o \in Contents : updates'[o] # None => updates'[o] <= versions
    BY <1>rf, <1>f DEF RecordFingerprints
  <2>3. /\ integrity' \in [Contents -> Versions \cup {None}]
        /\ \A o \in Contents : integrity'[o] # None => integrity'[o] \in {integrity[o], updates'[o]}
    BY <1>rf, <2>2, <1>t DEF RecordFingerprints, TypeOK
  <2>4. TypeOK'
    BY <2>1, <2>2, <2>3, <1>t DEF TypeOK, disk, store
  <2>5. VersionsGiven'
    BY <2>1, <2>2, <2>3 DEF ScanInv, VersionsGiven, disk, store
  <2>6. QED
    BY <2>1, <2>4, <2>5 DEF ScanInv, CacheIsTrue, FoundIsTrue, disk, store
<1>8. ASSUME NEW o \in Contents, PutObject(o) PROVE ScanInv'
  <2>1. /\ unstored' \subseteq Contents /\ created' \subseteq Contents
        /\ harmed' \subseteq Contents /\ missed' \subseteq Contents
        /\ UNCHANGED <<tree, changes, caches, published, latest, kind, phase, baseline, found,
                       incomplete, hashed, updates, scans, seen>>
    BY <1>8, <1>t DEF PutObject, TypeOK
  <2>2. \/ versions' = versions /\ objects' = objects
        \/ versions' = versions + 1 /\ objects' = [objects EXCEPT ![o] = [ver |-> versions + 1, data |-> o]]
    BY <1>8 DEF PutObject
  <2>3. /\ versions' \in Nat /\ versions <= versions'
        /\ objects' \in [Contents -> [ver : Versions, data : Contents] \cup {None}]
    BY <2>2, <1>t DEF TypeOK, Versions
  <2>4. TypeOK'
    BY <2>1, <2>3, <1>t DEF TypeOK, caches, Versions
  <2>5. \A x \in Contents : objects'[x] # None => objects'[x].ver <= versions'
    <3>1. \A x \in Contents : objects[x] # None => objects[x].ver \in Nat
      BY <1>t DEF TypeOK, Versions
    <3>2. QED
      BY <3>1, <2>2, <1>t DEF TypeOK, ScanInv, VersionsGiven
  <2>6. VersionsGiven'
    <3>1. \A x \in Paths : /\ cache[x] # None => cache[x].ver \in Nat
                           /\ found[x].ver # None => found[x].ver \in Nat
                           /\ tree[x] # None => tree[x].ver \in Nat
      BY <1>t DEF TypeOK, Known, Versions, File
    <3>2. \A x \in Contents : /\ integrity[x] # None => integrity[x] \in Nat
                              /\ updates[x] # None => updates[x] \in Nat
      BY <1>t DEF TypeOK, Versions
    <3>3. QED
      BY <3>1, <3>2, <2>1, <2>3, <2>5, <1>t DEF ScanInv, VersionsGiven, caches
  <2>7. \A x \in hashed' : objects'[x] # None
    <3>1. [ver |-> versions + 1, data |-> o] \in [ver : Versions, data : Contents]
      BY <1>t DEF Versions
    <3>2. QED
      BY <3>1, <2>1, <2>2, <1>t DEF ScanInv, TypeOK
  <2>8. QED
    BY <2>1, <2>4, <2>6, <2>7 DEF ScanInv, CacheIsTrue, FoundIsTrue, caches
<1>9. CASE StoreDone
  BY <1>9, <1>t DEF StoreDone, ScanInv, TypeOK, VersionsGiven, CacheIsTrue, FoundIsTrue,
                    disk, caches, store
<1>10. CASE Readback
  <2>1. /\ phase' = "record" /\ hashed' = created /\ harmed' \subseteq Contents
        /\ missed' \subseteq Contents /\ hashed' \subseteq Contents
        /\ UNCHANGED <<disk, caches, store, kind, baseline, found, incomplete, created, unstored,
                       updates, scans, seen>>
        /\ \A o \in created : objects[o] # None
    BY <1>10, <1>t DEF Readback, TypeOK, Intact
  <2>2. TypeOK'
    BY <2>1, <1>t DEF TypeOK, disk, caches, store
  <2>3. QED
    BY <2>1, <2>2 DEF ScanInv, VersionsGiven, CacheIsTrue, FoundIsTrue, disk, caches, store
<1>11. CASE Publish
  <2>1. TypeOK'
    BY <1>11, <1>t, SnapshotTyped DEF Publish, TypeOK, disk, caches
  <2>2. QED
    BY <1>11, <2>1 DEF Publish, ScanInv, VersionsGiven, CacheIsTrue, FoundIsTrue, disk, caches
<1>12. CASE refresh_file_fingerprints
  <2>1. cache' = [p \in Paths |-> IF p \in Scanned THEN Fingerprint(p) ELSE None]
    BY <1>12 DEF refresh_file_fingerprints
  <2>2. EndScan /\ UNCHANGED integrity
    BY <1>12 DEF refresh_file_fingerprints
  <2>3. cache' \in [Paths -> [time : Times, ver : Versions, data : Contents] \cup {None}]
    BY <2>1, SnapshotTyped
  <2>4. \A p \in Paths : cache'[p] # None =>
          /\ p \in Scanned /\ cache'[p].time = found[p].time /\ cache'[p].ver = found[p].ver
          /\ cache'[p].data = found[p].data
    BY <2>1 DEF Fingerprint
  <2>5. \A p \in Scanned : found[p].ver # None /\ found[p].st = "hashed"
    BY DEF ScanInv, WellKnown, Scanned
  <2>6. \A p \in Paths : cache'[p] # None => cache'[p].ver <= versions
    BY <2>4, <2>5 DEF ScanInv, VersionsGiven
  <2>7. CacheIsTrue'
    BY <2>2, <2>4, <2>5 DEF ScanInv, CacheIsTrue, FoundIsTrue, EndScan, disk
  <2>8. QED
    BY <2>2, <2>3, <2>6, <2>7, <1>e
<1>13. CASE UNCHANGED vars
  BY <1>13, <1>t DEF vars, disk, caches, store, scan, ScanInv, TypeOK, VersionsGiven,
     CacheIsTrue, FoundIsTrue
<1>14. QED
  BY <1>1, <1>2, <1>3, <1>4, <1>5, <1>6, <1>m, <1>7, <1>fp, <1>8, <1>9, <1>10, <1>rf, <1>11,
     <1>12, <1>13
     DEF Next, Reads, Ends

(* Whatever others do to the files, a scan leaves its results, the caches  *)
(* and the objects within their types.                                     *)
THEOREM ScanTypeCorrect == Spec => []TypeOK
<1>1. ScanInv => TypeOK
  BY DEF ScanInv
<1>2. QED
  BY <1>1, ScanInit, ScanStep, PTL DEF Spec

(* A row of file_fingerprints never vouches for a content the file does    *)
(* not have: for any number of files, edits, scans and restores, whatever  *)
(* is edited while it is read.                                             *)
THEOREM CacheStaysTrue == Spec => []CacheIsTrue
<1>1. ScanInv => CacheIsTrue
  BY DEF ScanInv
<1>2. QED
  BY <1>1, ScanInit, ScanStep, PTL DEF Spec

-----------------------------------------------------------------------------
(* What a scan says was so since it began. *)

(* No scan runs at first. *)
LEMMA SeenInit == Init => SeenInv
BY DEF Init, SeenInv

(* Edits are seen, and what is learned of a path is in what was seen. *)
LEMMA SeenStep == ScanInv /\ SeenInv /\ [Next]_vars => SeenInv'
<1> SUFFICES ASSUME ScanInv, SeenInv, [Next]_vars PROVE SeenInv'
  OBVIOUS
<1> USE ScanAssumption
<1>t. TypeOK
  BY DEF ScanInv
<1>1. ASSUME NEW p \in Paths, Edit(p) PROVE SeenInv'
  <2>1. PICK f : /\ tree' = [tree EXCEPT ![p] = f]
                 /\ seen' = [seen EXCEPT ![p] = @ \cup (IF phase = "idle" THEN {} ELSE {AsEntry(f)})]
                 /\ UNCHANGED scan
    BY <1>1 DEF Edit
  <2>2. /\ tree'[p] = f /\ \A x \in Paths : x # p => tree'[x] = tree[x]
        /\ \A x \in Paths : seen[x] \subseteq seen'[x]
        /\ phase # "idle" => AsEntry(f) \in seen'[p]
    BY <2>1, <1>t DEF TypeOK
  <2>3. \A x \in Paths : phase # "idle" => AsEntry(tree'[x]) \in seen'[x]
    BY <2>2 DEF SeenInv
  <2>4. QED
    BY <2>1, <2>2, <2>3 DEF SeenInv, scan
<1>2. ASSUME NEW k \in {"create", "diff", "metadata"}, NEW b \in published \cup {latest}, Begin(k, b)
      PROVE  SeenInv'
  <2>1. \A p \in Paths : seen'[p] = {AsEntry(tree'[p])} /\ found'[p].st = "todo"
    BY <1>2 DEF Begin, Unknown, disk
  <2>2. kind' # "create" => baseline' # None
    BY <1>2, <1>t DEF Begin, TypeOK, Checkpoint
  <2>3. QED
    BY <2>1, <2>2 DEF SeenInv
<1>3. ASSUME NEW p \in Paths, Reads(p) PROVE SeenInv'
  <2>1. PICK k \in Known, ok \in BOOLEAN : /\ Learn(p, k, ok) /\ Learned(p, k, ok)
                                           /\ phase \in {"walk", "assess", "hash"}
    BY <1>3, ReadsLearn
  <2>2. /\ found' = [found EXCEPT ![p] = k] /\ incomplete' = (incomplete \/ ~ok)
        /\ UNCHANGED <<tree, kind, phase, baseline, seen>>
    BY <2>1 DEF Learn, disk
  <2>3. found'[p] = k /\ \A x \in Paths : x # p => found'[x] = found[x]
    BY <2>2, <1>t DEF TypeOK
  <2>4. AsEntry(tree[p]) \in seen[p]
    BY <2>1 DEF SeenInv
  <2>5. k.st = "gone" => None \in seen[p]
    BY <2>1, <2>4 DEF Learned, AsEntry
  <2>6. k.st = "walked" => \E e \in seen[p] : e # None /\ e.time = k.time
    <3>1. SUFFICES ASSUME k.st = "walked" PROVE \E e \in seen[p] : e # None /\ e.time = k.time
      OBVIOUS
    <3>2. /\ tree[p] # None /\ k.time = tree[p].time /\ tree[p] \in File
      BY <2>1, <3>1, <1>t DEF Learned, TypeOK
    <3>3. AsEntry(tree[p]) \in Entry /\ AsEntry(tree[p]).time = k.time
      BY <3>2 DEF AsEntry, Entry, File
    <3>4. QED
      BY <3>3, <2>4
  <2>7. k.st = "hashed" => [data |-> k.data, time |-> k.time] \in seen[p]
    BY <2>1, <2>4 DEF Learned, AsEntry
  <2>8. k.st = "failed" => ~ok
    BY <2>1 DEF Learned
  <2>9. QED
    BY <2>2, <2>3, <2>4, <2>5, <2>6, <2>7, <2>8 DEF SeenInv
<1>4. ASSUME phase' # "idle" => phase # "idle",
             UNCHANGED <<tree, kind, baseline, found, incomplete, seen>>
      PROVE  SeenInv'
  BY <1>4 DEF SeenInv
<1>5. ASSUME NEW o \in Contents, Damage(o) PROVE SeenInv'
  BY <1>4, <1>5 DEF Damage, scan
<1>6. ASSUME NEW ps, invalidate_file_fingerprints(ps) PROVE SeenInv'
  BY <1>4, <1>6 DEF invalidate_file_fingerprints, scan, disk
<1>7. CASE EndScan
  BY <1>7 DEF EndScan, SeenInv
<1>8. CASE NextPhase
  BY <1>4, <1>8 DEF NextPhase, disk
<1>s. CASE \/ preload_available_current_objects \/ FingerprintPreloaded \/ StoreDone
           \/ Readback \/ RecordFingerprints \/ Publish
  BY <1>4, <1>s DEF preload_available_current_objects, FingerprintPreloaded, StoreDone, Readback,
                    RecordFingerprints, Publish, disk
<1>9. ASSUME NEW o \in Contents, PutObject(o) PROVE SeenInv'
  BY <1>4, <1>9 DEF PutObject
<1>10. CASE Ends \/ refresh_file_fingerprints
  BY <1>7, <1>10 DEF Ends, RefuseIncomplete, Report, ReadbackFails, Abort, RefuseObject,
                     refresh_file_fingerprints
<1>11. CASE UNCHANGED vars
  BY <1>4, <1>11 DEF vars, disk, scan
<1>12. QED
  BY <1>1, <1>2, <1>3, <1>5, <1>6, <1>8, <1>s, <1>9, <1>10, <1>11 DEF Next, Reads, Ends

(* What a checkpoint or a diff says of a file, content and modification    *)
(* time together, was in the file since the scan began, whoever edited it  *)
(* meanwhile and whatever the cache supplied.                              *)
THEOREM ScansReadTrue == Spec => []ReadingsAreTrue
<1>1. SeenInv => ReadingsAreTrue
  BY DEF SeenInv, ReadingsAreTrue, Scanned
<1>2. QED
  BY <1>1, ScanInit, ScanStep, SeenInit, SeenStep, PTL DEF Spec

(* A diff calls a file deleted only if its path was empty during the scan, *)
(* and anything else only if a file was there, the same one if it is       *)
(* called unchanged.                                                       *)
THEOREM DiffsReportTrue == Spec => []DiffsAreTrue
<1>1. ScanInv /\ SeenInv => DiffsAreTrue
  <2> SUFFICES ASSUME ScanInv, SeenInv, ReadyToReport
               PROVE  /\ \A p \in Deleted : None \in seen[p]
                      /\ \A p \in Added \cup Modified : seen[p] \ {None} # {}
                      /\ \A p \in Unchanged : \E e \in seen[p] :
                           IF kind = "diff" THEN e = baseline[p]
                           ELSE e # None /\ e.time = baseline[p].time
    BY DEF DiffsAreTrue
  <2> USE ScanAssumption
  <2>1. phase # "idle" /\ kind \in {"diff", "metadata"} /\ baseline \in Checkpoint
    BY DEF ReadyToReport, SeenInv, ScanInv, TypeOK
  <2>2. \A p \in Paths : /\ kind = "metadata" => found[p].st \in {"gone", "walked", "failed"}
                         /\ kind = "diff" => found[p].st \in {"gone", "hashed", "failed"}
    BY DEF ReadyToReport, All
  <2>3. \A p \in Deleted : None \in seen[p]
    BY <2>1, <2>2 DEF Deleted, Working, SeenInv
  <2>4. \A p \in Paths : found[p].st = "hashed" =>
          [data |-> found[p].data, time |-> found[p].time] \in Entry
    BY DEF ScanInv, TypeOK, WellKnown, Known, Entry
  <2>5. \A p \in Paths : Working(p) => \E e \in seen[p] : e # None
    BY <2>1, <2>4 DEF Working, SeenInv
  <2>6. \A p \in Added \cup Modified : seen[p] \ {None} # {}
    BY <2>5 DEF Added, Modified
  <2>7. ASSUME NEW p \in Unchanged
        PROVE  \E e \in seen[p] : IF kind = "diff" THEN e = baseline[p]
                                  ELSE e # None /\ e.time = baseline[p].time
    <3>1. /\ p \in Paths /\ Working(p) /\ baseline[p] # None
          /\ found[p].time = baseline[p].time
          /\ kind = "diff" => found[p].data = baseline[p].data
      BY DEF Unchanged, Modified
    <3>2. CASE kind = "diff"
      <4>1. found[p].st = "hashed"
        BY <2>2, <3>1, <3>2 DEF Working
      <4>2. baseline[p] \in Entry
        BY <2>1, <3>1 DEF Checkpoint
      <4>3. baseline[p] = [data |-> found[p].data, time |-> found[p].time]
        BY <3>1, <3>2, <4>2 DEF Entry
      <4>4. QED
        BY <2>1, <3>1, <3>2, <4>1, <4>3 DEF SeenInv
    <3>3. CASE kind # "diff"
      <4>1. found[p].st = "walked"
        BY <2>1, <2>2, <3>1, <3>3 DEF Working
      <4>2. QED
        BY <2>1, <3>1, <3>3, <4>1 DEF SeenInv
    <3>4. QED
      BY <3>2, <3>3
  <2>8. QED
    BY <2>3, <2>6, <2>7
<1>2. QED
  BY <1>1, ScanInit, ScanStep, SeenInit, SeenStep, PTL DEF Spec

-----------------------------------------------------------------------------
(* The objects of a checkpoint. *)

(* At first there are none. *)
LEMMA ObjectsInit == Init => ObjectsInv
BY DEF Init, ObjectsInv

(* An object goes from the preload or the copy to the publication intact,  *)
(* or was damaged in between, or once before its fingerprint was taken.    *)
LEMMA ObjectsStep == ScanInv /\ ObjectsInv /\ [Next]_vars => ObjectsInv'
<1> SUFFICES ASSUME ScanInv, ObjectsInv, [Next]_vars PROVE ObjectsInv'
  OBVIOUS
<1> USE ScanAssumption
<1>t. TypeOK /\ versions \in Nat /\ Needed \subseteq Contents
  BY SnapshotTyped DEF ScanInv, TypeOK, Versions
<1>v. \A o \in Contents : objects[o] # None =>
         objects[o].ver \in Nat /\ objects[o].ver <= versions /\ objects[o].ver # None
  BY <1>t DEF TypeOK, Versions, ScanInv, VersionsGiven
<1>w. \A o \in Contents : versions + 1 # integrity[o] /\ versions + 1 # updates[o]
  <2>1. \A o \in Contents : /\ integrity[o] \in Nat \cup {None} /\ updates[o] \in Nat \cup {None}
                            /\ integrity[o] # None => integrity[o] <= versions
                            /\ updates[o] # None => updates[o] <= versions
    BY <1>t DEF TypeOK, Versions, ScanInv, VersionsGiven
  <2>2. versions + 1 # None
    BY <1>t DEF Versions
  <2>3. QED
    BY <2>1, <2>2, <1>t
<1>1. ASSUME UNCHANGED <<objects, integrity, updates, harmed, missed, unstored>>,
             phase' \in {"fingerprint", "store", "readback", "record", "publish"} =>
               phase' = phase /\ UNCHANGED <<found, hashed>>
      PROVE  ObjectsInv'
  BY <1>1 DEF ObjectsInv, Needed, Scanned, Intact
<1>2. ASSUME NEW p \in Paths, Edit(p) PROVE ObjectsInv'
  BY <1>1, <1>2 DEF Edit, caches, store, scan
<1>3. ASSUME NEW o \in Contents, Damage(o) PROVE ObjectsInv'
  <2>1. PICK d \in Written : objects' = [objects EXCEPT ![o] = [ver |-> versions + 1, data |-> d]]
    BY <1>3 DEF Damage
  <2>2. /\ harmed' = harmed \cup {o}
        /\ UNCHANGED <<integrity, updates, phase, unstored, found, hashed, missed>>
    BY <1>3 DEF Damage, caches, scan
  <2>3. /\ objects'[o] = [ver |-> versions + 1, data |-> d]
        /\ \A x \in Contents : x # o => objects'[x] = objects[x]
        /\ objects[o] # None
    BY <2>1, <1>3, <1>t DEF TypeOK, Damage
  <2>4. objects'[o] # None
    <3>1. objects'[o] \in [ver : Versions, data : Contents]
      BY <2>1, <2>3, <1>t, Halves DEF Versions
    <3>2. QED
      BY <3>1
  <2>5. \A x \in Contents :
          objects'[x] # None /\ objects'[x].ver \in {integrity'[x], updates'[x]} =>
            objects'[x].data = x \/ x \in missed'
    BY <2>2, <2>3, <1>w DEF ObjectsInv
  <2>6. Needed' = Needed
    BY <2>2 DEF Needed, Scanned
  <2>i. \A x \in Contents : x # o /\ Intact(x) => Intact(x)'
    BY <2>3 DEF Intact
  <2>7. phase' \in {"fingerprint", "store", "readback", "record", "publish"} =>
          \A x \in Needed' \ unstored' :
             objects'[x] # None /\ (Intact(x)' \/ x \in harmed' \cup missed')
    BY <2>i, <2>2, <2>3, <2>4, <2>6, <1>t DEF ObjectsInv
  <2>h. phase' \in {"fingerprint", "record"} =>
          \A x \in hashed' : objects'[x] # None /\ (Intact(x)' \/ x \in harmed')
    BY <2>i, <2>2, <2>3, <2>4, <1>t DEF ObjectsInv, TypeOK
  <2>8. QED
    BY <2>2, <2>5, <2>7, <2>h DEF ObjectsInv
<1>4. ASSUME NEW ps, invalidate_file_fingerprints(ps) PROVE ObjectsInv'
  <2>1. /\ \A o \in Contents : integrity'[o] \in {integrity[o], None}
        /\ phase' = "idle" /\ UNCHANGED <<objects, updates, missed>>
    BY <1>4 DEF invalidate_file_fingerprints, store, scan
  <2>2. QED
    BY <2>1, <1>v DEF ObjectsInv
<1>5. ASSUME NEW k \in {"create", "diff", "metadata"}, NEW b \in published \cup {latest}, Begin(k, b)
      PROVE  ObjectsInv'
  <2>1. /\ \A o \in Contents : updates'[o] = None
        /\ phase' = "walk" /\ UNCHANGED <<objects, integrity, missed>>
    BY <1>5 DEF Begin, store, caches
  <2>2. QED
    BY <2>1, <1>v DEF ObjectsInv
<1>6. ASSUME NEW p \in Paths, Reads(p) PROVE ObjectsInv'
  <2>1. PICK k \in Known, ok \in BOOLEAN : Learn(p, k, ok) /\ phase \in {"walk", "assess", "hash"}
    BY <1>6, ReadsLearn
  <2>2. QED
    BY <1>1, <2>1 DEF Learn, caches, store
<1>e. CASE EndScan /\ UNCHANGED integrity
  <2>1. /\ \A o \in Contents : updates'[o] = None
        /\ phase' = "idle" /\ UNCHANGED <<objects, integrity, missed>>
    BY <1>e DEF EndScan, store
  <2>2. QED
    BY <2>1, <1>v DEF ObjectsInv
<1>7. CASE Ends \/ refresh_file_fingerprints
  BY <1>7, <1>e DEF Ends, RefuseIncomplete, Report, ReadbackFails, Abort, RefuseObject,
                    refresh_file_fingerprints, caches
<1>m. CASE NextPhase
  BY <1>1, <1>m DEF NextPhase, caches, store
<1>8. CASE preload_available_current_objects
  <2> DEFINE present   == {o \in Needed : objects[o] # None}
             available == {o \in present : CacheMatches(o) \/ Intact(o)}
  <2>1. /\ phase' = "fingerprint" /\ unstored' = Needed \ available
        /\ hashed' = {o \in available : ~CacheMatches(o)}
        /\ missed' = missed \ hashed'
        /\ UNCHANGED <<objects, integrity, updates, found>>
    BY <1>8 DEF preload_available_current_objects, caches, store
  <2>2. \A o \in available : objects[o] # None /\ (Intact(o) \/ o \in missed)
    BY <1>t DEF CacheMatches, Intact, ObjectsInv
  <2>3. \A o \in hashed' : o \in available /\ Intact(o) /\ objects[o] # None /\ objects[o].data = o
    BY <2>1 DEF Intact
  <2>4. Needed' = Needed /\ \A o \in Contents : Intact(o)' = Intact(o)
    BY <2>1 DEF Needed, Scanned, Intact
  <2>5. hashed' \subseteq Contents
    BY <2>1, <1>t
  <2> HIDE DEF available
  <2>6. \A o \in Contents :
          objects'[o] # None /\ objects'[o].ver \in {integrity'[o], updates'[o]} =>
            objects'[o].data = o \/ o \in missed'
    BY <2>1, <2>3 DEF ObjectsInv
  <2>7. \A o \in Needed' \ unstored' : objects'[o] # None /\ (Intact(o)' \/ o \in missed')
    BY <2>1, <2>2, <2>3, <2>4, <1>t
  <2>8. \A o \in hashed' : objects'[o] # None /\ Intact(o)'
    BY <2>1, <2>3, <2>4, <2>5
  <2>9. QED
    BY <2>1, <2>6, <2>7, <2>8 DEF ObjectsInv
<1>f. ASSUME TakeFingerprints, UNCHANGED <<objects, found, unstored, harmed>>,
             phase \in {"fingerprint", "record"}, phase' \in {"store", "publish"},
             phase' = "publish" => phase = "record",
             \A o \in Contents : integrity'[o] \in {integrity[o], updates'[o]}
      PROVE  ObjectsInv'
  <2>1. /\ updates' = FingerprintsTaken /\ missed' = missed \cup (hashed \cap harmed)
    BY <1>f DEF TakeFingerprints
  <2>2. \A o \in Contents : updates'[o] \in {objects[o].ver, updates[o]}
                           /\ (o \notin hashed => updates'[o] = updates[o])
    BY <2>1 DEF FingerprintsTaken
  <2>3. \A o \in Contents : o \in hashed => objects[o].data = o \/ o \in missed'
    BY <1>f, <2>1 DEF ObjectsInv, Intact
  <2>4. \A o \in Contents :
          objects'[o] # None /\ objects'[o].ver \in {integrity'[o], updates'[o]} =>
            objects'[o].data = o \/ o \in missed'
    BY <1>f, <2>1, <2>2, <2>3 DEF ObjectsInv
  <2>5. Needed' = Needed /\ \A o \in Contents : Intact(o)' = Intact(o)
    BY <1>f DEF Needed, Scanned, Intact
  <2>6. \A o \in Needed' \ unstored' :
          objects'[o] # None /\ (Intact(o)' \/ o \in harmed' \cup missed')
    BY <1>f, <2>1, <2>5, <1>t DEF ObjectsInv
  <2>7. phase' = "publish" => unstored' = {}
    BY <1>f DEF ObjectsInv
  <2>8. QED
    BY <1>f, <2>4, <2>6, <2>7 DEF ObjectsInv
<1>fp. CASE FingerprintPreloaded
  BY <1>fp, <1>f DEF FingerprintPreloaded, store, caches
<1>rf. CASE RecordFingerprints
  <2>1. \A o \in Contents : integrity'[o] \in {integrity[o], updates'[o]}
    BY <1>rf DEF RecordFingerprints, TakeFingerprints
  <2>2. QED
    BY <2>1, <1>rf, <1>f DEF RecordFingerprints, store
<1>9. ASSUME NEW o \in Contents, PutObject(o) PROVE ObjectsInv'
  <2>1. /\ phase = "store" /\ UNCHANGED <<integrity, updates, found, phase>>
        /\ unstored' = unstored \ {o} /\ harmed' = harmed \ {o} /\ missed' = missed \ {o}
    BY <1>9 DEF PutObject, caches
  <2>2. /\ objects'[o] # None /\ objects'[o].data = o
        /\ \A x \in Contents : x # o => objects'[x] = objects[x]
    <3>1. CASE Intact(o) /\ UNCHANGED objects
      BY <3>1 DEF Intact
    <3>2. CASE objects' = [objects EXCEPT ![o] = [ver |-> versions + 1, data |-> o]]
      <4>1. [ver |-> versions + 1, data |-> o] \in [ver : Versions, data : Contents]
        BY <1>t DEF Versions
      <4>2. QED
        BY <3>2, <4>1, <1>t DEF TypeOK
    <3>3. QED
      BY <1>9, <3>1, <3>2 DEF PutObject
  <2>3. Needed' = Needed /\ Intact(o)' /\ \A x \in Contents : x # o => Intact(x)' = Intact(x)
    BY <2>1, <2>2 DEF Needed, Scanned, Intact
  <2>4. \A x \in Contents :
          objects'[x] # None /\ objects'[x].ver \in {integrity'[x], updates'[x]} =>
            objects'[x].data = x \/ x \in missed'
    BY <2>1, <2>2 DEF ObjectsInv
  <2>5. \A x \in Needed' \ unstored' :
          objects'[x] # None /\ (Intact(x)' \/ x \in harmed' \cup missed')
    BY <2>1, <2>2, <2>3, <1>t DEF ObjectsInv
  <2>6. QED
    BY <2>1, <2>4, <2>5 DEF ObjectsInv
<1>10. CASE StoreDone
  BY <1>10 DEF StoreDone, caches, store, ObjectsInv, Needed, Scanned, Intact
<1>11. CASE Readback
  <2>1. /\ UNCHANGED <<objects, integrity, updates, found, unstored>>
        /\ phase = "readback" /\ phase' = "record" /\ hashed' = created
        /\ harmed' = harmed \ created /\ missed' = missed \ created
        /\ \A o \in created : o \in Contents /\ Intact(o)
    BY <1>11, <1>t DEF Readback, store, caches, TypeOK
  <2>2. Needed' = Needed /\ \A o \in Contents : Intact(o)' = Intact(o)
    BY <2>1 DEF Needed, Scanned, Intact
  <2>3. \A o \in Contents :
          objects'[o] # None /\ objects'[o].ver \in {integrity'[o], updates'[o]} =>
            objects'[o].data = o \/ o \in missed'
    BY <2>1 DEF ObjectsInv, Intact
  <2>4. \A o \in Needed' \ unstored' :
          objects'[o] # None /\ (Intact(o)' \/ o \in harmed' \cup missed')
    BY <2>1, <2>2, <1>t DEF ObjectsInv
  <2>5. \A o \in hashed' : objects'[o] # None /\ Intact(o)'
    BY <2>1, <2>2 DEF Intact
  <2>6. QED
    BY <2>1, <2>3, <2>4, <2>5 DEF ObjectsInv
<1>12. CASE Publish
  BY <1>1, <1>12 DEF Publish, caches
<1>14. CASE UNCHANGED vars
  BY <1>1, <1>14 DEF vars, caches, store, scan
<1>15. QED
  BY <1>2, <1>3, <1>4, <1>5, <1>6, <1>7, <1>m, <1>8, <1>fp, <1>9, <1>10, <1>11, <1>rf, <1>12, <1>14
     DEF Next, Reads, Ends

(* A checkpoint becomes visible with every object it names there and       *)
(* intact, except for damage done after this creation last looked, or once *)
(* between the reading of an object and its fingerprint: all other damage  *)
(* the integrity cache notices.                                            *)
THEOREM ObjectsPublishIntact == Spec => []PublishesIntactObjects
<1>1. ObjectsInv => PublishesIntactObjects
  BY DEF ObjectsInv, PublishesIntactObjects
<1>2. QED
  BY <1>1, ScanInit, ScanStep, ObjectsInit, ObjectsStep, PTL DEF Spec
=============================================================================
