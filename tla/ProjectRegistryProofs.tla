------------------------ MODULE ProjectRegistryProofs ------------------------
(***************************************************************************)
(* Proofs about ProjectRegistry, for any number of processes, folders,     *)
(* project ids, storage roots, calls and acts of users.                    *)
(***************************************************************************)
EXTENDS ProjectRegistryInvariants, TLAPS

-----------------------------------------------------------------------------
(* Types. *)

(* At the start no call runs, and folders hold ids in use. *)
LEMMA RegTypeInit == Init => RegTypeInv
<1> SUFFICES ASSUME Init PROVE RegTypeInv
  OBVIOUS
<1> USE RegistryAssumption, NoneAssumption
<1>1. Running = {}
  BY DEF Init, Running
<1>2. Fresh \in Folder /\ \A i \in Ids : [Fresh EXCEPT !.marker = i] \in Folder
  BY DEF Fresh, Folder
<1>3. \A f \in Folders, s \in Storages : [root |-> f, storage |-> s] \in Entry
  BY DEF Entry
<1>4. /\ folders \in [Folders -> Folder \cup {Missing}]
      /\ \A f \in Folders : folders[f] # Missing =>
           folders[f].marker \in used \cup {None} /\ folders[f].pending = None
  BY <1>2 DEF Init, Fresh
<1>5. registry \in Registry /\ repos \subseteq Storages \X Ids /\ used \subseteq Ids
  BY <1>3 DEF Init, Registry
<1>6. QED
  BY <1>1, <1>4, <1>5 DEF Init, RegTypeInv, TypeOK, PendingsUsed

(* A call that goes on, or ends, with what it may have read, and folders   *)
(* written with ids that are in use.                                       *)
LEMMA CallTyped ==
    ASSUME RegTypeInv, NEW p \in Procs, NEW d,
           calls' = [calls EXCEPT ![p] = d], d # None => d \in Call /\ Shape(d)',
           used \subseteq used', used' \subseteq Ids, begun' \in 0..MaxCalls,
           UNCHANGED <<user, lost, moved>>,
           registry' \in Registry, repos' \subseteq Storages \X Ids,
           folders' \in [Folders -> Folder \cup {Missing}],
           \A f \in Folders : folders'[f] = Missing => folders[f] = Missing,
           \A f \in Folders : folders'[f] # folders[f] /\ folders'[f] # Missing =>
               /\ folders'[f].marker \in used' \cup {None}
               /\ folders'[f].pending # None =>
                    /\ folders'[f].pending.prev # folders'[f].pending.id
                    /\ folders'[f].pending.id \in used'
    PROVE  RegTypeInv'
<1>1. calls \in [Procs -> Call \cup {None}] /\ \A q \in Running : Shape(calls[q])
  BY DEF RegTypeInv, TypeOK
<1>2. calls' \in [Procs -> Call \cup {None}]
  BY <1>1
<1>3. \A q \in Running' : Shape(calls[q])'
  <2>1. ASSUME NEW q \in Procs, q # p, calls'[q] # None PROVE Shape(calls[q])'
    <3>1. calls'[q] = calls[q] /\ Shape(calls[q]) /\ calls[q] \in Call
      BY <1>1, <2>1 DEF Running
    <3>2. QED
      BY <3>1 DEF Shape, Starting, Separating, FreshId, Call
  <2>2. ASSUME calls'[p] # None PROVE Shape(calls[p])'
    <3>1. calls'[p] = d
      BY <1>1
    <3>2. QED
      BY <2>2, <3>1 DEF Shape, Starting, Separating, FreshId, Call
  <2>3. QED
    BY <2>1, <2>2 DEF Running
<1>4. TypeOK'
  BY <1>2 DEF RegTypeInv, TypeOK
<1>5. PendingsUsed'
  BY DEF RegTypeInv, TypeOK, PendingsUsed
<1>6. QED
  BY <1>3, <1>4, <1>5 DEF RegTypeInv

-----------------------------------------------------------------------------
(* What each step makes of the record of its call. *)

(* A call that ends without a change on disk. *)
Ended(p) == calls[p] # None /\ End(p) /\ UNCHANGED disk

Becomes(p, d) == calls' = [calls EXCEPT ![p] = d]

SameJob(c, d) == d.op = c.op /\ d.folder = c.folder /\ d.marker = c.marker
SameTarget(c, d) == d.id = c.id /\ d.storage = c.storage /\ d.pending = c.pending
SameLocks(c, d) == /\ d.claims = c.claims /\ d.share = c.share
                   /\ d.regLock = c.regLock /\ d.repoLocks = c.repoLocks
NoLocks(d) == d.claims = {} /\ d.share = None /\ d.regLock = FALSE /\ d.repoLocks = {}

(* The project that load_project_registration finds in a folder. *)
FoundIn(f, d) ==
    /\ folders[f] # Missing /\ folders[f].marker # None
    /\ d.folder = f /\ d.id = folders[f].marker /\ d.id \in used
    /\ registry[d.id] # None /\ d.storage = registry[d.id].storage
    /\ d.storage \in Storages /\ <<d.storage, d.id>> \in repos

(* The record of a call that is under way. *)
LEMMA CallRead ==
    ASSUME RegTypeInv, NEW p \in Procs, calls[p] # None
    PROVE  calls[p] \in Call /\ Shape(calls[p]) /\ p \in Running
BY DEF RegTypeInv, TypeOK, Running

(* What is found in a folder has the types it should. *)
LEMMA FolderRead ==
    ASSUME RegTypeInv, NEW f \in Folders, folders[f] # Missing
    PROVE  /\ folders[f] \in Folder
           /\ folders[f].marker \in used \cup {None}
           /\ folders[f].pending # None =>
                /\ folders[f].pending \in Pending /\ folders[f].pending.id \in used
                /\ folders[f].pending.prev # folders[f].pending.id
BY NoneAssumption DEF RegTypeInv, TypeOK, PendingsUsed, Folder

(* load_project_registration leaves a call with the project it has found. *)
LEMMA LoadableFound ==
    ASSUME RegTypeInv, NEW f \in Folders, Loadable(f), NEW c \in Call, c.folder = f
    PROVE  /\ Loaded(c) \in Call /\ FoundIn(f, Loaded(c))
           /\ SameJob(c, Loaded(c)) /\ SameLocks(c, Loaded(c))
           /\ Loaded(c).pending = c.pending /\ Loaded(c).seen = c.seen
           /\ Loaded(c).step = c.step
<1> DEFINE i == folders[f].marker
<1>1. i \in used /\ i \in Ids /\ registry[i] # None /\ <<registry[i].storage, i>> \in repos
  BY RegistryAssumption, FolderRead DEF Loadable, RegTypeInv, TypeOK
<1>2. registry[i].storage \in Storages
  BY <1>1, NoneAssumption DEF RegTypeInv, TypeOK, Registry, Entry
<1>3. PICK d : d = Loaded(c)
  OBVIOUS
<1>4. d \in Call
  BY <1>1, <1>2, <1>3 DEF Loaded, Call
<1>5. d.id = i /\ d.storage = registry[i].storage
  BY <1>3 DEF Loaded, Call
<1>6. /\ SameJob(c, d) /\ SameLocks(c, d) /\ d.pending = c.pending /\ d.seen = c.seen
      /\ d.step = c.step
  BY <1>3 DEF Loaded, Call, SameJob, SameLocks
<1>7. FoundIn(f, d)
  BY <1>1, <1>2, <1>5, <1>6 DEF FoundIn, Loadable, SameJob
<1>8. QED
  BY <1>3, <1>4, <1>6, <1>7

(* An initialisation begins: with the marker its pending file asks for, it *)
(* only has to be finished; otherwise it has an id.                        *)
InitReads(p, op, f, d) ==
    /\ calls[p] = None /\ Becomes(p, d) /\ NoLocks(d) /\ d.op = op /\ d.folder = f
    /\ d.storage = None /\ d.seen = None
    /\ folders[f] # Missing /\ UNCHANGED disk
    /\ begun' \in 0..MaxCalls /\ UNCHANGED <<user, lost, moved>>
    /\ ~SeparateRaces /\ op \in ForceNew =>
         \A q \in Running : ~(calls[q].op \in ForceNew /\ calls[q].folder = f)
    /\ \/ /\ op \in ForceNew /\ d.step = "load" /\ used' = used
          /\ folders[f].pending # None
          /\ folders[f].pending.id = folders[f].marker
          /\ d.pending = None /\ d.marker = folders[f].marker /\ d.id = None
       \/ /\ d.step = "claim" /\ d.marker = folders[f].marker
          /\ d.pending = IF op \in ForceNew THEN folders[f].pending ELSE None
          /\ d.id \in Ids /\ used' = used \cup {d.id}
          /\ op \in ForceNew /\ d.pending # None =>
               d.id = d.pending.id /\ d.marker # d.id
          /\ op \notin ForceNew /\ d.marker # None => d.id = d.marker
          /\ (IF op \in ForceNew THEN d.pending ELSE d.marker) = None =>
               d.id \notin used

(* InitRead does no more than that. *)
LEMMA InitReadDoes ==
    ASSUME RegTypeInv, NEW p \in Procs, NEW op \in InitOps, NEW f \in Folders,
           NEW req \in Requests \cup {None}, InitRead(p, op, f, req)
    PROVE  \E d \in Call : InitReads(p, op, f, d)
<1> USE RegistryAssumption, NoneAssumption
<1> DEFINE c == NewCall(op, f, req)
           marker == folders[f].marker
           pending == IF op \in ForceNew THEN folders[f].pending ELSE None
<1>1. /\ folders[f] # Missing
      /\ pending # None => marker \in {None, pending.prev, pending.id}
      /\ ~SeparateRaces /\ op \in ForceNew =>
           \A q \in Running : ~(calls[q].op \in ForceNew /\ calls[q].folder = f)
  BY DEF InitRead
<1>2. /\ marker \in used \cup {None} /\ used \subseteq Ids
      /\ folders[f].pending \in Pending \cup {None}
      /\ pending # None => pending \in Pending /\ pending.id \in used /\ pending.prev # pending.id
  BY <1>1, FolderRead DEF RegTypeInv, TypeOK, Folder
<1>3. c \in Call
  BY DEF NewCall, Call, Ops, InitOps, ForceNew, Steps
<1>4. CASE pending # None /\ marker = pending.id
  <2>1. PICK d : d = [c EXCEPT !.step = "load", !.marker = marker]
    OBVIOUS
  <2>2. Begin(p, d) /\ used' = used
    BY <1>4, <2>1 DEF InitRead
  <2>3. d \in Call
    <3>1. marker \in Ids \cup {None}
      BY <1>2
    <3>2. PICK e : e = [c EXCEPT !.marker = marker]
      OBVIOUS
    <3>3. e \in Call
      BY <1>3, <3>1, <3>2 DEF Call
    <3>4. d = [e EXCEPT !.step = "load"]
      BY <2>1, <3>2
    <3>5. QED
      BY <3>3, <3>4 DEF Call, Steps
  <2>4. /\ NoLocks(d) /\ d.op = op /\ d.folder = f /\ d.storage = None /\ d.seen = None
        /\ d.step = "load" /\ d.pending = None /\ d.marker = marker /\ d.id = None
    BY <2>1 DEF NewCall, NoLocks
  <2>5. begun' \in 0..MaxCalls /\ UNCHANGED <<user, lost, moved>> /\ UNCHANGED disk
        /\ calls[p] = None /\ Becomes(p, d)
    BY <2>2 DEF Begin, RegTypeInv, TypeOK, Becomes
  <2>6. op \in ForceNew /\ folders[f].pending # None /\ folders[f].pending.id = folders[f].marker
    BY <1>4
  <2>7. QED
    BY <1>1, <2>2, <2>3, <2>4, <2>5, <2>6 DEF InitReads
<1>5. CASE ~(pending # None /\ marker = pending.id)
  <2>1. PICK i \in ChosenId(c, marker, pending) :
          /\ Begin(p, [c EXCEPT !.id = i, !.marker = marker, !.pending = pending])
          /\ used' = used \cup {i}
    BY <1>5 DEF InitRead
  <2>2. PICK d : d = [c EXCEPT !.id = i, !.marker = marker, !.pending = pending]
    OBVIOUS
  <2>3. c.op = op
    BY DEF NewCall
  <2>4. /\ i \in Ids
        /\ op \in ForceNew /\ pending # None => i = pending.id
        /\ op \notin ForceNew /\ marker # None => i = marker
        /\ (IF op \in ForceNew THEN pending ELSE marker) = None => i \notin used
    BY <1>2, <2>1, <2>3 DEF ChosenId
  <2>5. d \in Call
    BY <1>2, <1>3, <2>2, <2>4 DEF Call
  <2>6. /\ NoLocks(d) /\ d.op = op /\ d.folder = f /\ d.storage = None /\ d.seen = None
        /\ d.step = "claim" /\ d.pending = pending /\ d.marker = marker /\ d.id = i
    BY <2>2 DEF NewCall, NoLocks
  <2>7. begun' \in 0..MaxCalls /\ UNCHANGED <<user, lost, moved>> /\ UNCHANGED disk
        /\ calls[p] = None /\ Becomes(p, d)
    BY <2>1, <2>2 DEF Begin, RegTypeInv, TypeOK, Becomes
  <2>8. op \in ForceNew /\ pending # None => marker # i
    BY <1>5, <2>4
  <2>9. QED
    BY <1>1, <2>1, <2>4, <2>5, <2>6, <2>7, <2>8 DEF InitReads
<1>6. QED
  BY <1>4, <1>5 DEF InitReads

(* An initialisation has the locks, and what it checked under them. *)
InitClaims(p, d) ==
    /\ calls[p] \in Call /\ calls[p].op \in InitOps /\ calls[p].step = "claim"
    /\ Becomes(p, d) /\ SameJob(calls[p], d) /\ UNCHANGED <<disk, world>>
    /\ d.step = "checked" /\ d.id = calls[p].id /\ d.pending = calls[p].pending
    /\ d.storage \in Storages /\ d.seen = registry /\ d.regLock = TRUE
    /\ d.pending # None => d.storage = d.pending.storage
    /\ d.claims = {d.id} \cup ({d.marker} \ {None})
    /\ d.share = calls[p].share /\ d.repoLocks = calls[p].repoLocks
    /\ ClaimFree(p, d.claims) /\ RegistryFree(p) /\ InitAllowed(calls[p])
    /\ d.op \in ForceNew => d.pending # None \/ d.marker # None

(* InitClaim ends the call or does that. *)
LEMMA InitClaimDoes ==
    ASSUME RegTypeInv, NEW p \in Procs, InitClaim(p)
    PROVE  \/ Ended(p)
           \/ \E d \in Call : InitClaims(p, d)
<1> USE RegistryAssumption, NoneAssumption
<1>1. calls[p] \in Call /\ Shape(calls[p]) /\ calls[p].step = "claim" /\ calls[p].op \in InitOps
  BY CallRead DEF InitClaim
<1> DEFINE c == calls[p]
           ids == {c.id} \cup ({c.marker} \ {None})
<1>2. CASE ~(ClaimFree(p, ids) /\ RegistryFree(p) /\ InitAllowed(c))
  BY <1>2 DEF InitClaim, Ended
<1>3. CASE ClaimFree(p, ids) /\ RegistryFree(p) /\ InitAllowed(c)
  <2>1. PICK d : d = [c EXCEPT !.step = "checked", !.claims = ids, !.regLock = TRUE,
                               !.req = None, !.seen = registry, !.storage = ChosenStorage(c)]
    OBVIOUS
  <2>2. Becomes(p, d) /\ UNCHANGED <<disk, world>>
    BY <1>3, <2>1 DEF InitClaim, Update, Becomes
  <2>3. c.id \in Ids /\ ids \subseteq Ids /\ registry \in Registry
    BY <1>1 DEF Shape, RegTypeInv, TypeOK, Call
  <2>4. ChosenStorage(c) \in Storages /\ (c.pending # None => ChosenStorage(c) = c.pending.storage)
    <3>1. registry[c.id] # None => registry[c.id].storage \in Storages
      BY <2>3 DEF Registry, Entry
    <3>2. c.pending # None => c.pending.storage \in Storages
      BY <1>1 DEF Call, Pending
    <3>3. c.req \in Storages \cup {None}
      BY <1>1 DEF Call
    <3>4. registry[c.id] # None /\ c.pending # None => registry[c.id].storage = c.pending.storage
      BY <1>3, <3>2 DEF InitAllowed
    <3>5. QED
      BY <3>1, <3>2, <3>3, <3>4 DEF ChosenStorage
  <2>5. d \in Call
    BY <1>1, <2>1, <2>3, <2>4 DEF Call, Steps
  <2>6. c.op \in ForceNew => c.pending # None \/ c.marker # None
    BY <1>3 DEF InitAllowed, MayStartSeparate
  <2>7. /\ SameJob(c, d) /\ d.step = "checked" /\ d.id = c.id /\ d.pending = c.pending
        /\ d.storage = ChosenStorage(c) /\ d.seen = registry /\ d.regLock = TRUE
        /\ d.claims = ids /\ d.share = c.share /\ d.repoLocks = c.repoLocks
    BY <1>1, <2>1 DEF Call, SameJob
  <2>8. ids = {d.id} \cup ({d.marker} \ {None})
    BY <2>7 DEF SameJob
  <2>9. QED
    BY <1>1, <1>3, <2>2, <2>4, <2>5, <2>6, <2>7, <2>8 DEF SameJob, InitClaims
<1>4. QED
  BY <1>2, <1>3 DEF InitClaims

(* What a folder has been made to hold; the others are as they were. *)
FolderWritten(f, marker, pending) ==
    /\ folders' \in [Folders -> Folder \cup {Missing}]
    /\ folders'[f] # Missing /\ folders'[f].marker = marker /\ folders'[f].pending = pending
    /\ \A g \in Folders \ {f} : folders'[g] = folders[g]

(* A marker or a pending file is written to a folder that is there. *)
LEMMA FolderIsWritten ==
    ASSUME RegTypeInv, NEW f \in Folders, folders[f] # Missing,
           NEW marker \in Ids \cup {None}, NEW pending \in Pending \cup {None},
           \/ folders' = [folders EXCEPT ![f] = [@ EXCEPT !.marker = marker]]
              /\ pending = folders[f].pending
           \/ folders' = [folders EXCEPT ![f] = [@ EXCEPT !.pending = pending]]
              /\ marker = folders[f].marker
           \/ folders' = folders /\ marker = folders[f].marker /\ pending = folders[f].pending
    PROVE  FolderWritten(f, marker, pending)
<1>1. folders \in [Folders -> Folder \cup {Missing}] /\ folders[f] \in Folder
  BY DEF RegTypeInv, TypeOK
<1>2. PICK r : r \in Folder /\ r.marker = marker /\ r.pending = pending
               /\ folders' = [folders EXCEPT ![f] = r]
  <2>1. CASE folders' = folders /\ marker = folders[f].marker /\ pending = folders[f].pending
    <3>1. folders' = [folders EXCEPT ![f] = folders[f]]
      BY <1>1, <2>1
    <3>2. QED
      BY <1>1, <2>1, <3>1
  <2>2. CASE folders' = [folders EXCEPT ![f] = [@ EXCEPT !.marker = marker]]
             /\ pending = folders[f].pending
    BY <1>1, <2>2 DEF Folder
  <2>3. CASE folders' = [folders EXCEPT ![f] = [@ EXCEPT !.pending = pending]]
             /\ marker = folders[f].marker
    BY <1>1, <2>3 DEF Folder
  <2>4. QED
    BY <2>1, <2>2, <2>3
<1>3. QED
  BY <1>1, <1>2, NoneAssumption DEF FolderWritten

(* A plain initialisation has its marker, a separate one its pending file. *)
InitReserves(p, d) ==
    /\ calls[p] \in Call /\ calls[p].op \in InitOps /\ calls[p].step = "checked"
    /\ Becomes(p, d) /\ SameJob(calls[p], d) /\ SameLocks(calls[p], d)
    /\ d.id = calls[p].id /\ d.storage = calls[p].storage /\ d.seen = calls[p].seen
    /\ d.step = "reserved" /\ UNCHANGED <<registry, repos, world>>
    /\ IF FreshId(calls[p])
       THEN /\ d.pending \in Pending /\ d.pending.prev = d.marker
            /\ d.pending.id = d.id /\ d.pending.storage = d.storage
       ELSE d.pending = calls[p].pending
    /\ FolderWritten(d.folder,
                     IF d.op = "init" THEN d.id ELSE folders[d.folder].marker,
                     IF FreshId(calls[p]) THEN d.pending ELSE folders[d.folder].pending)

(* InitReserve does that. *)
LEMMA InitReserveDoes ==
    ASSUME RegTypeInv, NEW p \in Procs, InitReserve(p)
    PROVE  \E d \in Call : InitReserves(p, d)
<1> USE RegistryAssumption, NoneAssumption
<1>1. /\ calls[p] \in Call /\ Shape(calls[p]) /\ calls[p].step = "checked"
      /\ calls[p].op \in InitOps
  BY CallRead DEF InitReserve
<1> DEFINE c == calls[p]
<1>2. /\ c.folder \in Folders /\ folders[c.folder] # Missing /\ c.id \in Ids
      /\ c.storage \in Storages /\ c.seen # None
      /\ c.op \in ForceNew /\ c.pending = None => c.marker \in Ids
  BY <1>1 DEF Shape, Starting, InitSteps, LockedSteps, Call, RegTypeInv, TypeOK
<1>3. FreshId(c) <=> c.op \in ForceNew /\ c.pending = None
  BY <1>1 DEF FreshId
<1>4. PICK x : x = IF c.op \in ForceNew /\ c.pending = None THEN NewPending(c) ELSE c.pending
  OBVIOUS
<1>5. /\ x \in Pending \cup {None}
      /\ FreshId(c) => /\ x \in Pending /\ x.prev = c.marker
                       /\ x.id = c.id /\ x.storage = c.storage
      /\ ~FreshId(c) => x = c.pending
  BY <1>1, <1>2, <1>3, <1>4 DEF NewPending, Pending, Call
<1>6. PICK d : d = [c EXCEPT !.step = "reserved", !.pending = x]
  OBVIOUS
<1>7. Becomes(p, d) /\ UNCHANGED <<registry, repos, world>>
  BY <1>4, <1>6 DEF InitReserve, Update, Becomes
<1>8. d \in Call
  BY <1>1, <1>5, <1>6 DEF Call, Steps
<1>9. /\ SameJob(c, d) /\ SameLocks(c, d) /\ d.id = c.id /\ d.storage = c.storage
      /\ d.seen = c.seen /\ d.step = "reserved" /\ d.pending = x
  BY <1>1, <1>6 DEF Call, SameJob, SameLocks
<1>10. folders[c.folder] \in Folder
  BY <1>2 DEF RegTypeInv, TypeOK
<1>11. FolderWritten(c.folder, IF c.op = "init" THEN c.id ELSE folders[c.folder].marker,
                               IF FreshId(c) THEN x ELSE folders[c.folder].pending)
  <2>1. folders' = [folders EXCEPT ![c.folder] =
            CASE c.op = "init" -> [@ EXCEPT !.marker = c.id]
              [] c.op # "init" /\ c.pending = None -> [@ EXCEPT !.pending = x]
              [] OTHER -> @]
    BY <1>4 DEF InitReserve
  <2>2. c.op = "init" <=> c.op \notin ForceNew
    BY <1>1 DEF InitOps, ForceNew
  <2>3. CASE c.op = "init"
    <3>1. folders' = [folders EXCEPT ![c.folder] = [@ EXCEPT !.marker = c.id]] /\ ~FreshId(c)
      BY <1>3, <2>1, <2>2, <2>3
    <3>2. QED
      BY <1>2, <1>10, <2>3, <3>1, FolderIsWritten DEF Folder
  <2>4. CASE FreshId(c)
    <3>1. folders' = [folders EXCEPT ![c.folder] = [@ EXCEPT !.pending = x]] /\ c.op # "init"
      BY <1>3, <2>1, <2>2, <2>4
    <3>2. QED
      BY <1>2, <1>5, <1>10, <2>4, <3>1, FolderIsWritten DEF Folder
  <2>5. CASE c.op # "init" /\ ~FreshId(c)
    <3>1. folders' = [folders EXCEPT ![c.folder] = folders[c.folder]]
      BY <1>3, <2>1, <2>2, <2>5
    <3>2. folders' = folders
      BY <1>2, <3>1 DEF RegTypeInv, TypeOK
    <3>3. QED
      BY <1>2, <1>10, <2>5, <3>2, FolderIsWritten DEF Folder
  <2>6. QED
    BY <2>3, <2>4, <2>5 DEF InitReserves
<1>12. QED
  BY <1>1, <1>5, <1>7, <1>8, <1>9, <1>11 DEF SameJob, InitReserves

(* A step that only advances. *)
Advances(p, s, d) ==
    /\ calls[p] \in Call /\ Becomes(p, d) /\ SameJob(calls[p], d)
    /\ SameTarget(calls[p], d) /\ SameLocks(calls[p], d)
    /\ d.seen = calls[p].seen /\ d.step = s /\ UNCHANGED world

(* Step changes nothing else of the record. *)
LEMMA StepDoes ==
    ASSUME RegTypeInv, NEW p \in Procs, calls[p] # None, NEW s \in Steps, Step(p, s)
    PROVE  \E d \in Call : Advances(p, s, d)
<1>1. calls[p] \in Call
  BY CallRead
<1>2. PICK d : d = [calls[p] EXCEPT !.step = s]
  OBVIOUS
<1>3. Becomes(p, d) /\ UNCHANGED world
  BY <1>2 DEF Step, Update, Becomes
<1>4. d \in Call
  BY <1>1, <1>2 DEF Call
<1>5. /\ SameJob(calls[p], d) /\ SameTarget(calls[p], d) /\ SameLocks(calls[p], d)
      /\ d.seen = calls[p].seen /\ d.step = s
  BY <1>1, <1>2 DEF Call, SameJob, SameTarget, SameLocks
<1>6. QED
  BY <1>1, <1>3, <1>4, <1>5 DEF Advances

(* A phase is written to the pending file, or not. *)
WritesPhase(p, from, phase, s, d) ==
    /\ calls[p] \in Call /\ calls[p].op \in InitOps
    /\ Becomes(p, d) /\ SameJob(calls[p], d) /\ SameLocks(calls[p], d)
    /\ d.id = calls[p].id /\ d.storage = calls[p].storage
    /\ d.seen = calls[p].seen /\ d.step = s /\ UNCHANGED world
    /\ \/ /\ d.op \in ForceNew /\ calls[p].pending # None
          /\ calls[p].pending.phase \in from
          /\ d.pending \in Pending /\ d.pending.phase = phase
          /\ d.pending.id = calls[p].pending.id
          /\ d.pending.prev = calls[p].pending.prev
          /\ d.pending.storage = calls[p].pending.storage
          /\ FolderWritten(d.folder, folders[d.folder].marker, d.pending)
       \/ d.pending = calls[p].pending /\ folders' = folders

(* WritePhase does that, for an initialisation that holds its locks. *)
LEMMA WritePhaseDoes ==
    ASSUME RegTypeInv, NEW p \in Procs, calls[p] # None,
           calls[p].step \in LockedSteps \ {"checked"},
           NEW from, NEW phase \in {"repositoryInitialized", "registered"}, NEW s \in Steps,
           WritePhase(p, from, phase, s)
    PROVE  \E d \in Call : WritesPhase(p, from, phase, s, d)
<1> USE RegistryAssumption, NoneAssumption
<1>1. calls[p] \in Call /\ Shape(calls[p])
  BY CallRead
<1> DEFINE c == calls[p]
<1>2. /\ c.folder \in Folders /\ folders[c.folder] # Missing /\ c.op \in InitOps
      /\ c.op \in ForceNew => c.pending \in Pending
  BY <1>1 DEF Shape, Starting, Separating, InitSteps, LockedSteps, Call
<1>3. CASE c.op \in ForceNew /\ c.pending.phase \in from
  <2>1. PICK x : x = [c.pending EXCEPT !.phase = phase]
    OBVIOUS
  <2>2. /\ x \in Pending /\ x.phase = phase /\ x.id = c.pending.id
        /\ x.prev = c.pending.prev /\ x.storage = c.pending.storage
    BY <1>2, <1>3, <2>1 DEF Pending
  <2>3. PICK d : d = [c EXCEPT !.step = s, !.pending = x]
    OBVIOUS
  <2>4. d = [c EXCEPT !.step = s, !.pending.phase = phase]
    BY <1>1, <2>1, <2>3 DEF Call
  <2>5. Becomes(p, d) /\ UNCHANGED world
    BY <1>3, <2>4 DEF WritePhase, Update, Becomes
  <2>6. d \in Call
    BY <1>1, <2>2, <2>3 DEF Call
  <2>7. /\ SameJob(c, d) /\ SameLocks(c, d) /\ d.id = c.id /\ d.storage = c.storage
        /\ d.seen = c.seen /\ d.step = s /\ d.pending = x
    BY <1>1, <2>3 DEF Call, SameJob, SameLocks
  <2>8. folders[c.folder] \in Folder
    BY <1>2 DEF RegTypeInv, TypeOK
  <2>9. folders' = [folders EXCEPT ![c.folder] = [@ EXCEPT !.pending = x]]
    BY <1>3, <2>1 DEF WritePhase
  <2>10. FolderWritten(c.folder, folders[c.folder].marker, x)
    BY <1>2, <2>2, <2>8, <2>9, FolderIsWritten DEF Folder
  <2>11. QED
    BY <1>1, <1>2, <1>3, <2>2, <2>5, <2>6, <2>7, <2>10 DEF SameJob, WritesPhase
<1>4. CASE ~(c.op \in ForceNew /\ c.pending.phase \in from)
  <2>1. Step(p, s) /\ folders' = folders
    BY <1>4 DEF WritePhase
  <2>2. PICK d \in Call : Advances(p, s, d)
    BY <2>1, StepDoes
  <2>3. QED
    BY <1>1, <1>2, <2>1, <2>2 DEF SameTarget, Advances, WritesPhase
<1>5. QED
  BY <1>3, <1>4 DEF WritesPhase

(* The whole registry is written, from what was read under its lock. *)
LEMMA RegistryWritten ==
    ASSUME RegTypeInv, NEW c \in Call, c.seen \in Registry, c.id \in Ids, c.storage \in Storages,
           update_registry_locked(c)
    PROVE  /\ registry' \in Registry
           /\ registry'[c.id] = [root |-> c.folder, storage |-> c.storage]
           /\ registry'[c.id] # None
           /\ \A i \in Ids \ {c.id} : registry'[i] = c.seen[i]
<1>1. PICK e : e = [root |-> c.folder, storage |-> c.storage]
  OBVIOUS
<1>2. e \in Entry
  BY <1>1 DEF Entry, Call
<1>3. registry' = [c.seen EXCEPT ![c.id] = e]
  BY <1>1 DEF update_registry_locked
<1>4. QED
  BY <1>1, <1>2, <1>3, NoneAssumption DEF Registry

(* The new project is in the registry. *)
InitRegisters(p, d) ==
    /\ calls[p] \in Call /\ calls[p].op \in InitOps /\ calls[p].step = "phased"
    /\ Becomes(p, d) /\ SameJob(calls[p], d) /\ SameTarget(calls[p], d)
    /\ SameLocks(calls[p], d) /\ d.seen = None /\ d.step = "registered"
    /\ UNCHANGED <<folders, repos, world>>
    /\ d.id \in Ids /\ calls[p].seen \in Registry /\ registry' \in Registry
    /\ registry'[d.id] # None
    /\ registry'[d.id] = [root |-> d.folder, storage |-> d.storage]
    /\ \A i \in Ids \ {d.id} : registry'[i] = calls[p].seen[i]

(* InitRegister writes the folder and storage root of the new project. *)
LEMMA InitRegisterDoes ==
    ASSUME RegTypeInv, NEW p \in Procs, InitRegister(p)
    PROVE  \E d \in Call : InitRegisters(p, d)
<1> USE RegistryAssumption, NoneAssumption
<1>1. calls[p] \in Call /\ Shape(calls[p]) /\ calls[p].step = "phased"
  BY CallRead DEF InitRegister
<1> DEFINE c == calls[p]
<1>2. c.op \in InitOps /\ c.id \in Ids /\ c.storage \in Storages /\ c.seen \in Registry
  BY <1>1 DEF Shape, LockedSteps, Call, RegTypeInv, TypeOK
<1>3. PICK d : d = [c EXCEPT !.step = "registered", !.seen = None]
  OBVIOUS
<1>4. Becomes(p, d) /\ UNCHANGED <<folders, repos, world>>
  BY <1>3 DEF InitRegister, Update, Becomes
<1>5. d \in Call
  BY <1>1, <1>3 DEF Call, Steps
<1>6. /\ SameJob(c, d) /\ SameTarget(c, d) /\ SameLocks(c, d)
      /\ d.seen = None /\ d.step = "registered"
  BY <1>1, <1>3 DEF Call, SameJob, SameTarget, SameLocks
<1>7. /\ registry' \in Registry /\ registry'[c.id] # None
      /\ registry'[c.id] = [root |-> c.folder, storage |-> c.storage]
      /\ \A i \in Ids \ {c.id} : registry'[i] = c.seen[i]
  BY <1>1, <1>2, RegistryWritten DEF InitRegister
<1>8. QED
  BY <1>1, <1>2, <1>4, <1>5, <1>6, <1>7 DEF SameJob, SameTarget, InitRegisters

(* A separate initialisation replaces the marker. *)
InitCommits(p, d) ==
    /\ calls[p] \in Call /\ calls[p].op \in InitOps /\ calls[p].step = "committed"
    /\ Becomes(p, d) /\ SameJob(calls[p], d) /\ SameTarget(calls[p], d)
    /\ SameLocks(calls[p], d) /\ d.seen = calls[p].seen /\ d.step = "finalize"
    /\ UNCHANGED <<registry, repos, world>>
    /\ FolderWritten(d.folder,
                     IF d.op \in ForceNew THEN d.id ELSE folders[d.folder].marker,
                     folders[d.folder].pending)

(* InitCommit does that. *)
LEMMA InitCommitDoes ==
    ASSUME RegTypeInv, NEW p \in Procs, InitCommit(p)
    PROVE  \E d \in Call : InitCommits(p, d)
<1> USE RegistryAssumption, NoneAssumption
<1>1. calls[p] \in Call /\ Shape(calls[p]) /\ calls[p].step = "committed"
  BY CallRead DEF InitCommit
<1> DEFINE c == calls[p]
<1>2. c.op \in InitOps /\ c.folder \in Folders /\ folders[c.folder] # Missing /\ c.id \in Ids
  BY <1>1 DEF Shape, Starting, InitSteps, LockedSteps, Call, RegTypeInv, TypeOK
<1>3. PICK d \in Call : Advances(p, "finalize", d)
  <2>1. calls[p] # None /\ Step(p, "finalize") /\ "finalize" \in Steps
    BY DEF InitCommit, Steps
  <2>2. QED
    BY <2>1, StepDoes DEF InitCommits
<1>4. folders[c.folder] \in Folder
  BY <1>2 DEF RegTypeInv, TypeOK
<1>5. FolderWritten(c.folder, IF c.op \in ForceNew THEN c.id ELSE folders[c.folder].marker,
                              folders[c.folder].pending)
  <2>1. CASE c.op \in ForceNew
    <3>1. folders' = [folders EXCEPT ![c.folder] = [@ EXCEPT !.marker = c.id]]
      BY <2>1 DEF InitCommit
    <3>2. QED
      BY <1>2, <1>4, <2>1, <3>1, FolderIsWritten DEF Folder
  <2>2. CASE c.op \notin ForceNew
    <3>1. folders' = folders
      BY <2>2 DEF InitCommit
    <3>2. QED
      BY <1>2, <1>4, <2>2, <3>1, FolderIsWritten DEF Folder
  <2>3. QED
    BY <2>1, <2>2 DEF InitCommits
<1>6. QED
  BY <1>1, <1>2, <1>3, <1>5 DEF InitCommit, SameJob, SameTarget, Advances, InitCommits

(* A finished initialisation drops its pending file. *)
LEMMA InitFinalizeDoes ==
    ASSUME RegTypeInv, NEW p \in Procs, InitFinalize(p)
    PROVE  /\ calls[p] \in Call /\ calls[p].step \in {"finalize", "working"}
           /\ Becomes(p, None) /\ UNCHANGED <<registry, repos, world>>
           /\ \/ folders' = folders
              \/ /\ calls[p].op \in ForceNew /\ BindingIsCurrent(calls[p])
                 /\ FolderWritten(calls[p].folder, folders[calls[p].folder].marker, None)
<1>1. calls[p] \in Call /\ calls[p].step \in {"finalize", "working"} /\ Becomes(p, None)
      /\ UNCHANGED <<registry, repos, world>>
  BY CallRead DEF InitFinalize, End, Becomes
<1> DEFINE c == calls[p]
<1>2. CASE c.op \in ForceNew /\ BindingIsCurrent(c)
  <2>1. c.folder \in Folders /\ folders[c.folder] # Missing
    BY <1>1, <1>2 DEF Call, BindingIsCurrent
  <2>2. folders[c.folder] \in Folder
    BY <2>1 DEF RegTypeInv, TypeOK
  <2>3. folders' = [folders EXCEPT ![c.folder] = [@ EXCEPT !.pending = None]]
    BY <1>2 DEF InitFinalize
  <2>4. FolderWritten(c.folder, folders[c.folder].marker, None)
    BY <2>1, <2>2, <2>3, FolderIsWritten DEF Folder
  <2>5. QED
    BY <1>1, <1>2, <2>4
<1>3. CASE ~(c.op \in ForceNew /\ BindingIsCurrent(c))
  BY <1>1, <1>3 DEF InitFinalize
<1>4. QED
  BY <1>2, <1>3

(* A load that has more to do, or a change of the repository, begins. *)
LoadReads(p, op, f, d) ==
    /\ calls[p] = None /\ Becomes(p, d) /\ NoLocks(d) /\ d.op = op
    /\ FoundIn(f, d) /\ d.pending = None /\ d.marker = None /\ d.seen = None
    /\ d.step = "refresh" \/ (d.step = "lock" /\ op = "mutate")
    /\ UNCHANGED disk /\ used' = used
    /\ begun' \in 0..MaxCalls /\ UNCHANGED <<user, lost, moved>>

(* LoadRead does no more than that. *)
LEMMA LoadReadDoes ==
    ASSUME RegTypeInv, NEW p \in Procs, NEW op \in LoadOps, NEW f \in Folders,
           LoadRead(p, op, f)
    PROVE  \E d \in Call : LoadReads(p, op, f, d)
<1> DEFINE n == NewCall(op, f, None)
<1>1. n \in Call /\ n.folder = f /\ n.op = op /\ NoLocks(n) /\ n.pending = None
      /\ n.marker = None /\ n.seen = None
  BY RegistryAssumption DEF NewCall, Call, Ops, LoadOps, Steps, NoLocks
<1>2. PICK c : c = Loaded(n)
  OBVIOUS
<1>3. /\ c \in Call /\ FoundIn(f, c) /\ SameJob(n, c) /\ SameLocks(n, c)
      /\ c.pending = None /\ c.seen = None
  BY <1>1, <1>2, LoadableFound DEF LoadRead
<1>4. PICK s \in {"refresh", "lock"} :
        Begin(p, [c EXCEPT !.step = s]) /\ (s = "lock" => op = "mutate") /\ used' = used
  BY <1>2 DEF LoadRead
<1>5. PICK d : d = [c EXCEPT !.step = s]
  OBVIOUS
<1>6. d \in Call
  BY <1>3, <1>5 DEF Call, Steps
<1>7. /\ d.step = s /\ d.op = c.op /\ d.folder = c.folder /\ d.marker = c.marker
      /\ d.id = c.id /\ d.storage = c.storage /\ d.pending = c.pending /\ d.seen = c.seen
      /\ d.claims = c.claims /\ d.share = c.share /\ d.regLock = c.regLock
      /\ d.repoLocks = c.repoLocks
  BY <1>3, <1>5 DEF Call
<1>8. FoundIn(f, d)
  BY <1>3, <1>7 DEF FoundIn
<1>9. d.op = op /\ NoLocks(d) /\ d.marker = None
  BY <1>1, <1>3, <1>7 DEF NoLocks, SameJob, SameLocks
<1>10. calls[p] = None /\ Becomes(p, d) /\ UNCHANGED disk
       /\ begun' \in 0..MaxCalls /\ UNCHANGED <<user, lost, moved>>
  BY <1>4, <1>5, RegistryAssumption DEF Begin, Becomes, RegTypeInv, TypeOK
<1>11. QED
  BY <1>3, <1>4, <1>6, <1>7, <1>8, <1>9, <1>10 DEF LoadReads

(* What is to be changed once the project is loaded. *)
GoesOn(p, d) ==
    /\ calls[p] \in Call /\ Becomes(p, d) /\ SameJob(calls[p], d)
    /\ FoundIn(d.folder, d) /\ d.pending = calls[p].pending
    /\ d.step = "lock" /\ d.op \in {"mutate"} \cup ForceNew
    /\ d.claims = {} /\ d.regLock = FALSE /\ d.share = calls[p].share
    /\ d.repoLocks = calls[p].repoLocks /\ UNCHANGED <<disk, world>>

(* AfterLoad ends the call or lets it go on. *)
LEMMA AfterLoadDoes ==
    ASSUME RegTypeInv, NEW p \in Procs, calls[p] # None, UNCHANGED disk,
           Loadable(calls[p].folder), NEW status, AfterLoad(p, calls[p], status)
    PROVE  \/ Ended(p)
           \/ \E d \in Call : GoesOn(p, d)
<1> DEFINE c == calls[p]
<1>1. c \in Call /\ c.folder \in Folders
  BY CallRead DEF Call
<1>2. PICK l : l = Loaded(c)
  OBVIOUS
<1>3. /\ l \in Call /\ FoundIn(c.folder, l) /\ SameJob(c, l) /\ SameLocks(c, l)
      /\ l.pending = c.pending
  BY <1>1, <1>2, LoadableFound
<1>4. CASE (c.op = "mutate" /\ status # "copied") \/ ToBeFinished(c, Loaded(c).id)
  <2>1. PICK d : d = [l EXCEPT !.step = "lock", !.claims = {}, !.regLock = FALSE, !.seen = None]
    OBVIOUS
  <2>2. Becomes(p, d) /\ UNCHANGED world
    BY <1>2, <1>4, <2>1 DEF AfterLoad, Update, Becomes
  <2>3. d \in Call
    BY <1>3, <2>1 DEF Call, Steps
  <2>4. /\ d.op = l.op /\ d.folder = l.folder /\ d.marker = l.marker /\ d.id = l.id
        /\ d.storage = l.storage /\ d.pending = l.pending /\ d.step = "lock"
        /\ d.claims = {} /\ d.regLock = FALSE /\ d.share = l.share /\ d.repoLocks = l.repoLocks
    BY <1>3, <2>1 DEF Call
  <2>5. SameJob(c, d) /\ FoundIn(d.folder, d) /\ d.op \in {"mutate"} \cup ForceNew
    BY <1>3, <1>4, <2>4 DEF SameJob, FoundIn, ToBeFinished
  <2>6. QED
    BY <1>1, <1>3, <2>2, <2>3, <2>4, <2>5 DEF SameLocks, GoesOn
<1>5. CASE ~((c.op = "mutate" /\ status # "copied") \/ ToBeFinished(c, Loaded(c).id))
  BY <1>5 DEF AfterLoad, Ended
<1>6. QED
  BY <1>4, <1>5 DEF GoesOn

(* The project of an initialisation that is to be finished is loaded. *)
LoadFinishes(p, d) ==
    /\ calls[p] \in Call /\ calls[p].step = "load" /\ Becomes(p, d)
    /\ SameJob(calls[p], d) /\ FoundIn(d.folder, d)
    /\ d.pending = calls[p].pending /\ UNCHANGED <<disk, world>>
    /\ d.share = calls[p].share /\ d.repoLocks = calls[p].repoLocks
    /\ \/ /\ d.step = "refresh" /\ d.claims = calls[p].claims
          /\ d.regLock = calls[p].regLock
       \/ d.step = "lock" /\ d.claims = {} /\ d.regLock = FALSE

(* FinishLoad ends the call, sends it to refresh the claim, or to lock. *)
LEMMA FinishLoadDoes ==
    ASSUME RegTypeInv, NEW p \in Procs, FinishLoad(p)
    PROVE  \/ Ended(p)
           \/ \E d \in Call : LoadFinishes(p, d)
<1> DEFINE c == calls[p]
<1>1. c \in Call /\ c.folder \in Folders /\ c # None /\ c.step = "load" /\ UNCHANGED disk
  BY CallRead DEF FinishLoad, Call
<1>2. CASE ~Loadable(c.folder)
  BY <1>1, <1>2 DEF FinishLoad, Ended
<1>3. CASE Loadable(c.folder) /\ StatusHere(c.folder) = "moved"
  <2>1. PICK l : l = Loaded(c)
    OBVIOUS
  <2>2. /\ l \in Call /\ FoundIn(c.folder, l) /\ SameJob(c, l) /\ SameLocks(c, l)
        /\ l.pending = c.pending
    BY <1>1, <1>3, <2>1, LoadableFound
  <2>3. PICK d : d = [l EXCEPT !.step = "refresh"]
    OBVIOUS
  <2>4. Becomes(p, d) /\ UNCHANGED world
    BY <1>3, <2>1, <2>3 DEF FinishLoad, Update, Becomes
  <2>5. d \in Call
    BY <2>2, <2>3 DEF Call, Steps
  <2>6. /\ d.op = l.op /\ d.folder = l.folder /\ d.marker = l.marker /\ d.id = l.id
        /\ d.storage = l.storage /\ d.pending = l.pending /\ d.step = "refresh"
        /\ d.claims = l.claims /\ d.regLock = l.regLock /\ d.share = l.share
        /\ d.repoLocks = l.repoLocks
    BY <2>2, <2>3 DEF Call
  <2>7. SameJob(c, d) /\ FoundIn(d.folder, d)
    BY <2>2, <2>6 DEF SameJob, FoundIn
  <2>8. QED
    BY <1>1, <2>2, <2>4, <2>5, <2>6, <2>7 DEF SameLocks, LoadFinishes
<1>4. CASE Loadable(c.folder) /\ StatusHere(c.folder) # "moved"
  <2>1. AfterLoad(p, c, StatusHere(c.folder))
    BY <1>4 DEF FinishLoad
  <2>2. QED
    BY <1>1, <1>4, <2>1, AfterLoadDoes DEF GoesOn, LoadFinishes
<1>5. QED
  BY <1>2, <1>3, <1>4 DEF LoadFinishes

(* The claim is to be refreshed under the location lock, or need not be. *)
RefreshClaims(p, d) ==
    /\ calls[p] \in Call /\ calls[p].step = "refresh" /\ Becomes(p, d)
    /\ SameJob(calls[p], d) /\ FoundIn(d.folder, d)
    /\ d.pending = calls[p].pending /\ UNCHANGED <<disk, world>>
    /\ d.share = calls[p].share /\ d.repoLocks = calls[p].repoLocks
    /\ \/ /\ d.step = "refreshClaimed" /\ d.claims = {calls[p].id}
          /\ d.regLock = calls[p].regLock /\ ClaimFree(p, {calls[p].id})
          /\ ~MarkerRaces => d.id = calls[p].id
          /\ d.op # "confirm" =>
               LocationStatus(d.folder, d.id, registry[d.id]) = "moved"
       \/ /\ d.step = "lock" /\ d.op \in {"mutate"} \cup ForceNew
          /\ d.claims = {} /\ d.regLock = FALSE

(* RefreshClaim ends the call, takes the claim, or finds it taken for this *)
(* folder.                                                                 *)
LEMMA RefreshClaimDoes ==
    ASSUME RegTypeInv, NEW p \in Procs, RefreshClaim(p)
    PROVE  \/ Ended(p)
           \/ \E d \in Call : RefreshClaims(p, d)
<1> DEFINE c == calls[p]
           again == StatusHere(c.folder)
<1>1. /\ c \in Call /\ Shape(c) /\ c.folder \in Folders /\ c # None /\ c.step = "refresh"
      /\ UNCHANGED disk
  BY CallRead DEF RefreshClaim, Call
<1>2. CASE ~ClaimFree(p, {c.id}) \/ ~Loadable(c.folder)
  BY <1>1, <1>2 DEF RefreshClaim, Ended
<1>3. CASE /\ ClaimFree(p, {c.id}) /\ Loadable(c.folder)
           /\ again = "moved" \/ (c.op = "confirm" /\ again # "current")
  <2>1. PICK l : l = Loaded(c)
    OBVIOUS
  <2>2. /\ l \in Call /\ FoundIn(c.folder, l) /\ SameJob(c, l) /\ SameLocks(c, l)
        /\ l.pending = c.pending
    BY <1>1, <1>3, <2>1, LoadableFound
  <2>3. PICK d : d = [l EXCEPT !.step = "refreshClaimed", !.claims = {c.id}]
    OBVIOUS
  <2>4. Becomes(p, d) /\ UNCHANGED world
    BY <1>3, <2>1, <2>3 DEF RefreshClaim, Update, Becomes
  <2>5. c.id \in Ids
    BY <1>1 DEF Shape, RegTypeInv, TypeOK
  <2>6. d \in Call
    BY <2>2, <2>3, <2>5 DEF Call, Steps
  <2>7. /\ d.op = l.op /\ d.folder = l.folder /\ d.marker = l.marker /\ d.id = l.id
        /\ d.storage = l.storage /\ d.pending = l.pending /\ d.step = "refreshClaimed"
        /\ d.claims = {c.id} /\ d.regLock = l.regLock /\ d.share = l.share
        /\ d.repoLocks = l.repoLocks
    BY <2>2, <2>3 DEF Call
  <2>8. SameJob(c, d) /\ FoundIn(d.folder, d)
    BY <2>2, <2>7 DEF SameJob, FoundIn
  <2>9. ~MarkerRaces => d.id = c.id
    BY <1>1, <2>2, <2>7 DEF RefreshClaim, FoundIn
  <2>10. d.op # "confirm" => LocationStatus(d.folder, d.id, registry[d.id]) = "moved"
    BY <1>3, <2>2, <2>7, <2>8 DEF SameJob, FoundIn, StatusHere
  <2>11. QED
    BY <1>1, <1>3, <2>2, <2>4, <2>6, <2>7, <2>8, <2>9, <2>10 DEF SameLocks, RefreshClaims
<1>4. CASE /\ ClaimFree(p, {c.id}) /\ Loadable(c.folder)
           /\ ~(again = "moved" \/ (c.op = "confirm" /\ again # "current"))
  <2>1. AfterLoad(p, c, again)
    BY <1>4 DEF RefreshClaim
  <2>2. QED
    BY <1>1, <1>4, <2>1, AfterLoadDoes DEF GoesOn, RefreshClaims
<1>5. QED
  BY <1>2, <1>3, <1>4 DEF RefreshClaims

(* The registry is locked and read for the claim. *)
RefreshReads(p, d) ==
    /\ calls[p] \in Call /\ calls[p].step = "refreshClaimed" /\ Becomes(p, d)
    /\ SameJob(calls[p], d) /\ SameTarget(calls[p], d) /\ UNCHANGED <<disk, world>>
    /\ d.step = "write" /\ d.seen = registry /\ d.regLock = TRUE
    /\ d.claims = calls[p].claims /\ d.share = calls[p].share
    /\ d.repoLocks = calls[p].repoLocks /\ RegistryFree(p)

(* RefreshRead ends the call or reads the registry under its lock. *)
LEMMA RefreshReadDoes ==
    ASSUME RegTypeInv, NEW p \in Procs, RefreshRead(p)
    PROVE  \/ Ended(p)
           \/ \E d \in Call : RefreshReads(p, d)
<1> DEFINE c == calls[p]
<1>1. c \in Call /\ c # None /\ c.step = "refreshClaimed" /\ UNCHANGED disk
  BY CallRead DEF RefreshRead
<1>2. CASE ~RegistryFree(p)
  BY <1>1, <1>2 DEF RefreshRead, Ended
<1>3. CASE RegistryFree(p)
  <2>1. PICK d : d = [c EXCEPT !.step = "write", !.regLock = TRUE, !.seen = registry]
    OBVIOUS
  <2>2. Becomes(p, d) /\ UNCHANGED world
    BY <1>3, <2>1 DEF RefreshRead, Update, Becomes
  <2>3. d \in Call
    BY <1>1, <2>1 DEF Call, Steps, RegTypeInv, TypeOK
  <2>4. /\ SameJob(c, d) /\ SameTarget(c, d) /\ d.step = "write" /\ d.seen = registry
        /\ d.regLock = TRUE /\ d.claims = c.claims /\ d.share = c.share
        /\ d.repoLocks = c.repoLocks
    BY <1>1, <2>1 DEF Call, SameJob, SameTarget
  <2>5. QED
    BY <1>1, <1>3, <2>2, <2>3, <2>4 DEF RefreshReads
<1>4. QED
  BY <1>2, <1>3 DEF RefreshReads

(* The claim is written; the call ends or goes on to lock the repository. *)
RefreshWrites(p, d) ==
    /\ calls[p] \in Call /\ calls[p].step = "write" /\ calls[p].id \in Ids
    /\ calls[p].seen \in Registry /\ registry' \in Registry
    /\ registry'[calls[p].id] # None
    /\ registry'[calls[p].id] = [root |-> calls[p].folder, storage |-> calls[p].storage]
    /\ \A i \in Ids \ {calls[p].id} : registry'[i] = calls[p].seen[i]
    /\ UNCHANGED <<folders, repos, world>> /\ Becomes(p, d)
    /\ d # None => /\ d \in Call /\ SameJob(calls[p], d) /\ SameTarget(calls[p], d)
                   /\ d.step = "lock" /\ d.op \in {"mutate"} \cup ForceNew
                   /\ d.claims = {} /\ d.regLock = FALSE
                   /\ d.share = calls[p].share /\ d.repoLocks = calls[p].repoLocks

(* RefreshWrite names the folder of the call in the registry. *)
LEMMA RefreshWriteDoes ==
    ASSUME RegTypeInv, NEW p \in Procs, RefreshWrite(p)
    PROVE  \E d : RefreshWrites(p, d)
<1> DEFINE c == calls[p]
<1>1. c \in Call /\ Shape(c) /\ c # None /\ c.step = "write" /\ UNCHANGED <<folders, repos>>
  BY CallRead DEF RefreshWrite
<1>2. c.id \in Ids /\ c.storage \in Storages /\ c.seen \in Registry
  BY <1>1, RegistryAssumption DEF Shape, Call, RegTypeInv, TypeOK
<1>3. /\ registry' \in Registry /\ registry'[c.id] # None
      /\ registry'[c.id] = [root |-> c.folder, storage |-> c.storage]
      /\ \A i \in Ids \ {c.id} : registry'[i] = c.seen[i]
  BY <1>1, <1>2, RegistryWritten DEF RefreshWrite
<1>4. CASE c.op = "mutate" \/ ToBeFinished(c, c.id)
  <2>1. PICK d : d = [c EXCEPT !.step = "lock", !.claims = {}, !.regLock = FALSE, !.seen = None]
    OBVIOUS
  <2>2. Becomes(p, d) /\ UNCHANGED world
    BY <1>4, <2>1 DEF RefreshWrite, Update, Becomes
  <2>3. d \in Call
    BY <1>1, <2>1 DEF Call, Steps
  <2>4. /\ SameJob(c, d) /\ SameTarget(c, d) /\ d.step = "lock" /\ d.claims = {}
        /\ d.regLock = FALSE /\ d.share = c.share /\ d.repoLocks = c.repoLocks
    BY <1>1, <2>1 DEF Call, SameJob, SameTarget
  <2>5. d.op \in {"mutate"} \cup ForceNew
    BY <1>4, <2>4 DEF SameJob, ToBeFinished
  <2>6. QED
    BY <1>1, <1>2, <1>3, <2>2, <2>3, <2>4, <2>5 DEF RefreshWrites
<1>5. CASE ~(c.op = "mutate" \/ ToBeFinished(c, c.id))
  <2>1. Becomes(p, None) /\ UNCHANGED world
    BY <1>5 DEF RefreshWrite, End, Becomes
  <2>2. QED
    BY <1>1, <1>2, <1>3, <2>1 DEF RefreshWrites
<1>6. QED
  BY <1>4, <1>5

(* The repository and, with others, the location are locked. *)
MutateLocks(p, d) ==
    /\ calls[p] \in Call /\ calls[p].step = "lock" /\ Becomes(p, d)
    /\ SameJob(calls[p], d) /\ SameTarget(calls[p], d) /\ UNCHANGED <<disk, world>>
    /\ d.step = "locked" /\ d.share = d.id /\ d.repoLocks = {<<d.storage, d.id>>}
    /\ d.claims = calls[p].claims /\ d.regLock = calls[p].regLock
    /\ ShareFree(p, d.share) /\ ReposFree(p, d.repoLocks)

(* MutateLock ends the call or takes both locks of the project. *)
LEMMA MutateLockDoes ==
    ASSUME RegTypeInv, NEW p \in Procs, MutateLock(p)
    PROVE  \/ Ended(p)
           \/ \E d \in Call : MutateLocks(p, d)
<1> DEFINE c == calls[p]
<1>1. c \in Call /\ Shape(c) /\ c # None /\ c.step = "lock" /\ UNCHANGED disk
  BY CallRead DEF MutateLock
<1>2. CASE ~(ShareFree(p, c.id) /\ ReposFree(p, {<<c.storage, c.id>>}))
  BY <1>1, <1>2 DEF MutateLock, Ended
<1>3. CASE ShareFree(p, c.id) /\ ReposFree(p, {<<c.storage, c.id>>})
  <2>r. PICK rs : rs = {<<c.storage, c.id>>}
    OBVIOUS
  <2>1. PICK d : d = [c EXCEPT !.step = "locked", !.share = c.id, !.repoLocks = rs]
    OBVIOUS
  <2>2. Becomes(p, d) /\ UNCHANGED world
    BY <1>3, <2>r, <2>1 DEF MutateLock, Update, Becomes
  <2>3. c.id \in Ids /\ c.storage \in Storages
    BY <1>1 DEF Shape, RegTypeInv, TypeOK
  <2>4. d \in Call
    <3>1. rs \in SUBSET (Storages \X Ids)
      BY <2>r, <2>3
    <3>2. QED
      BY <1>1, <2>1, <2>3, <3>1 DEF Call, Steps
  <2>5. /\ SameJob(c, d) /\ SameTarget(c, d) /\ d.step = "locked" /\ d.share = c.id
        /\ d.repoLocks = {<<c.storage, c.id>>} /\ d.claims = c.claims /\ d.regLock = c.regLock
    BY <1>1, <2>r, <2>1 DEF Call, SameJob, SameTarget
  <2>6. /\ d.share = d.id /\ d.repoLocks = {<<d.storage, d.id>>}
        /\ ShareFree(p, d.share) /\ ReposFree(p, d.repoLocks)
    BY <1>3, <2>5 DEF SameTarget
  <2>7. QED
    BY <1>1, <2>2, <2>4, <2>5, <2>6 DEF MutateLocks
<1>4. QED
  BY <1>2, <1>3 DEF MutateLocks

(* The binding is current under the locks, and the work begins. *)
MutateValidates(p, d) ==
    /\ calls[p] \in Call /\ calls[p].step = "locked" /\ Becomes(p, d)
    /\ SameJob(calls[p], d) /\ SameTarget(calls[p], d) /\ SameLocks(calls[p], d)
    /\ d.step = "working" /\ BindingIsCurrent(calls[p]) /\ UNCHANGED <<disk, world>>

(* MutateValidate ends the call or finds the binding current. *)
LEMMA MutateValidateDoes ==
    ASSUME RegTypeInv, NEW p \in Procs, MutateValidate(p)
    PROVE  \/ Ended(p)
           \/ \E d \in Call : MutateValidates(p, d)
<1> DEFINE c == calls[p]
<1>1. c \in Call /\ c # None /\ c.step = "locked" /\ UNCHANGED disk
  BY CallRead DEF MutateValidate
<1>2. CASE ~BindingIsCurrent(c)
  BY <1>1, <1>2 DEF MutateValidate, Ended
<1>3. CASE BindingIsCurrent(c)
  <2>1. Step(p, "working") /\ "working" \in Steps
    BY <1>3 DEF MutateValidate, Steps
  <2>2. PICK d \in Call : Advances(p, "working", d)
    BY <1>1, <2>1, StepDoes
  <2>3. QED
    BY <1>1, <1>3, <2>2 DEF Advances, MutateValidates
<1>4. QED
  BY <1>2, <1>3 DEF MutateValidates

(* A change of the storage root begins with the marker. *)
SetReads(p, f, req, d) ==
    /\ calls[p] = None /\ Becomes(p, d) /\ NoLocks(d) /\ d.op = "setStorage"
    /\ d.folder = f /\ d.req = req /\ d.step = "claim" /\ d.pending = None
    /\ folders[f] # Missing /\ d.marker = folders[f].marker /\ d.id = d.marker
    /\ d.id \in used /\ UNCHANGED disk /\ used' = used
    /\ begun' \in 0..MaxCalls /\ UNCHANGED <<user, lost, moved>>

(* SetRead does no more than that. *)
LEMMA SetReadDoes ==
    ASSUME RegTypeInv, NEW p \in Procs, NEW f \in Folders, NEW req \in Storages,
           SetRead(p, f, req)
    PROVE  \E d \in Call : SetReads(p, f, req, d)
<1> DEFINE n == NewCall("setStorage", f, req)
           m == folders[f].marker
<1>1. folders[f] # Missing /\ m # None /\ Begin(p, [n EXCEPT !.marker = m, !.id = m])
      /\ used' = used
  BY DEF SetRead
<1>2. m \in used /\ m \in Ids
  BY <1>1, FolderRead DEF RegTypeInv, TypeOK
<1>3. n \in Call
  BY RegistryAssumption DEF NewCall, Call, Ops, Steps
<1>4. PICK d : d = [n EXCEPT !.marker = m, !.id = m]
  OBVIOUS
<1>5. d \in Call
  BY <1>2, <1>3, <1>4 DEF Call
<1>6. /\ NoLocks(d) /\ d.op = "setStorage" /\ d.folder = f /\ d.req = req /\ d.step = "claim"
      /\ d.pending = None /\ d.marker = m /\ d.id = m
  BY <1>4 DEF NewCall, NoLocks
<1>7. calls[p] = None /\ Becomes(p, d) /\ UNCHANGED disk
      /\ begun' \in 0..MaxCalls /\ UNCHANGED <<user, lost, moved>>
  BY <1>1, <1>4, RegistryAssumption DEF Begin, Becomes, RegTypeInv, TypeOK
<1>8. QED
  BY <1>1, <1>2, <1>5, <1>6, <1>7 DEF SetReads

(* It holds its locks and has found the repository it is to name. *)
SetClaims(p, d) ==
    /\ calls[p] \in Call /\ calls[p].op = "setStorage" /\ calls[p].step = "claim"
    /\ Becomes(p, d) /\ SameJob(calls[p], d) /\ UNCHANGED <<disk, world>>
    /\ d.req = calls[p].req /\ d.pending = calls[p].pending
    /\ d.step = "checked" /\ d.seen = registry /\ d.regLock = TRUE
    /\ folders[d.folder] # Missing /\ d.id = folders[d.folder].marker
    /\ d.id \in used /\ d.storage \in Storages /\ registry[d.id] # None
    /\ <<d.storage, d.id>> \in repos /\ d.claims = {d.marker}
    /\ ~MarkerRaces => d.id = d.marker
    /\ LocationStatus(d.folder, d.id, registry[d.id]) # "copied"
    /\ d.share = calls[p].share
    /\ {<<registry[d.id].storage, d.id>>} \cap repos \subseteq d.repoLocks
    /\ ClaimFree(p, d.claims) /\ RegistryFree(p) /\ ReposFree(p, d.repoLocks)

(* SetClaim ends the call or takes every lock it needs. *)
LEMMA SetClaimDoes ==
    ASSUME RegTypeInv, NEW p \in Procs, SetClaim(p)
    PROVE  \/ Ended(p)
           \/ \E d \in Call : SetClaims(p, d)
<1> DEFINE c == calls[p]
           i == folders[c.folder].marker
           rs == {<<c.req, i>>} \cup ({<<registry[i].storage, i>>} \cap repos)
<1>1. /\ c \in Call /\ Shape(c) /\ c # None /\ c.op = "setStorage" /\ c.step = "claim"
      /\ c.folder \in Folders /\ UNCHANGED disk
  BY CallRead DEF SetClaim, Call
<1>2. CASE ~(/\ ClaimFree(p, {c.marker}) /\ RegistryFree(p) /\ folders[c.folder] # Missing
             /\ i # None /\ SetAllowed(c, i) /\ ReposFree(p, rs))
  BY <1>1, <1>2 DEF SetClaim, Ended
<1>3. CASE /\ ClaimFree(p, {c.marker}) /\ RegistryFree(p) /\ folders[c.folder] # Missing
           /\ i # None /\ SetAllowed(c, i) /\ ReposFree(p, rs)
  <2>1. PICK d : d = [c EXCEPT !.step = "checked", !.id = i, !.claims = {c.marker},
                               !.regLock = TRUE, !.seen = registry,
                               !.storage = c.req, !.repoLocks = rs]
    OBVIOUS
  <2>2. Becomes(p, d) /\ UNCHANGED world
    BY <1>3, <2>1 DEF SetClaim, Update, Becomes
  <2>3. i \in used /\ i \in Ids /\ c.marker \in Ids /\ c.req \in Storages
    BY <1>1, <1>3, FolderRead DEF Shape, RegTypeInv, TypeOK
  <2>4. rs \subseteq Storages \X Ids
    BY <2>3 DEF RegTypeInv, TypeOK
  <2>5. d \in Call
    BY <1>1, <2>1, <2>3, <2>4 DEF Call, Steps, RegTypeInv, TypeOK
  <2>6. /\ SameJob(c, d) /\ d.req = c.req /\ d.pending = c.pending /\ d.step = "checked"
        /\ d.seen = registry /\ d.regLock = TRUE /\ d.id = i /\ d.storage = c.req
        /\ d.claims = {c.marker} /\ d.share = c.share /\ d.repoLocks = rs
    BY <1>1, <2>1 DEF Call, SameJob
  <2>7. d.folder = c.folder /\ d.marker = c.marker
    BY <2>6 DEF SameJob
  <2>8. /\ registry[i] # None /\ LocationStatus(c.folder, i, registry[i]) # "copied"
        /\ <<c.req, i>> \in repos /\ (~MarkerRaces => i = c.marker)
    BY <1>1, <1>3 DEF SetAllowed, SetClaim
  <2>9. /\ folders[d.folder] # Missing /\ d.id = folders[d.folder].marker /\ d.id \in used
        /\ d.storage \in Storages /\ registry[d.id] # None /\ <<d.storage, d.id>> \in repos
        /\ d.claims = {d.marker} /\ (~MarkerRaces => d.id = d.marker)
        /\ LocationStatus(d.folder, d.id, registry[d.id]) # "copied"
    BY <1>3, <2>3, <2>6, <2>7, <2>8
  <2>10. {<<registry[d.id].storage, d.id>>} \cap repos \subseteq d.repoLocks
    BY <2>6
  <2>11. ClaimFree(p, d.claims) /\ RegistryFree(p) /\ ReposFree(p, d.repoLocks)
    BY <1>3, <2>6
  <2>12. QED
    BY <1>1, <2>2, <2>5, <2>6, <2>9, <2>10, <2>11 DEF SetClaims
<1>4. QED
  BY <1>2, <1>3 DEF SetClaims

(* SetWrite names the new storage root in the registry. *)
LEMMA SetWriteDoes ==
    ASSUME RegTypeInv, NEW p \in Procs, SetWrite(p)
    PROVE  /\ calls[p] \in Call /\ calls[p].op = "setStorage" /\ calls[p].step = "checked"
           /\ calls[p].id \in Ids /\ calls[p].seen \in Registry /\ registry' \in Registry
           /\ registry'[calls[p].id] # None
           /\ registry'[calls[p].id] = [root |-> calls[p].folder, storage |-> calls[p].storage]
           /\ \A i \in Ids \ {calls[p].id} : registry'[i] = calls[p].seen[i]
           /\ Becomes(p, None) /\ UNCHANGED <<folders, repos, world>>
<1> DEFINE c == calls[p]
<1>1. c \in Call /\ Shape(c) /\ c.op = "setStorage" /\ c.step = "checked"
  BY CallRead DEF SetWrite
<1>2. c.id \in Ids /\ c.storage \in Storages /\ c.seen \in Registry
  BY <1>1 DEF Shape, Call, RegTypeInv, TypeOK
<1>3. QED
  BY <1>1, <1>2, RegistryWritten DEF SetWrite, End, Becomes

(* The steps of the specification, with every ending that changes nothing  *)
(* on disk taken as one.                                                   *)
LEMMA StepKinds ==
    ASSUME RegTypeInv, [Next]_vars
    PROVE  \/ UNCHANGED vars
           \/ Users
           \/ \E p \in Procs :
                \/ Ended(p)
                \/ \E op \in InitOps, f \in Folders, req \in Requests \cup {None} :
                     InitRead(p, op, f, req)
                \/ InitClaim(p) \/ InitReserve(p) \/ InitLayout(p) \/ InitPhase(p)
                \/ InitRegister(p) \/ InitRegistered(p) \/ InitCommit(p) \/ InitFinalize(p)
                \/ \E op \in LoadOps, f \in Folders : LoadRead(p, op, f)
                \/ FinishLoad(p) \/ RefreshClaim(p) \/ RefreshRead(p) \/ RefreshWrite(p)
                \/ MutateLock(p) \/ MutateValidate(p)
                \/ \E f \in Folders, req \in Storages : SetRead(p, f, req)
                \/ SetClaim(p) \/ SetWrite(p)
<1>1. \A p \in Procs : Fails(p) \/ MutateDone(p) => Ended(p)
  BY DEF Fails, MutateDone, Ended
<1>2. QED
  BY <1>1 DEF Next, InitProject, LoadProject, SetStorageRoot

(* Users leave a folder as it was, empty, or as another one; and they add  *)
(* no repository of a project that had none.                               *)
UsersChange ==
    /\ moved \subseteq moved' /\ moved' \subseteq Folders
    /\ lost \subseteq lost' /\ lost' \subseteq Ids
    /\ folders' \in [Folders -> Folder \cup {Missing}]
    /\ repos' \subseteq Storages \X Ids
    /\ \A f \in Folders \ moved' : folders'[f] = folders[f]
    /\ \A f \in Folders : folders[f] # Missing => folders'[f] \in {folders[f], Missing}
    /\ \A f \in Folders : folders'[f] # folders[f] =>
         \/ folders'[f] = Missing
         \/ \E g \in moved' : folders'[f] = folders[g] /\ folders[g] # Missing
    /\ \A s \in Storages, i \in Ids : <<s, i>> \in repos => <<s, i>> \in repos' \/ i \in lost'
    /\ \A s \in Storages, i \in Ids : <<s, i>> \in repos' => \E t \in Storages : <<t, i>> \in repos
    /\ folders' = folders \/ moved' # {}

(* Users act only while no call holds a lock. *)
LEMMA UsersDo ==
    ASSUME RegTypeInv, Users
    PROVE  /\ \A p \in Running : ~Held(calls[p])
           /\ UNCHANGED <<registry, calls, used, begun>> /\ user' \in 0..MaxUser
           /\ UsersChange
<1>1. /\ folders \in [Folders -> Folder \cup {Missing}] /\ repos \subseteq Storages \X Ids
      /\ user \in 0..MaxUser /\ lost \subseteq Ids /\ moved \subseteq Folders
  BY DEF RegTypeInv, TypeOK
<1>2. ASSUME UserActs
      PROVE  /\ \A p \in Running : ~Held(calls[p])
             /\ UNCHANGED <<registry, calls, used, begun>> /\ user' \in 0..MaxUser
  BY <1>1, <1>2, RegistryAssumption DEF UserActs
<1>3. ASSUME NEW f \in Folders, NEW g \in Folders, UserCopies(f, g)
      PROVE  UserActs /\ UsersChange
  <2>1. /\ UserActs /\ folders[f] # Missing /\ folders[g] = Missing
        /\ folders' = [folders EXCEPT ![g] = folders[f]]
        /\ moved' = moved \cup {f, g} /\ repos' = repos /\ lost' = lost
    BY <1>3 DEF UserCopies
  <2>2. QED
    BY <1>1, <2>1 DEF UsersChange
<1>4. ASSUME NEW f \in Folders, NEW g \in Folders, UserMoves(f, g) PROVE UserActs /\ UsersChange
  <2>1. /\ UserActs /\ folders[f] # Missing /\ folders[g] = Missing
        /\ folders' = [folders EXCEPT ![g] = folders[f], ![f] = Missing]
        /\ moved' = moved \cup {f, g} /\ repos' = repos /\ lost' = lost
    BY <1>4 DEF UserMoves
  <2>2. /\ folders' \in [Folders -> Folder \cup {Missing}]
        /\ folders'[f] = Missing /\ (g # f => folders'[g] = folders[f])
        /\ \A h \in Folders \ {f, g} : folders'[h] = folders[h]
    BY <1>1, <2>1
  <2>3. QED
    BY <1>1, <2>1, <2>2 DEF UsersChange
<1>5. ASSUME NEW f \in Folders, UserDeletes(f) PROVE UserActs /\ UsersChange
  <2>1. /\ UserActs /\ folders' = [folders EXCEPT ![f] = Missing]
        /\ moved' = moved \cup {f} /\ repos' = repos /\ lost' = lost
    BY <1>5 DEF UserDeletes
  <2>2. QED
    BY <1>1, <2>1 DEF UsersChange
<1>6. ASSUME NEW i \in Ids, NEW s \in Storages, UserLosesRepository(s, i)
      PROVE  UserActs /\ UsersChange
  <2>1. /\ UserActs /\ repos' = repos \ {<<s, i>>} /\ lost' = lost \cup {i}
        /\ UNCHANGED <<folders, moved>>
    BY <1>6 DEF UserLosesRepository
  <2>2. QED
    BY <1>1, <2>1 DEF UsersChange
<1>7. ASSUME NEW i \in Ids, NEW s \in Storages, NEW t \in Storages, UserMovesRepository(s, t, i)
      PROVE  UserActs /\ UsersChange
  <2>1. /\ UserActs /\ <<s, i>> \in repos /\ repos' = (repos \ {<<s, i>>}) \cup {<<t, i>>}
        /\ lost' = lost \cup {i} /\ UNCHANGED <<folders, moved>>
    BY <1>7 DEF UserMovesRepository
  <2>2. QED
    BY <1>1, <2>1 DEF UsersChange
<1>8. QED
  BY <1>2, <1>3, <1>4, <1>5, <1>6, <1>7 DEF Users

-----------------------------------------------------------------------------
(* The types are kept. *)

(* A call that goes on without a change on disk. *)
LEMMA MoveTyped ==
    ASSUME RegTypeInv, NEW p \in Procs, NEW d \in Call, Becomes(p, d), Shape(d)',
           UNCHANGED <<disk, world>>
    PROVE  RegTypeInv'
BY CallTyped DEF RegTypeInv, TypeOK, disk, world, Becomes

(* A call that has written to its folder. *)
LEMMA FolderTyped ==
    ASSUME RegTypeInv, NEW p \in Procs, NEW d, Becomes(p, d),
           d # None => d \in Call /\ Shape(d)', UNCHANGED <<registry, repos, world>>,
           NEW f \in Folders, folders[f] # Missing, NEW marker \in used \cup {None}, NEW pending,
           pending # None => pending.id \in used /\ pending.prev # pending.id,
           FolderWritten(f, marker, pending)
    PROVE  RegTypeInv'
<1>1. /\ used' = used /\ begun' = begun /\ UNCHANGED <<user, lost, moved>>
      /\ registry' = registry /\ repos' = repos
  BY DEF world
<1>2. /\ folders' \in [Folders -> Folder \cup {Missing}]
      /\ \A g \in Folders : folders'[g] = Missing => folders[g] = Missing
      /\ \A g \in Folders : folders'[g] # folders[g] /\ folders'[g] # Missing =>
           /\ folders'[g].marker \in used' \cup {None}
           /\ folders'[g].pending # None =>
                /\ folders'[g].pending.prev # folders'[g].pending.id
                /\ folders'[g].pending.id \in used'
  BY <1>1 DEF FolderWritten
<1>3. registry' \in Registry /\ repos' \subseteq Storages \X Ids /\ used' \subseteq Ids
      /\ begun' \in 0..MaxCalls
  BY <1>1 DEF RegTypeInv, TypeOK
<1>4. calls' = [calls EXCEPT ![p] = d] /\ used \subseteq used'
  BY <1>1 DEF Becomes
<1>5. QED
  BY <1>1, <1>2, <1>3, <1>4, CallTyped

(* Every step keeps the types, one action after the other. *)
LEMMA RegTypeStep == RegTypeInv /\ [Next]_vars => RegTypeInv'
<1> SUFFICES ASSUME RegTypeInv, [Next]_vars PROVE RegTypeInv'
  OBVIOUS
<1> USE RegistryAssumption, NoneAssumption
<1>t. TypeOK /\ PendingsUsed
  BY DEF RegTypeInv
<1>s. \A x \in LockedSteps : x # "claim" /\ x \in InitSteps
  BY DEF LockedSteps, InitSteps
<1>1. CASE UNCHANGED vars
  <2>1. UNCHANGED <<folders, registry, repos, calls, used, begun, user, lost, moved>>
    BY <1>1 DEF vars, disk, world
  <2>2. TypeOK' /\ PendingsUsed'
    BY <1>t, <2>1 DEF TypeOK, PendingsUsed
  <2>3. \A p \in Running : Shape(calls[p])'
    BY <2>1 DEF RegTypeInv, Shape, Starting, Separating, FreshId
  <2>4. QED
    BY <2>1, <2>2, <2>3 DEF RegTypeInv, Running
<1>2. CASE Users
  <2>1. /\ \A p \in Running : ~Held(calls[p])
        /\ UNCHANGED <<registry, calls, used, begun>> /\ user' \in 0..MaxUser
        /\ UsersChange
    BY <1>2, UsersDo
  <2>2. \A f \in Folders : folders'[f] # Missing =>
          \E g \in Folders : folders'[f] = folders[g] /\ folders[g] # Missing
    BY <1>t, <2>1 DEF UsersChange, TypeOK
  <2>3. TypeOK' /\ PendingsUsed'
    BY <1>t, <2>1, <2>2 DEF TypeOK, PendingsUsed, UsersChange
  <2>4. ASSUME NEW p \in Running PROVE Shape(calls[p])'
    <3>1. Shape(calls[p]) /\ ~Held(calls[p])
      BY <2>1 DEF RegTypeInv
    <3>2. ~(Starting(calls[p]) /\ calls[p].step # "claim")
      BY <3>1 DEF Shape, Held
    <3>3. QED
      BY <2>1, <3>1, <3>2 DEF Shape, Starting, Separating, FreshId
  <2>5. QED
    BY <2>1, <2>3, <2>4 DEF RegTypeInv, Running
<1>3. ASSUME NEW p \in Procs, Ended(p) PROVE RegTypeInv'
  BY <1>3, <1>t, CallTyped DEF Ended, End, world, disk, TypeOK
<1>4. ASSUME NEW p \in Procs, NEW op \in InitOps, NEW f \in Folders,
             NEW req \in Requests \cup {None}, InitRead(p, op, f, req)
      PROVE  RegTypeInv'
  <2>1. PICK d \in Call : InitReads(p, op, f, d)
    BY <1>4, InitReadDoes
  <2>2. used \subseteq used' /\ used' \subseteq Ids /\ begun' \in 0..MaxCalls
        /\ UNCHANGED <<user, lost, moved>> /\ UNCHANGED <<folders, registry, repos>>
        /\ calls' = [calls EXCEPT ![p] = d]
    BY <1>t, <2>1 DEF InitReads, TypeOK, disk, Becomes
  <2>3. /\ folders[f].marker \in used \cup {None}
        /\ folders[f].pending # None =>
             folders[f].pending.id \in used /\ folders[f].pending.prev # folders[f].pending.id
    BY <2>1, FolderRead DEF InitReads
  <2>4. Shape(d)'
    BY <2>1, <2>2, <2>3 DEF InitReads, Shape, Starting, Separating, FreshId,
         InitSteps, LockedSteps, InitOps, LoadOps, ForceNew
  <2>5. QED
    BY <1>t, <2>2, <2>4, CallTyped DEF TypeOK
<1>5. ASSUME NEW p \in Procs, InitClaim(p) PROVE RegTypeInv'
  <2>1. ASSUME NEW d \in Call, InitClaims(p, d) PROVE RegTypeInv'
    <3>1. UNCHANGED <<disk, world>> /\ Becomes(p, d) /\ used' = used /\ folders' = folders
      BY <2>1 DEF InitClaims, disk, world
    <3>2. Shape(calls[p])
      BY <2>1, CallRead DEF InitClaims
    <3>3. folders[d.folder] # Missing /\ d.seen # None
      BY <1>t, <2>1 DEF InitClaims, InitAllowed, MarkerUnchanged, SameJob, TypeOK
    <3>4. Shape(d)'
      BY <2>1, <3>1, <3>2, <3>3 DEF InitClaims, SameJob, Shape, Starting, Separating, FreshId,
         InitSteps, LockedSteps, InitOps, LoadOps, ForceNew
    <3>5. QED
      BY <3>1, <3>4, MoveTyped
  <2>2. QED
    BY <1>3, <1>5, <2>1, InitClaimDoes
<1>6. ASSUME NEW p \in Procs, InitReserve(p) PROVE RegTypeInv'
  <2>1. PICK d \in Call : InitReserves(p, d)
    BY <1>6, InitReserveDoes
  <2>2. /\ Becomes(p, d) /\ UNCHANGED <<registry, repos, world>> /\ used' = used
        /\ d.folder \in Folders
    BY <2>1 DEF InitReserves, world, Call
  <2>3. /\ Shape(calls[p]) /\ d.op = calls[p].op /\ d.marker = calls[p].marker
        /\ d.folder = calls[p].folder /\ d.id = calls[p].id /\ calls[p].step = "checked"
        /\ d.step = "reserved" /\ d.storage = calls[p].storage /\ d.seen = calls[p].seen
        /\ d.regLock = calls[p].regLock /\ d.op \in InitOps
    BY <2>1, CallRead DEF InitReserves, SameJob, SameLocks
  <2>4. /\ folders[d.folder] # Missing /\ d.id \in used /\ d.storage \in Storages /\ d.regLock
        /\ FreshId(calls[p]) => d.marker # d.id /\ d.marker # None
    BY <2>3 DEF Shape, Starting, FreshId, LockedSteps, InitSteps
  <2>5. folders'[d.folder] # Missing
    BY <2>1, <2>2 DEF InitReserves, FolderWritten
  <2>6. Shape(d)'
    <3>1. FreshId(calls[p]) <=> d.op \in ForceNew /\ calls[p].pending = None
      BY <2>3 DEF FreshId
    <3>2. FreshId(calls[p]) => /\ d.pending # None /\ d.pending.prev # d.pending.id
                               /\ d.pending.id = d.id /\ d.pending.storage = d.storage
      BY <2>1, <2>4 DEF InitReserves
    <3>3. ~FreshId(calls[p]) => d.pending = calls[p].pending
      BY <2>1 DEF InitReserves
    <3>4. QED
      BY <2>2, <2>3, <2>4, <2>5, <3>1, <3>2, <3>3 DEF Shape, Starting, Separating, FreshId,
         InitSteps, LockedSteps, InitOps, LoadOps, ForceNew
  <2>7. PICK m : m = IF d.op = "init" THEN d.id ELSE folders[d.folder].marker
    OBVIOUS
  <2>8. PICK x : x = IF FreshId(calls[p]) THEN d.pending ELSE folders[d.folder].pending
    OBVIOUS
  <2>9. FolderWritten(d.folder, m, x)
    BY <2>1, <2>7, <2>8 DEF InitReserves
  <2>10. m \in used \cup {None} /\ (x # None => x.id \in used /\ x.prev # x.id)
    <3>1. FreshId(calls[p]) => d.pending.id \in used /\ d.pending.prev # d.pending.id
      BY <2>1, <2>4 DEF InitReserves
    <3>2. QED
      BY <2>2, <2>4, <2>7, <2>8, <3>1, FolderRead
  <2>11. QED
    BY <2>2, <2>4, <2>6, <2>9, <2>10, FolderTyped
<1>7. ASSUME NEW p \in Procs, InitLayout(p) PROVE RegTypeInv'
  <2>1. /\ calls[p] # None /\ calls[p].step = "reserved" /\ Step(p, "laidOut")
        /\ UNCHANGED <<folders, registry>> /\ "laidOut" \in Steps
        /\ repos' = repos \cup {<<calls[p].storage, calls[p].id>>}
    BY <1>7 DEF InitLayout, Steps
  <2>2. PICK d \in Call : Advances(p, "laidOut", d)
    BY <2>1, StepDoes
  <2>3. Shape(calls[p]) /\ calls[p].id \in Ids /\ calls[p].storage \in Storages
    BY <1>t, <2>1, CallRead DEF Shape, TypeOK
  <2>4. UNCHANGED <<used, begun, user, lost, moved>> /\ calls' = [calls EXCEPT ![p] = d]
    BY <2>2 DEF Advances, world, Becomes
  <2>5. Shape(d)'
    BY <2>1, <2>2, <2>3, <2>4 DEF Advances, SameJob, SameTarget, SameLocks, Shape, Starting,
       Separating, FreshId, InitSteps, LockedSteps, InitOps, LoadOps, ForceNew
  <2>6. repos' \subseteq Storages \X Ids
    BY <1>t, <2>1, <2>3 DEF TypeOK
  <2>7. QED
    BY <1>t, <2>1, <2>4, <2>5, <2>6, CallTyped DEF TypeOK
<1>8. ASSUME NEW p \in Procs, NEW from, NEW phase \in {"repositoryInitialized", "registered"},
             NEW s \in LockedSteps \ {"checked", "reserved", "laidOut"}, calls[p] # None,
             calls[p].step \in LockedSteps \ {"checked", "reserved"},
             s = "phased" => calls[p].seen # None,
             WritePhase(p, from, phase, s), UNCHANGED <<registry, repos>>
      PROVE  RegTypeInv'
  <2>1. PICK d \in Call : WritesPhase(p, from, phase, s, d)
    BY <1>8, WritePhaseDoes DEF LockedSteps, Steps
  <2>2. /\ Becomes(p, d) /\ UNCHANGED <<registry, repos, world>> /\ used' = used
        /\ d.folder \in Folders /\ d.folder = calls[p].folder
    BY <1>8, <2>1 DEF WritesPhase, world, Call, SameJob
  <2>3. Shape(calls[p])
    BY <1>8, CallRead
  <2>4. folders[d.folder] # Missing /\ (calls[p].pending # None =>
          calls[p].pending.id \in used /\ calls[p].pending.prev # calls[p].pending.id)
    BY <1>8, <2>1, <2>2, <2>3 DEF WritesPhase, Shape, Starting, Separating, InitSteps,
       LockedSteps
  <2>5. CASE d.pending = calls[p].pending /\ folders' = folders
    <3>1. Shape(d)'
      BY <1>8, <2>1, <2>2, <2>3, <2>5 DEF WritesPhase, SameJob, SameLocks, Shape, Starting,
         Separating, FreshId, InitSteps, LockedSteps, InitOps, LoadOps, ForceNew
    <3>2. QED
      BY <2>2, <2>5, <3>1, MoveTyped DEF disk
  <2>6. CASE /\ d.op \in ForceNew /\ calls[p].pending # None
             /\ d.pending \in Pending /\ d.pending.id = calls[p].pending.id
             /\ d.pending.prev = calls[p].pending.prev
             /\ d.pending.storage = calls[p].pending.storage
             /\ FolderWritten(d.folder, folders[d.folder].marker, d.pending)
    <3>1. folders'[d.folder] # Missing /\ d.pending # None
      BY <2>6 DEF FolderWritten
    <3>2. Shape(d)'
      BY <1>8, <2>1, <2>2, <2>3, <2>6, <3>1 DEF WritesPhase, SameJob, SameLocks, Shape,
         Starting, Separating, FreshId, InitSteps, LockedSteps, InitOps, LoadOps, ForceNew
    <3>3. folders[d.folder].marker \in used \cup {None}
      BY <2>2, <2>4, FolderRead
    <3>4. QED
      BY <2>2, <2>4, <2>6, <3>2, <3>3, FolderTyped
  <2>7. QED
    BY <2>1, <2>5, <2>6 DEF WritesPhase
<1>9. ASSUME NEW p \in Procs, InitPhase(p) PROVE RegTypeInv'
  <2>1. /\ calls[p] # None /\ calls[p].step = "laidOut" /\ UNCHANGED <<registry, repos>>
        /\ WritePhase(p, {"prepared"}, "repositoryInitialized", "phased")
    BY <1>9 DEF InitPhase
  <2>2. calls[p].seen # None
    BY <2>1, CallRead DEF Shape
  <2>3. QED
    BY <1>8, <2>1, <2>2 DEF LockedSteps
<1>10. ASSUME NEW p \in Procs, InitRegister(p) PROVE RegTypeInv'
  <2>1. PICK d \in Call : InitRegisters(p, d)
    BY <1>10, InitRegisterDoes
  <2>2. /\ UNCHANGED <<folders, repos, used, begun, user, lost, moved>>
        /\ calls' = [calls EXCEPT ![p] = d] /\ registry' \in Registry
    BY <2>1 DEF InitRegisters, world, Becomes
  <2>3. Shape(calls[p])
    BY <2>1, CallRead DEF InitRegisters
  <2>4. Shape(d)'
    BY <2>1, <2>2, <2>3 DEF InitRegisters, SameJob, SameTarget, SameLocks, Shape, Starting,
       Separating, FreshId, InitSteps, LockedSteps, InitOps, LoadOps, ForceNew
  <2>5. QED
    BY <1>t, <2>2, <2>4, CallTyped DEF TypeOK
<1>11. ASSUME NEW p \in Procs, InitRegistered(p) PROVE RegTypeInv'
  <2>1. /\ calls[p] # None /\ calls[p].step = "registered" /\ UNCHANGED <<registry, repos>>
        /\ WritePhase(p, {"prepared", "repositoryInitialized"}, "registered", "committed")
    BY <1>11 DEF InitRegistered
  <2>2. QED
    BY <1>8, <2>1 DEF LockedSteps
<1>12. ASSUME NEW p \in Procs, InitCommit(p) PROVE RegTypeInv'
  <2>1. PICK d \in Call : InitCommits(p, d)
    BY <1>12, InitCommitDoes
  <2>2. /\ Becomes(p, d) /\ UNCHANGED <<registry, repos, world>> /\ used' = used
        /\ d.folder \in Folders
    BY <2>1 DEF InitCommits, world, Call
  <2>3. Shape(calls[p]) /\ calls[p].step = "committed" /\ d.folder = calls[p].folder
        /\ d.id = calls[p].id
    BY <2>1, CallRead DEF InitCommits, SameJob, SameTarget
  <2>4. folders[d.folder] # Missing /\ d.id \in used
    BY <2>3 DEF Shape, Starting, InitSteps, LockedSteps
  <2>5. PICK m : m = IF d.op \in ForceNew THEN d.id ELSE folders[d.folder].marker
    OBVIOUS
  <2>6. FolderWritten(d.folder, m, folders[d.folder].pending)
    BY <2>1, <2>5 DEF InitCommits
  <2>7. Shape(d)'
    <3>1. folders'[d.folder] # Missing
      BY <2>6 DEF FolderWritten
    <3>2. QED
      BY <2>1, <2>2, <2>3, <3>1 DEF InitCommits, SameJob, SameTarget, SameLocks, Shape,
         Starting, Separating, FreshId, InitSteps, LockedSteps, InitOps, LoadOps, ForceNew
  <2>8. QED
    BY <2>2, <2>4, <2>5, <2>6, <2>7, FolderRead, FolderTyped
<1>13. ASSUME NEW p \in Procs, InitFinalize(p) PROVE RegTypeInv'
  <2>1. /\ Becomes(p, None) /\ UNCHANGED <<registry, repos, world>> /\ calls[p].folder \in Folders
        /\ \/ folders' = folders
           \/ /\ folders[calls[p].folder] # Missing
              /\ FolderWritten(calls[p].folder, folders[calls[p].folder].marker, None)
    BY <1>13, InitFinalizeDoes DEF BindingIsCurrent, Call
  <2>2. CASE folders' = folders
    BY <1>t, <2>1, <2>2, CallTyped DEF TypeOK, world, Becomes
  <2>3. CASE /\ folders[calls[p].folder] # Missing
             /\ FolderWritten(calls[p].folder, folders[calls[p].folder].marker, None)
    BY <2>1, <2>3, FolderRead, FolderTyped
  <2>4. QED
    BY <2>1, <2>2, <2>3
<1>14. ASSUME NEW p \in Procs, NEW op \in LoadOps, NEW f \in Folders, LoadRead(p, op, f)
       PROVE  RegTypeInv'
  <2>1. PICK d \in Call : LoadReads(p, op, f, d)
    BY <1>14, LoadReadDoes
  <2>2. UNCHANGED <<folders, registry, repos, used, user, lost, moved>>
        /\ begun' \in 0..MaxCalls /\ calls' = [calls EXCEPT ![p] = d]
    BY <2>1 DEF LoadReads, disk, Becomes
  <2>3. Shape(d)'
    BY <2>1, <2>2 DEF LoadReads, FoundIn, Shape, Starting, Separating, FreshId,
         InitSteps, LockedSteps, InitOps, LoadOps, ForceNew
  <2>4. QED
    BY <1>t, <2>2, <2>3, CallTyped DEF TypeOK
<1>15. ASSUME NEW p \in Procs, FinishLoad(p) PROVE RegTypeInv'
  <2>1. ASSUME NEW d \in Call, LoadFinishes(p, d) PROVE RegTypeInv'
    <3>1. UNCHANGED <<disk, world>> /\ Becomes(p, d) /\ used' = used /\ folders' = folders
      BY <2>1 DEF LoadFinishes, disk, world
    <3>2. Shape(calls[p]) /\ calls[p].step = "load"
      BY <2>1, CallRead DEF LoadFinishes
    <3>3. Shape(d)'
      BY <2>1, <3>1, <3>2 DEF LoadFinishes, FoundIn, SameJob, Shape, Starting, Separating,
         FreshId, InitSteps, LockedSteps, InitOps, LoadOps, ForceNew
    <3>4. QED
      BY <3>1, <3>3, MoveTyped
  <2>2. QED
    BY <1>3, <1>15, <2>1, FinishLoadDoes
<1>16. ASSUME NEW p \in Procs, RefreshClaim(p) PROVE RegTypeInv'
  <2>1. ASSUME NEW d \in Call, RefreshClaims(p, d) PROVE RegTypeInv'
    <3>1. UNCHANGED <<disk, world>> /\ Becomes(p, d) /\ used' = used /\ folders' = folders
      BY <2>1 DEF RefreshClaims, disk, world
    <3>2. Shape(calls[p]) /\ calls[p].step = "refresh"
      BY <2>1, CallRead DEF RefreshClaims
    <3>3. Shape(d)'
      BY <2>1, <3>1, <3>2 DEF RefreshClaims, FoundIn, SameJob, Shape, Starting, Separating,
         FreshId, InitSteps, LockedSteps, InitOps, LoadOps, ForceNew
    <3>4. QED
      BY <3>1, <3>3, MoveTyped
  <2>2. QED
    BY <1>3, <1>16, <2>1, RefreshClaimDoes
<1>17. ASSUME NEW p \in Procs, RefreshRead(p) PROVE RegTypeInv'
  <2>1. ASSUME NEW d \in Call, RefreshReads(p, d) PROVE RegTypeInv'
    <3>1. UNCHANGED <<disk, world>> /\ Becomes(p, d) /\ used' = used /\ folders' = folders
      BY <2>1 DEF RefreshReads, disk, world
    <3>2. Shape(calls[p]) /\ calls[p].step = "refreshClaimed" /\ d.seen # None
      BY <1>t, <2>1, CallRead DEF RefreshReads, TypeOK
    <3>3. Shape(d)'
      BY <2>1, <3>1, <3>2 DEF RefreshReads, SameJob, SameTarget, Shape, Starting, Separating,
         FreshId, InitSteps, LockedSteps, InitOps, LoadOps, ForceNew
    <3>4. QED
      BY <3>1, <3>3, MoveTyped
  <2>2. QED
    BY <1>3, <1>17, <2>1, RefreshReadDoes
<1>18. ASSUME NEW p \in Procs, RefreshWrite(p) PROVE RegTypeInv'
  <2>1. PICK d : RefreshWrites(p, d)
    BY <1>18, RefreshWriteDoes
  <2>2. /\ UNCHANGED <<folders, repos, used, begun, user, lost, moved>>
        /\ calls' = [calls EXCEPT ![p] = d] /\ registry' \in Registry
    BY <2>1 DEF RefreshWrites, world, Becomes
  <2>3. Shape(calls[p]) /\ calls[p].step = "write"
    BY <2>1, CallRead DEF RefreshWrites
  <2>4. d # None => d \in Call /\ Shape(d)'
    BY <2>1, <2>2, <2>3 DEF RefreshWrites, SameJob, SameTarget, Shape, Starting, Separating,
       FreshId, InitSteps, LockedSteps, InitOps, LoadOps, ForceNew
  <2>5. QED
    BY <1>t, <2>2, <2>4, CallTyped DEF TypeOK
<1>19. ASSUME NEW p \in Procs, MutateLock(p) PROVE RegTypeInv'
  <2>1. ASSUME NEW d \in Call, MutateLocks(p, d) PROVE RegTypeInv'
    <3>1. UNCHANGED <<disk, world>> /\ Becomes(p, d) /\ used' = used /\ folders' = folders
      BY <2>1 DEF MutateLocks, disk, world
    <3>2. Shape(calls[p]) /\ calls[p].step = "lock"
      BY <2>1, CallRead DEF MutateLocks
    <3>3. Shape(d)'
      BY <2>1, <3>1, <3>2 DEF MutateLocks, SameJob, SameTarget, Shape, Starting, Separating,
         FreshId, InitSteps, LockedSteps, InitOps, LoadOps, ForceNew
    <3>4. QED
      BY <3>1, <3>3, MoveTyped
  <2>2. QED
    BY <1>3, <1>19, <2>1, MutateLockDoes
<1>20. ASSUME NEW p \in Procs, MutateValidate(p) PROVE RegTypeInv'
  <2>1. ASSUME NEW d \in Call, MutateValidates(p, d) PROVE RegTypeInv'
    <3>1. UNCHANGED <<disk, world>> /\ Becomes(p, d) /\ used' = used /\ folders' = folders
      BY <2>1 DEF MutateValidates, disk, world
    <3>2. Shape(calls[p]) /\ calls[p].step = "locked"
      BY <2>1, CallRead DEF MutateValidates
    <3>3. Shape(d)'
      BY <2>1, <3>1, <3>2 DEF MutateValidates, SameJob, SameTarget, Shape, Starting,
         Separating, FreshId, InitSteps, LockedSteps, InitOps, LoadOps, ForceNew
    <3>4. QED
      BY <3>1, <3>3, MoveTyped
  <2>2. QED
    BY <1>3, <1>20, <2>1, MutateValidateDoes
<1>21. ASSUME NEW p \in Procs, NEW f \in Folders, NEW req \in Storages, SetRead(p, f, req)
       PROVE  RegTypeInv'
  <2>1. PICK d \in Call : SetReads(p, f, req, d)
    BY <1>21, SetReadDoes
  <2>2. UNCHANGED <<folders, registry, repos, used, user, lost, moved>>
        /\ begun' \in 0..MaxCalls /\ calls' = [calls EXCEPT ![p] = d]
    BY <2>1 DEF SetReads, disk, Becomes
  <2>3. Shape(d)'
    BY <2>1, <2>2 DEF SetReads, Shape, Starting, Separating, FreshId,
         InitSteps, LockedSteps, InitOps, LoadOps, ForceNew
  <2>4. QED
    BY <1>t, <2>2, <2>3, CallTyped DEF TypeOK
<1>22. ASSUME NEW p \in Procs, SetClaim(p) PROVE RegTypeInv'
  <2>1. ASSUME NEW d \in Call, SetClaims(p, d) PROVE RegTypeInv'
    <3>1. UNCHANGED <<disk, world>> /\ Becomes(p, d) /\ used' = used /\ folders' = folders
      BY <2>1 DEF SetClaims, disk, world
    <3>2. Shape(calls[p]) /\ d.seen # None
      BY <1>t, <2>1, CallRead DEF SetClaims, TypeOK
    <3>3. Shape(d)'
      BY <2>1, <3>1, <3>2 DEF SetClaims, SameJob, Shape, Starting, Separating, FreshId,
         InitSteps, LockedSteps, InitOps, LoadOps, ForceNew
    <3>4. QED
      BY <3>1, <3>3, MoveTyped
  <2>2. QED
    BY <1>3, <1>22, <2>1, SetClaimDoes
<1>23. ASSUME NEW p \in Procs, SetWrite(p) PROVE RegTypeInv'
  <2>1. /\ UNCHANGED <<folders, repos, used, begun, user, lost, moved>>
        /\ calls' = [calls EXCEPT ![p] = None] /\ registry' \in Registry
    BY <1>23, SetWriteDoes DEF world, Becomes
  <2>2. QED
    BY <1>t, <2>1, CallTyped DEF TypeOK
<1>24. QED
  BY <1>1, <1>2, <1>3, <1>4, <1>5, <1>6, <1>7, <1>9, <1>10, <1>11, <1>12, <1>13, <1>14,
     <1>15, <1>16, <1>17, <1>18, <1>19, <1>20, <1>21, <1>22, <1>23, StepKinds

(* In every reachable state the folders, the registry and the calls have   *)
(* the types that ProjectRegistry declares; a pending file names two ids.  *)
THEOREM RegistryTypeCorrect == Spec => []TypeOK
<1>1. RegTypeInv => TypeOK
  BY DEF RegTypeInv
<1>2. QED
  BY <1>1, RegTypeInit, RegTypeStep, PTL DEF Spec

-----------------------------------------------------------------------------
(* Locks. *)

(* At the start no lock is held. *)
LEMMA LockInit == Init => LockInv
BY DEF Init, LockInv, LocksExclude, Running

(* What a call has to show of its next record, when all it has changed is  *)
(* what its own locks protect, or what they need not.                      *)
LEMMA LockMove ==
    ASSUME RegTypeInv, LockInv, NEW p \in Procs, NEW d, Becomes(p, d),
           d # None => /\ LocksHeld(d) /\ SeenIsCurrent(d)' /\ RepositoryThere(d)'
                       /\ MarkerAsRead(d)'
                       /\ \A q \in Running \ {p} : Apart(d, calls[q]),
           repos \subseteq repos',
           registry' = registry \/ (calls[p] # None /\ calls[p].regLock),
           \A f \in Folders : folders[f] # Missing => folders'[f] # Missing,
           \/ calls[p] # None /\ calls[p].regLock
           \/ \A f \in Folders : folders[f] # Missing => folders'[f].marker = folders[f].marker
    PROVE  LockInv'
<1>1. calls \in [Procs -> Call \cup {None}]
  BY DEF RegTypeInv, TypeOK
<1>2. /\ calls'[p] = d /\ \A q \in Procs \ {p} : calls'[q] = calls[q]
      /\ \A q \in Running' : q = p \/ q \in Running
      /\ \A q \in Running' : q = p => d # None
  BY <1>1 DEF Becomes, Running
<1>3. \A q, r \in Running : q # r => Apart(calls[q], calls[r])
  BY DEF LockInv, LocksExclude
<1>4. LocksExclude'
  <2>1. ASSUME NEW q \in Running', NEW r \in Running', q # r PROVE Apart(calls[q], calls[r])'
    <3>1. q \in Procs /\ r \in Procs
      BY DEF Running
    <3>2. CASE q # p /\ r # p
      BY <1>2, <1>3, <2>1, <3>1, <3>2 DEF Apart
    <3>3. CASE q = p
      BY <1>2, <2>1, <3>1, <3>3 DEF Apart
    <3>4. CASE r = p
      BY <1>2, <2>1, <3>1, <3>4 DEF Apart
    <3>5. QED
      BY <3>2, <3>3, <3>4
  <2>2. QED
    BY <2>1 DEF LocksExclude
<1>5. ASSUME NEW q \in Running', q # p
      PROVE  /\ LocksHeld(calls[q])' /\ SeenIsCurrent(calls[q])'
             /\ RepositoryThere(calls[q])' /\ MarkerAsRead(calls[q])'
  <2>1. /\ q \in Running /\ calls'[q] = calls[q] /\ calls[q] \in Call
        /\ LocksHeld(calls[q]) /\ SeenIsCurrent(calls[q])
        /\ RepositoryThere(calls[q]) /\ MarkerAsRead(calls[q])
    BY <1>1, <1>2, <1>5 DEF LockInv, Running
  <2>2. calls[q].folder \in Folders
    BY <2>1 DEF Call
  <2>3. LocksHeld(calls[q])' /\ RepositoryThere(calls[q])'
    BY <2>1 DEF LocksHeld, Starting, RepositoryThere
  <2>4. CASE calls[p] # None /\ calls[p].regLock
    <3>1. ~calls[q].regLock
      BY <1>3, <1>5, <2>1, <2>4 DEF Apart, Running
    <3>2. SeenIsCurrent(calls[q])'
      BY <2>1, <3>1 DEF SeenIsCurrent
    <3>3. calls[q].step \notin LockedSteps
      BY <2>1, <3>1 DEF LocksHeld
    <3>4. MarkerAsRead(calls[q])'
      BY <2>1, <3>3 DEF MarkerAsRead, LockedSteps
    <3>5. QED
      BY <2>3, <3>2, <3>4
  <2>5. CASE ~(calls[p] # None /\ calls[p].regLock)
    <3>1. /\ registry' = registry
          /\ \A f \in Folders : folders[f] # Missing =>
               folders'[f] # Missing /\ folders'[f].marker = folders[f].marker
      BY <2>5
    <3>2. SeenIsCurrent(calls[q])'
      BY <2>1, <3>1 DEF SeenIsCurrent
    <3>3. MarkerAsRead(calls[q])'
      BY <2>1, <2>2, <3>1 DEF MarkerAsRead, MarkerUnchanged, Starting
    <3>4. QED
      BY <2>3, <3>2, <3>3
  <2>6. QED
    BY <2>4, <2>5
<1>6. ASSUME p \in Running'
      PROVE  /\ LocksHeld(calls[p])' /\ SeenIsCurrent(calls[p])'
             /\ RepositoryThere(calls[p])' /\ MarkerAsRead(calls[p])'
  <2>1. calls'[p] = d /\ d # None
    BY <1>2, <1>6
  <2>2. LocksHeld(d) /\ SeenIsCurrent(d)' /\ RepositoryThere(d)' /\ MarkerAsRead(d)'
    BY <2>1
  <2>3. QED
    BY <2>1, <2>2 DEF LocksHeld, SeenIsCurrent, RepositoryThere, MarkerAsRead,
                      MarkerUnchanged, Starting
<1>7. QED
  BY <1>4, <1>5, <1>6 DEF LockInv

(* A call that takes no new lock stays apart from the others. *)
LEMMA StaysApart ==
    ASSUME RegTypeInv, LockInv, NEW p \in Procs, calls[p] # None, NEW d,
           d.claims \subseteq calls[p].claims, d.share = calls[p].share,
           d.regLock => calls[p].regLock, d.repoLocks = calls[p].repoLocks
    PROVE  \A q \in Running \ {p} : Apart(d, calls[q])
BY DEF LockInv, LocksExclude, Apart, Running

(* A call that begins holds none. *)
LEMMA BeginsApart ==
    ASSUME RegTypeInv, NEW p \in Procs, NEW d, NoLocks(d)
    PROVE  \A q \in Running \ {p} : Apart(d, calls[q])
BY RegistryAssumption DEF NoLocks, Apart, Running, RegTypeInv, TypeOK, Call

(* The locks stay apart, and what they protect stays as it was read. *)
LEMMA LockStep == RegTypeInv /\ RegTypeInv' /\ LockInv /\ [Next]_vars => LockInv'
<1> SUFFICES ASSUME RegTypeInv, RegTypeInv', LockInv, [Next]_vars PROVE LockInv'
  OBVIOUS
<1> USE RegistryAssumption
<1>c. ASSUME NEW p \in Procs, calls[p] # None
      PROVE  /\ LocksHeld(calls[p]) /\ SeenIsCurrent(calls[p]) /\ Shape(calls[p])
             /\ RepositoryThere(calls[p]) /\ MarkerAsRead(calls[p])
  BY <1>c, CallRead DEF LockInv
<1>n. None \notin Call
  BY NoneAssumption
<1>1. CASE UNCHANGED vars
  BY <1>1 DEF vars, disk, world, LockInv, LocksExclude, Running, Apart, LocksHeld,
     SeenIsCurrent, RepositoryThere, MarkerAsRead, MarkerUnchanged, Starting
<1>2. CASE Users
  <2>1. /\ \A p \in Running : ~Held(calls[p])
        /\ UNCHANGED <<registry, calls>>
    BY <1>2, UsersDo
  <2>2. LocksExclude'
    BY <2>1 DEF LockInv, LocksExclude, Running, Apart
  <2>3. ASSUME NEW p \in Running'
        PROVE  /\ LocksHeld(calls[p])' /\ SeenIsCurrent(calls[p])'
               /\ RepositoryThere(calls[p])' /\ MarkerAsRead(calls[p])'
    <3>1. p \in Procs /\ calls[p] # None /\ calls'[p] = calls[p] /\ ~Held(calls[p])
      BY <2>1 DEF Running
    <3>2. calls[p].step \notin LockedSteps \cup {"refreshClaimed", "write", "locked", "working"}
      <4>1. calls[p].step \in {"locked", "working"} => calls[p].id \in Ids
        BY <1>c, <3>1 DEF Shape, RegTypeInv, TypeOK
      <4>2. QED
        BY <1>c, <3>1, <4>1 DEF Held, LocksHeld
    <3>3. /\ calls'[p].step \notin LockedSteps \cup {"refreshClaimed", "write", "locked", "working"}
      BY <3>1, <3>2
    <3>4. QED
      BY <3>3 DEF LocksHeld, SeenIsCurrent, RepositoryThere, MarkerAsRead, Starting, InitSteps,
                  LockedSteps
  <2>4. QED
    BY <2>2, <2>3 DEF LockInv
<1>3. ASSUME NEW p \in Procs, Ended(p) PROVE LockInv'
  <2>1. Becomes(p, None) /\ UNCHANGED <<folders, registry, repos>>
    BY <1>3 DEF Ended, End, Becomes, disk
  <2>2. QED
    BY <2>1, LockMove
<1>4. ASSUME NEW p \in Procs, NEW op \in InitOps, NEW f \in Folders,
             NEW req \in Requests \cup {None}, InitRead(p, op, f, req)
      PROVE  LockInv'
  <2>1. PICK d \in Call : InitReads(p, op, f, d)
    BY <1>4, InitReadDoes
  <2>2. Becomes(p, d) /\ UNCHANGED <<folders, registry, repos>> /\ NoLocks(d)
    BY <2>1 DEF InitReads, disk
  <2>3. LocksHeld(d) /\ SeenIsCurrent(d)' /\ RepositoryThere(d)' /\ MarkerAsRead(d)'
    BY <2>1 DEF InitReads, LocksHeld, SeenIsCurrent, RepositoryThere, MarkerAsRead,
         MarkerUnchanged, Starting, InitSteps, LockedSteps, InitOps, LoadOps, ForceNew
  <2>4. \A q \in Running \ {p} : Apart(d, calls[q])
    BY <2>2, BeginsApart
  <2>5. QED
    BY <2>2, <2>3, <2>4, LockMove
<1>5. ASSUME NEW p \in Procs, InitClaim(p) PROVE LockInv'
  <2>1. ASSUME NEW d \in Call, InitClaims(p, d) PROVE LockInv'
    <3>1. Becomes(p, d) /\ UNCHANGED <<folders, registry, repos>> /\ calls[p] # None
      BY <1>n, <2>1 DEF InitClaims, disk
    <3>2. LocksHeld(calls[p]) /\ SeenIsCurrent(calls[p]) /\ Shape(calls[p])
          /\ RepositoryThere(calls[p]) /\ MarkerAsRead(calls[p])
      BY <1>c, <3>1
    <3>3. LocksHeld(d) /\ SeenIsCurrent(d)' /\ RepositoryThere(d)' /\ MarkerAsRead(d)'
      BY <2>1, <3>1, <3>2 DEF InitClaims, SameJob, SameTarget, SameLocks, FoundIn,
         InitAllowed, LocksHeld, SeenIsCurrent, RepositoryThere, MarkerAsRead,
         MarkerUnchanged, Starting, InitSteps, LockedSteps, InitOps, LoadOps, ForceNew
    <3>4. \A q \in Running \ {p} : Apart(d, calls[q])
      BY <2>1, <3>1 DEF InitClaims, Apart, ClaimFree, RegistryFree, ShareFree, ReposFree,
         LockInv, LocksExclude, Running
    <3>5. QED
      BY <3>1, <3>3, <3>4, LockMove
  <2>2. QED
    BY <1>3, <1>5, <2>1, InitClaimDoes
<1>6. ASSUME NEW p \in Procs, InitReserve(p) PROVE LockInv'
  <2>0. PICK d \in Call : InitReserves(p, d)
    BY <1>6, InitReserveDoes
  <2>1. Becomes(p, d) /\ calls[p] # None
    BY <1>n, <2>0 DEF InitReserves
  <2>2. LocksHeld(calls[p]) /\ SeenIsCurrent(calls[p]) /\ Shape(calls[p])
        /\ RepositoryThere(calls[p]) /\ MarkerAsRead(calls[p])
    BY <1>c, <2>1
  <2>3. LocksHeld(d) /\ SeenIsCurrent(d)' /\ RepositoryThere(d)' /\ MarkerAsRead(d)'
    BY <2>0, <2>1, <2>2 DEF InitReserves, SameJob, SameTarget, SameLocks, FoundIn,
       FolderWritten, FreshId, Shape, LocksHeld, SeenIsCurrent, RepositoryThere, MarkerAsRead,
       MarkerUnchanged, Starting, InitSteps, LockedSteps, InitOps, LoadOps, ForceNew
  <2>4. \A q \in Running \ {p} : Apart(d, calls[q])
    BY <2>0, <2>1, StaysApart DEF InitReserves, SameLocks
  <2>5. calls[p].regLock /\ repos \subseteq repos'
        /\ \A f \in Folders : folders[f] # Missing => folders'[f] # Missing
    BY <2>0, <2>1, <2>2 DEF InitReserves, FolderWritten, LocksHeld, LockedSteps
  <2>6. QED
    BY <2>1, <2>3, <2>4, <2>5, LockMove
<1>7. ASSUME NEW p \in Procs, InitLayout(p) PROVE LockInv'
  <2>1. /\ calls[p] # None /\ calls[p].step = "reserved" /\ Step(p, "laidOut") /\ "laidOut" \in Steps
        /\ repos' = repos \cup {<<calls[p].storage, calls[p].id>>}
        /\ folders' = folders /\ registry' = registry
    BY <1>7 DEF InitLayout, Steps
  <2>2. PICK d \in Call : Advances(p, "laidOut", d)
    BY <2>1, StepDoes
  <2>3. LocksHeld(calls[p]) /\ SeenIsCurrent(calls[p]) /\ Shape(calls[p]) /\ MarkerAsRead(calls[p])
    BY <1>c, <2>1
  <2>4. LocksHeld(d) /\ SeenIsCurrent(d)' /\ RepositoryThere(d)' /\ MarkerAsRead(d)'
    BY <2>1, <2>2, <2>3 DEF Advances, SameJob, SameTarget, SameLocks, Shape, LocksHeld,
       SeenIsCurrent, RepositoryThere, MarkerAsRead, MarkerUnchanged, Starting, InitSteps,
       LockedSteps, InitOps, LoadOps, ForceNew
  <2>5. \A q \in Running \ {p} : Apart(d, calls[q])
    BY <2>1, <2>2, StaysApart DEF Advances, SameLocks
  <2>6. QED
    BY <2>1, <2>2, <2>4, <2>5, LockMove DEF Advances
<1>8. ASSUME NEW p \in Procs, NEW from, NEW phase \in {"repositoryInitialized", "registered"},
             NEW s \in Steps, WritePhase(p, from, phase, s), UNCHANGED <<registry, repos>>,
             calls[p] # None,
             \/ calls[p].step = "laidOut" /\ s = "phased"
             \/ calls[p].step = "registered" /\ s = "committed"
      PROVE  LockInv'
  <2>1. PICK d \in Call : WritesPhase(p, from, phase, s, d)
    <3>1. calls[p].step \in LockedSteps \ {"checked"}
      BY <1>8 DEF LockedSteps
    <3>2. QED
      BY <1>8, <3>1, WritePhaseDoes
  <2>2. LocksHeld(calls[p]) /\ SeenIsCurrent(calls[p]) /\ Shape(calls[p])
        /\ RepositoryThere(calls[p]) /\ MarkerAsRead(calls[p])
    BY <1>c, <1>8
  <2>3. /\ folders'[d.folder] # Missing /\ folders'[d.folder].marker = folders[d.folder].marker
        /\ \A f \in Folders : folders[f] # Missing => folders'[f] # Missing
    BY <1>8, <2>1, <2>2 DEF WritesPhase, SameJob, FolderWritten, Shape, Starting, InitSteps,
       LockedSteps
  <2>4. LocksHeld(d) /\ SeenIsCurrent(d)' /\ RepositoryThere(d)' /\ MarkerAsRead(d)'
    BY <1>8, <2>1, <2>2, <2>3 DEF WritesPhase, SameJob, SameLocks, LocksHeld, SeenIsCurrent,
       RepositoryThere, MarkerAsRead, MarkerUnchanged, Starting, InitSteps, LockedSteps,
       InitOps, LoadOps, ForceNew
  <2>5. \A q \in Running \ {p} : Apart(d, calls[q])
    BY <1>8, <2>1, StaysApart DEF WritesPhase, SameLocks
  <2>6. calls[p].regLock
    BY <1>8, <2>2 DEF LocksHeld, LockedSteps
  <2>7. QED
    BY <1>8, <2>1, <2>3, <2>4, <2>5, <2>6, LockMove DEF WritesPhase
<1>9. ASSUME NEW p \in Procs, InitPhase(p) PROVE LockInv'
  <2>1. "phased" \in Steps
    BY DEF Steps
  <2>2. QED
    BY <1>8, <1>9, <2>1 DEF InitPhase
<1>10. ASSUME NEW p \in Procs, InitRegister(p) PROVE LockInv'
  <2>0. PICK d \in Call : InitRegisters(p, d)
    BY <1>10, InitRegisterDoes
  <2>1. Becomes(p, d) /\ calls[p] # None
    BY <1>n, <2>0 DEF InitRegisters
  <2>2. LocksHeld(calls[p]) /\ SeenIsCurrent(calls[p]) /\ Shape(calls[p])
        /\ RepositoryThere(calls[p]) /\ MarkerAsRead(calls[p])
    BY <1>c, <2>1
  <2>3. LocksHeld(d) /\ SeenIsCurrent(d)' /\ RepositoryThere(d)' /\ MarkerAsRead(d)'
    BY <2>0, <2>1, <2>2 DEF InitRegisters, SameJob, SameTarget, SameLocks, FoundIn, LocksHeld,
       SeenIsCurrent, RepositoryThere, MarkerAsRead, MarkerUnchanged, Starting, InitSteps,
       LockedSteps, InitOps, LoadOps, ForceNew
  <2>4. \A q \in Running \ {p} : Apart(d, calls[q])
    BY <2>0, <2>1, StaysApart DEF InitRegisters, SameLocks
  <2>5. calls[p].regLock /\ repos \subseteq repos'
        /\ \A f \in Folders : folders[f] # Missing => folders'[f] # Missing
    BY <2>0, <2>1, <2>2 DEF InitRegisters, FolderWritten, LocksHeld, LockedSteps
  <2>6. QED
    BY <2>1, <2>3, <2>4, <2>5, LockMove
<1>11. ASSUME NEW p \in Procs, InitRegistered(p) PROVE LockInv'
  <2>1. "committed" \in Steps
    BY DEF Steps
  <2>2. QED
    BY <1>8, <1>11, <2>1 DEF InitRegistered
<1>12. ASSUME NEW p \in Procs, InitCommit(p) PROVE LockInv'
  <2>0. PICK d \in Call : InitCommits(p, d)
    BY <1>12, InitCommitDoes
  <2>1. Becomes(p, d) /\ calls[p] # None
    BY <1>n, <2>0 DEF InitCommits
  <2>2. LocksHeld(calls[p]) /\ SeenIsCurrent(calls[p]) /\ Shape(calls[p])
        /\ RepositoryThere(calls[p]) /\ MarkerAsRead(calls[p])
    BY <1>c, <2>1
  <2>3. LocksHeld(d) /\ SeenIsCurrent(d)' /\ RepositoryThere(d)' /\ MarkerAsRead(d)'
    BY <2>0, <2>1, <2>2 DEF InitCommits, SameJob, SameTarget, SameLocks, FoundIn,
       FolderWritten, Shape, LocksHeld, SeenIsCurrent, RepositoryThere, MarkerAsRead,
       MarkerUnchanged, Starting, InitSteps, LockedSteps, InitOps, LoadOps, ForceNew
  <2>4. \A q \in Running \ {p} : Apart(d, calls[q])
    BY <2>0, <2>1, StaysApart DEF InitCommits, SameLocks
  <2>5. calls[p].regLock /\ repos \subseteq repos'
        /\ \A f \in Folders : folders[f] # Missing => folders'[f] # Missing
    BY <2>0, <2>1, <2>2 DEF InitCommits, FolderWritten, LocksHeld, LockedSteps
  <2>6. QED
    BY <2>1, <2>3, <2>4, <2>5, LockMove
<1>13. ASSUME NEW p \in Procs, InitFinalize(p) PROVE LockInv'
  <2>1. /\ Becomes(p, None) /\ UNCHANGED <<registry, repos>>
        /\ \/ folders' = folders
           \/ /\ calls[p].folder \in Folders /\ folders[calls[p].folder] # Missing
              /\ FolderWritten(calls[p].folder, folders[calls[p].folder].marker, None)
    BY <1>13, InitFinalizeDoes DEF BindingIsCurrent, Call
  <2>2. \A f \in Folders : folders[f] # Missing =>
          folders'[f] # Missing /\ folders'[f].marker = folders[f].marker
    BY <2>1 DEF FolderWritten
  <2>3. QED
    BY <2>1, <2>2, LockMove
<1>14. ASSUME NEW p \in Procs, NEW op \in LoadOps, NEW f \in Folders,
              LoadRead(p, op, f)
      PROVE  LockInv'
  <2>1. PICK d \in Call : LoadReads(p, op, f, d)
    BY <1>14, LoadReadDoes
  <2>2. Becomes(p, d) /\ UNCHANGED <<folders, registry, repos>> /\ NoLocks(d)
    BY <2>1 DEF LoadReads, disk
  <2>3. LocksHeld(d) /\ SeenIsCurrent(d)' /\ RepositoryThere(d)' /\ MarkerAsRead(d)'
    BY <2>1 DEF LoadReads, LocksHeld, SeenIsCurrent, RepositoryThere, MarkerAsRead,
         MarkerUnchanged, Starting, InitSteps, LockedSteps, InitOps, LoadOps, ForceNew
  <2>4. \A q \in Running \ {p} : Apart(d, calls[q])
    BY <2>2, BeginsApart
  <2>5. QED
    BY <2>2, <2>3, <2>4, LockMove
<1>15. ASSUME NEW p \in Procs, FinishLoad(p) PROVE LockInv'
  <2>1. ASSUME NEW d \in Call, LoadFinishes(p, d) PROVE LockInv'
    <3>1. Becomes(p, d) /\ UNCHANGED <<folders, registry, repos>> /\ calls[p] # None
      BY <1>n, <2>1 DEF LoadFinishes, disk
    <3>2. LocksHeld(calls[p]) /\ SeenIsCurrent(calls[p]) /\ Shape(calls[p])
          /\ RepositoryThere(calls[p]) /\ MarkerAsRead(calls[p])
      BY <1>c, <3>1
    <3>3. LocksHeld(d) /\ SeenIsCurrent(d)' /\ RepositoryThere(d)' /\ MarkerAsRead(d)'
      BY <2>1, <3>1, <3>2 DEF LoadFinishes, SameJob, SameTarget, SameLocks, FoundIn,
         LocksHeld, SeenIsCurrent, RepositoryThere, MarkerAsRead, MarkerUnchanged, Starting,
         InitSteps, LockedSteps, InitOps, LoadOps, ForceNew
    <3>4. \A q \in Running \ {p} : Apart(d, calls[q])
      BY <2>1, <3>1, StaysApart DEF LoadFinishes, SameLocks
    <3>5. QED
      BY <3>1, <3>3, <3>4, LockMove
  <2>2. QED
    BY <1>3, <1>15, <2>1, FinishLoadDoes
<1>16. ASSUME NEW p \in Procs, RefreshClaim(p) PROVE LockInv'
  <2>1. ASSUME NEW d \in Call, RefreshClaims(p, d) PROVE LockInv'
    <3>1. Becomes(p, d) /\ UNCHANGED <<folders, registry, repos>> /\ calls[p] # None
      BY <1>n, <2>1 DEF RefreshClaims, disk
    <3>2. LocksHeld(calls[p]) /\ SeenIsCurrent(calls[p]) /\ Shape(calls[p])
          /\ RepositoryThere(calls[p]) /\ MarkerAsRead(calls[p])
      BY <1>c, <3>1
    <3>3. LocksHeld(d) /\ SeenIsCurrent(d)' /\ RepositoryThere(d)' /\ MarkerAsRead(d)'
      BY <2>1, <3>1, <3>2 DEF RefreshClaims, SameJob, SameTarget, SameLocks, FoundIn,
         LocksHeld, SeenIsCurrent, RepositoryThere, MarkerAsRead, MarkerUnchanged, Starting,
         InitSteps, LockedSteps, InitOps, LoadOps, ForceNew
    <3>4. \A q \in Running \ {p} : Apart(d, calls[q])
      BY <2>1, <3>1 DEF RefreshClaims, Apart, ClaimFree, RegistryFree, ShareFree, ReposFree,
         LockInv, LocksExclude, Running
    <3>5. QED
      BY <3>1, <3>3, <3>4, LockMove
  <2>2. QED
    BY <1>3, <1>16, <2>1, RefreshClaimDoes
<1>17. ASSUME NEW p \in Procs, RefreshRead(p) PROVE LockInv'
  <2>1. ASSUME NEW d \in Call, RefreshReads(p, d) PROVE LockInv'
    <3>1. Becomes(p, d) /\ UNCHANGED <<folders, registry, repos>> /\ calls[p] # None
      BY <1>n, <2>1 DEF RefreshReads, disk
    <3>2. LocksHeld(calls[p]) /\ SeenIsCurrent(calls[p]) /\ Shape(calls[p])
          /\ RepositoryThere(calls[p]) /\ MarkerAsRead(calls[p])
      BY <1>c, <3>1
    <3>3. LocksHeld(d) /\ SeenIsCurrent(d)' /\ RepositoryThere(d)' /\ MarkerAsRead(d)'
      BY <2>1, <3>1, <3>2 DEF RefreshReads, SameJob, SameTarget, SameLocks, FoundIn,
         LocksHeld, SeenIsCurrent, RepositoryThere, MarkerAsRead, MarkerUnchanged, Starting,
         InitSteps, LockedSteps, InitOps, LoadOps, ForceNew
    <3>4. \A q \in Running \ {p} : Apart(d, calls[q])
      BY <2>1, <3>1 DEF RefreshReads, Apart, ClaimFree, RegistryFree, ShareFree, ReposFree,
         LockInv, LocksExclude, Running
    <3>5. QED
      BY <3>1, <3>3, <3>4, LockMove
  <2>2. QED
    BY <1>3, <1>17, <2>1, RefreshReadDoes
<1>18. ASSUME NEW p \in Procs, RefreshWrite(p) PROVE LockInv'
  <2>1. PICK d : RefreshWrites(p, d)
    BY <1>18, RefreshWriteDoes
  <2>2. Becomes(p, d) /\ UNCHANGED <<folders, repos>> /\ calls[p] # None /\ calls[p].regLock
    BY <1>n, <1>c, <2>1 DEF RefreshWrites, SeenIsCurrent
  <2>3. d # None => LocksHeld(d) /\ SeenIsCurrent(d)' /\ RepositoryThere(d)' /\ MarkerAsRead(d)'
    BY <2>1 DEF RefreshWrites, LocksHeld, SeenIsCurrent, RepositoryThere, MarkerAsRead,
         MarkerUnchanged, Starting, InitSteps, LockedSteps, InitOps, LoadOps, ForceNew
  <2>4. d # None => \A q \in Running \ {p} : Apart(d, calls[q])
    BY <2>1, <2>2, StaysApart DEF RefreshWrites
  <2>5. QED
    BY <2>2, <2>3, <2>4, LockMove
<1>19. ASSUME NEW p \in Procs, MutateLock(p) PROVE LockInv'
  <2>1. ASSUME NEW d \in Call, MutateLocks(p, d) PROVE LockInv'
    <3>1. Becomes(p, d) /\ UNCHANGED <<folders, registry, repos>> /\ calls[p] # None
      BY <1>n, <2>1 DEF MutateLocks, disk
    <3>2. LocksHeld(calls[p]) /\ SeenIsCurrent(calls[p]) /\ Shape(calls[p])
          /\ RepositoryThere(calls[p]) /\ MarkerAsRead(calls[p])
      BY <1>c, <3>1
    <3>3. LocksHeld(d) /\ SeenIsCurrent(d)' /\ RepositoryThere(d)' /\ MarkerAsRead(d)'
      BY <2>1, <3>1, <3>2 DEF MutateLocks, SameJob, SameTarget, SameLocks, FoundIn, LocksHeld,
         SeenIsCurrent, RepositoryThere, MarkerAsRead, MarkerUnchanged, Starting, InitSteps,
         LockedSteps, InitOps, LoadOps, ForceNew
    <3>4. \A q \in Running \ {p} : Apart(d, calls[q])
      BY <2>1, <3>1 DEF MutateLocks, Apart, ClaimFree, RegistryFree, ShareFree, ReposFree,
         LockInv, LocksExclude, Running
    <3>5. QED
      BY <3>1, <3>3, <3>4, LockMove
  <2>2. QED
    BY <1>3, <1>19, <2>1, MutateLockDoes
<1>20. ASSUME NEW p \in Procs, MutateValidate(p) PROVE LockInv'
  <2>1. ASSUME NEW d \in Call, MutateValidates(p, d) PROVE LockInv'
    <3>1. Becomes(p, d) /\ UNCHANGED <<folders, registry, repos>> /\ calls[p] # None
      BY <1>n, <2>1 DEF MutateValidates, disk
    <3>2. LocksHeld(calls[p]) /\ SeenIsCurrent(calls[p]) /\ Shape(calls[p])
          /\ RepositoryThere(calls[p]) /\ MarkerAsRead(calls[p])
      BY <1>c, <3>1
    <3>3. LocksHeld(d) /\ SeenIsCurrent(d)' /\ RepositoryThere(d)' /\ MarkerAsRead(d)'
      BY <2>1, <3>1, <3>2 DEF MutateValidates, SameJob, SameTarget, SameLocks, FoundIn,
         BindingIsCurrent, LocksHeld, SeenIsCurrent, RepositoryThere, MarkerAsRead,
         MarkerUnchanged, Starting, InitSteps, LockedSteps, InitOps, LoadOps, ForceNew
    <3>4. \A q \in Running \ {p} : Apart(d, calls[q])
      BY <2>1, <3>1, StaysApart DEF MutateValidates, SameLocks
    <3>5. QED
      BY <3>1, <3>3, <3>4, LockMove
  <2>2. QED
    BY <1>3, <1>20, <2>1, MutateValidateDoes
<1>21. ASSUME NEW p \in Procs, NEW f \in Folders, NEW req \in Storages,
              SetRead(p, f, req)
      PROVE  LockInv'
  <2>1. PICK d \in Call : SetReads(p, f, req, d)
    BY <1>21, SetReadDoes
  <2>2. Becomes(p, d) /\ UNCHANGED <<folders, registry, repos>> /\ NoLocks(d)
    BY <2>1 DEF SetReads, disk
  <2>3. LocksHeld(d) /\ SeenIsCurrent(d)' /\ RepositoryThere(d)' /\ MarkerAsRead(d)'
    BY <2>1 DEF SetReads, LocksHeld, SeenIsCurrent, RepositoryThere, MarkerAsRead,
         MarkerUnchanged, Starting, InitSteps, LockedSteps, InitOps, LoadOps, ForceNew
  <2>4. \A q \in Running \ {p} : Apart(d, calls[q])
    BY <2>2, BeginsApart
  <2>5. QED
    BY <2>2, <2>3, <2>4, LockMove
<1>22. ASSUME NEW p \in Procs, SetClaim(p) PROVE LockInv'
  <2>1. ASSUME NEW d \in Call, SetClaims(p, d) PROVE LockInv'
    <3>1. Becomes(p, d) /\ UNCHANGED <<folders, registry, repos>> /\ calls[p] # None
      BY <1>n, <2>1 DEF SetClaims, disk
    <3>2. LocksHeld(calls[p]) /\ SeenIsCurrent(calls[p]) /\ Shape(calls[p])
          /\ RepositoryThere(calls[p]) /\ MarkerAsRead(calls[p])
      BY <1>c, <3>1
    <3>3. LocksHeld(d) /\ SeenIsCurrent(d)' /\ RepositoryThere(d)' /\ MarkerAsRead(d)'
      BY <2>1, <3>1, <3>2 DEF SetClaims, SameJob, SameTarget, SameLocks, FoundIn, LocksHeld,
         SeenIsCurrent, RepositoryThere, MarkerAsRead, MarkerUnchanged, Starting, InitSteps,
         LockedSteps, InitOps, LoadOps, ForceNew
    <3>4. \A q \in Running \ {p} : Apart(d, calls[q])
      BY <2>1, <3>1 DEF SetClaims, Apart, ClaimFree, RegistryFree, ShareFree, ReposFree,
         LockInv, LocksExclude, Running
    <3>5. QED
      BY <3>1, <3>3, <3>4, LockMove
  <2>2. QED
    BY <1>3, <1>22, <2>1, SetClaimDoes
<1>23. ASSUME NEW p \in Procs, SetWrite(p) PROVE LockInv'
  <2>1. /\ Becomes(p, None) /\ UNCHANGED <<folders, repos>> /\ calls[p] # None
        /\ calls[p].step = "checked"
    BY <1>n, <1>23, SetWriteDoes
  <2>2. calls[p].regLock
    BY <1>c, <2>1 DEF SeenIsCurrent
  <2>3. QED
    BY <2>1, <2>2, LockMove
<1>24. QED
  BY <1>1, <1>2, <1>3, <1>4, <1>5, <1>6, <1>7, <1>9, <1>10, <1>11, <1>12, <1>13, <1>14,
     <1>15, <1>16, <1>17, <1>18, <1>19, <1>20, <1>21, <1>22, <1>23, StepKinds
=============================================================================
