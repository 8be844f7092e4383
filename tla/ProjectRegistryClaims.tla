------------------------ MODULE ProjectRegistryClaims ------------------------
(***************************************************************************)
(* Proofs about the claims of folders on projects: who may change a        *)
(* project, who may take it over, and how an initialisation as a separate  *)
(* project is carried out and resumed.                                     *)
(***************************************************************************)
EXTENDS ProjectRegistryProofs

(* A record of the registry, or a marker, that a call changes is one whose *)
(* location lock it holds alone.                                           *)
WritesUnderClaim(p) ==
    /\ \A i \in Ids : registry'[i] # registry[i] => calls[p] # None /\ i \in calls[p].claims
    /\ \A f \in Folders : folders'[f] # Missing =>
         /\ folders[f] # Missing
         /\ \/ folders'[f].marker = folders[f].marker
            \/ calls[p] # None /\ folders'[f].marker \in calls[p].claims

(* What a call is about to claim, and what it works on, are not touched by *)
(* a step of another call.                                                 *)
LEMMA ClaimMove ==
    ASSUME MarkerRaces = FALSE, RegTypeInv, LockInv, ClaimInv, NEW p \in Procs, NEW d,
           Becomes(p, d), WritesUnderClaim(p),
           d # None => TakesFromNoOne(d)',
           d # None /\ d.step = "working" =>
               registry'[d.id] = [root |-> d.folder, storage |-> d.storage]
    PROVE  ClaimInv'
<1>1. calls \in [Procs -> Call \cup {None}] /\ registry \in Registry
  BY DEF RegTypeInv, TypeOK
<1>2. /\ calls'[p] = d /\ \A q \in Procs \ {p} : calls'[q] = calls[q]
      /\ \A q \in Running' : q = p \/ q \in Running
      /\ \A q \in Running' : q = p => d # None
  BY <1>1 DEF Becomes, Running
<1>3. ASSUME NEW q \in Running', q # p,
             \/ calls[q].step \in {"checked", "reserved", "laidOut", "phased", "working"}
             \/ calls[q].step \in {"refreshClaimed", "write"}
      PROVE  /\ q \in Running /\ calls'[q] = calls[q] /\ calls[q].id \in Ids
             /\ registry'[calls[q].id] = registry[calls[q].id]
             /\ calls[p] # None => calls[q].id \notin calls[p].claims
  <2>1. q \in Running /\ q \in Procs /\ calls'[q] = calls[q] /\ calls[q] # None
    BY <1>2, <1>3 DEF Running
  <2>2. LocksHeld(calls[q]) /\ Shape(calls[q])
    BY <2>1, CallRead DEF LockInv
  <2>3. calls[q].id \in Ids
    BY <1>3, <2>2 DEF Shape, RegTypeInv, TypeOK
  <2>4. calls[q].id \in calls[q].claims \/ calls[q].share = calls[q].id
    BY <1>3, <2>2 DEF LocksHeld, Shape, Starting, InitSteps, LockedSteps
  <2>5. calls[p] # None => Apart(calls[q], calls[p])
    BY <1>3, <2>1 DEF LockInv, LocksExclude, Running
  <2>6. calls[p] # None => calls[q].id \notin calls[p].claims
    BY <2>4, <2>5 DEF Apart
  <2>7. QED
    BY <2>1, <2>3, <2>6 DEF WritesUnderClaim
<1>4. ClaimHoldsWhileWorking'
  <2>1. ASSUME NEW q \in Running', calls'[q].step = "working"
        PROVE  registry'[calls'[q].id] =
                 [root |-> calls'[q].folder, storage |-> calls'[q].storage]
    <3>1. CASE q = p
      BY <1>2, <2>1, <3>1
    <3>2. CASE q # p
      <4>1. calls'[q] = calls[q] /\ q \in Running
        BY <1>2, <3>2 DEF Running
      <4>2. calls[q].step = "working" /\ registry'[calls[q].id] = registry[calls[q].id]
        BY <1>3, <2>1, <3>2, <4>1
      <4>3. QED
        BY <4>1, <4>2 DEF ClaimInv, ClaimHoldsWhileWorking
    <3>3. QED
      BY <3>1, <3>2
  <2>2. QED
    BY <2>1 DEF ClaimHoldsWhileWorking
<1>5. ASSUME NEW q \in Running' PROVE TakesFromNoOne(calls[q])'
  <2>1. CASE q = p
    <3>1. calls'[p] = d /\ TakesFromNoOne(d)'
      BY <1>2, <2>1
    <3>2. QED
      BY <2>1, <3>1 DEF TakesFromNoOne
  <2>2. CASE q # p
    <3>1. q \in Running /\ calls'[q] = calls[q] /\ TakesFromNoOne(calls[q])
      BY <1>2, <2>2 DEF Running, ClaimInv
    <3>2. CASE \/ calls[q].step \in {"checked", "reserved", "laidOut", "phased"}
               \/ calls[q].step \in {"refreshClaimed", "write"} /\ calls[q].op # "confirm"
      <4>1. /\ calls[q].id \in Ids /\ registry'[calls[q].id] = registry[calls[q].id]
            /\ calls[p] # None => calls[q].id \notin calls[p].claims
        BY <1>3, <2>2, <3>2
      <4>2. registry[calls[q].id] # None => registry[calls[q].id].root \in Folders
        BY <1>1, <4>1 DEF Registry, Entry
      <4>3. QED
        BY <3>1, <3>2, <4>1, <4>2 DEF TakesFromNoOne, WritesUnderClaim
    <3>3. CASE ~(\/ calls[q].step \in {"checked", "reserved", "laidOut", "phased"}
                 \/ calls[q].step \in {"refreshClaimed", "write"} /\ calls[q].op # "confirm")
      BY <3>1, <3>3 DEF TakesFromNoOne
    <3>4. QED
      BY <3>2, <3>3
  <2>3. QED
    BY <2>1, <2>2
<1>6. QED
  BY <1>4, <1>5 DEF ClaimInv

(* A step that changes no marker and no record of the registry. *)
LEMMA WritesNothing ==
    ASSUME UNCHANGED <<folders, registry>>, NEW p
    PROVE  WritesUnderClaim(p)
BY DEF WritesUnderClaim

(* One that writes a folder: its marker stays, or is one it has claimed. *)
LEMMA WritesFolder ==
    ASSUME NEW p \in Procs, NEW f \in Folders, NEW marker, NEW pending, folders[f] # Missing,
           FolderWritten(f, marker, pending), registry' = registry,
           marker = folders[f].marker \/ (calls[p] # None /\ marker \in calls[p].claims)
    PROVE  WritesUnderClaim(p)
BY DEF WritesUnderClaim, FolderWritten

(* One that writes the registry changes the record of its project only. *)
LEMMA WritesRegistry ==
    ASSUME NEW p \in Procs, calls[p] # None, calls[p].seen = registry, folders' = folders,
           \A i \in Ids \ {calls[p].id} : registry'[i] = calls[p].seen[i],
           calls[p].id \in calls[p].claims
    PROVE  WritesUnderClaim(p)
BY DEF WritesUnderClaim

(* A call keeps what it has claimed. *)
LEMMA ClaimStep ==
    ASSUME MarkerRaces = FALSE
    PROVE  RegTypeInv /\ LockInv /\ ClaimInv /\ [Next]_vars => ClaimInv'
<1> SUFFICES ASSUME RegTypeInv, LockInv, ClaimInv, [Next]_vars PROVE ClaimInv'
  OBVIOUS
<1> USE RegistryAssumption
<1>c. ASSUME NEW p \in Procs, calls[p] # None
      PROVE  /\ LocksHeld(calls[p]) /\ SeenIsCurrent(calls[p]) /\ Shape(calls[p])
             /\ MarkerAsRead(calls[p]) /\ TakesFromNoOne(calls[p])
  BY <1>c, CallRead DEF LockInv, ClaimInv
<1>n. None \notin Call
  BY NoneAssumption
<1>1. CASE UNCHANGED vars
  BY <1>1 DEF vars, disk, ClaimInv, ClaimHoldsWhileWorking, Running, TakesFromNoOne
<1>2. CASE Users
  <2>1. (\A p \in Running : ~Held(calls[p])) /\ UNCHANGED <<registry, calls>>
    BY <1>2, UsersDo
  <2>2. ASSUME NEW p \in Running'
        PROVE  p \in Running /\ calls'[p] = calls[p] /\ TakesFromNoOne(calls[p])'
    <3>1. p \in Procs /\ calls[p] # None /\ calls'[p] = calls[p] /\ ~Held(calls[p])
      BY <2>1 DEF Running
    <3>2. calls[p].step \notin {"checked", "reserved", "laidOut", "phased", "refreshClaimed", "write"}
      BY <1>c, <3>1 DEF LocksHeld, Held, LockedSteps
    <3>3. QED
      BY <3>1, <3>2 DEF TakesFromNoOne, Running
  <2>3. QED
    BY <2>1, <2>2 DEF ClaimInv, ClaimHoldsWhileWorking
<1>3. ASSUME NEW p \in Procs, Ended(p) PROVE ClaimInv'
  <2>1. Becomes(p, None) /\ UNCHANGED <<folders, registry>>
    BY <1>3 DEF Ended, End, Becomes, disk
  <2>2. QED
    BY <2>1, WritesNothing, ClaimMove
<1>4. ASSUME NEW p \in Procs, NEW op \in InitOps, NEW f \in Folders,
             NEW req \in Requests \cup {None}, InitRead(p, op, f, req)
      PROVE  ClaimInv'
  <2>1. PICK d \in Call : InitReads(p, op, f, d)
    BY <1>4, InitReadDoes
  <2>2. /\ Becomes(p, d) /\ UNCHANGED <<folders, registry>>
        /\ d.step \in {"load", "claim", "refresh", "lock"}
    BY <2>1 DEF InitReads, disk
  <2>3. TakesFromNoOne(d)' /\ d.step # "working"
    BY <2>2 DEF TakesFromNoOne
  <2>4. QED
    BY <2>2, <2>3, WritesNothing, ClaimMove
<1>5. ASSUME NEW p \in Procs, InitClaim(p) PROVE ClaimInv'
  <2>1. ASSUME NEW d \in Call, InitClaims(p, d) PROVE ClaimInv'
    <3>1. Becomes(p, d) /\ UNCHANGED <<folders, registry>> /\ calls[p] # None
      BY <1>n, <2>1 DEF InitClaims, disk
    <3>2. TakesFromNoOne(calls[p]) /\ Shape(calls[p])
      BY <1>c, <3>1
    <3>3. TakesFromNoOne(d)'
      BY <2>1, <3>1, <3>2 DEF InitClaims, SameJob, SameTarget, FoundIn, TakesFromNoOne,
         InitAllowed, LocationStatus, InitOps
    <3>4. d.step = "working" => registry'[d.id] = [root |-> d.folder, storage |-> d.storage]
      BY <2>1, <3>1 DEF InitClaims, SameJob, SameTarget, BindingIsCurrent
    <3>5. QED
      BY <3>1, <3>3, <3>4, WritesNothing, ClaimMove
  <2>2. QED
    BY <1>3, <1>5, <2>1, InitClaimDoes
<1>6. ASSUME NEW p \in Procs, InitReserve(p) PROVE ClaimInv'
  <2>1. PICK d \in Call : InitReserves(p, d)
    BY <1>6, InitReserveDoes
  <2>2. /\ Becomes(p, d) /\ registry' = registry /\ calls[p] # None /\ SameJob(calls[p], d)
        /\ calls[p].step = "checked" /\ d.step = "reserved" /\ d.id = calls[p].id
        /\ calls[p].op \in InitOps /\ d.folder \in Folders
    BY <1>n, <2>1 DEF InitReserves, Call
  <2>3. /\ TakesFromNoOne(calls[p]) /\ folders[d.folder] # Missing
        /\ d.id \in calls[p].claims /\ d.id \in Ids
    BY <1>c, <2>2 DEF Shape, Starting, InitSteps, LockedSteps, LocksHeld, SameJob, RegTypeInv,
       TypeOK
  <2>4. PICK m, x : /\ FolderWritten(d.folder, m, x)
                    /\ m = folders[d.folder].marker \/ m \in calls[p].claims
    BY <2>1, <2>3 DEF InitReserves
  <2>5. WritesUnderClaim(p)
    BY <2>2, <2>3, <2>4, WritesFolder
  <2>6. TakesFromNoOne(d)'
    <3>1. registry[d.id] # None => registry[d.id].root \in Folders
      BY <2>3 DEF RegTypeInv, TypeOK, Registry, Entry
    <3>2. QED
      BY <2>2, <2>3, <2>4, <3>1 DEF TakesFromNoOne, FolderWritten, SameJob
  <2>7. QED
    BY <2>2, <2>5, <2>6, ClaimMove
<1>7. ASSUME NEW p \in Procs, InitLayout(p) PROVE ClaimInv'
  <2>1. /\ calls[p] # None /\ calls[p].step = "reserved" /\ Step(p, "laidOut") /\ "laidOut" \in Steps
        /\ UNCHANGED <<folders, registry>>
    BY <1>7 DEF InitLayout, Steps
  <2>2. PICK d \in Call : Advances(p, "laidOut", d)
    BY <2>1, StepDoes
  <2>3. TakesFromNoOne(d)' /\ Becomes(p, d) /\ d.step # "working"
    BY <1>c, <2>1, <2>2 DEF Advances, SameJob, SameTarget, TakesFromNoOne
  <2>4. QED
    BY <2>1, <2>3, WritesNothing, ClaimMove
<1>8. ASSUME NEW p \in Procs, NEW from, NEW phase \in {"repositoryInitialized", "registered"},
             NEW s \in Steps, WritePhase(p, from, phase, s), registry' = registry,
             calls[p] # None,
             \/ calls[p].step = "laidOut" /\ s = "phased"
             \/ calls[p].step = "registered" /\ s = "committed"
      PROVE  ClaimInv'
  <2>1. PICK d \in Call : WritesPhase(p, from, phase, s, d)
    <3>1. calls[p].step \in LockedSteps \ {"checked"}
      BY <1>8 DEF LockedSteps
    <3>2. QED
      BY <1>8, <3>1, WritePhaseDoes
  <2>2. /\ Becomes(p, d) /\ SameJob(calls[p], d) /\ d.step = s /\ d.id = calls[p].id
        /\ d.folder \in Folders
        /\ \/ FolderWritten(d.folder, folders[d.folder].marker, d.pending)
           \/ folders' = folders
    BY <2>1 DEF WritesPhase, Call
  <2>3. /\ TakesFromNoOne(calls[p]) /\ folders[d.folder] # Missing /\ d.id \in Ids
    BY <1>c, <1>8, <2>1, <2>2 DEF WritesPhase, Shape, Starting, InitSteps, LockedSteps, SameJob,
       RegTypeInv, TypeOK
  <2>4. WritesUnderClaim(p)
    BY <1>8, <2>2, <2>3, WritesFolder, WritesNothing
  <2>5. TakesFromNoOne(d)' /\ d.step # "working"
    <3>1. registry[d.id] # None => registry[d.id].root \in Folders
      BY <2>3 DEF RegTypeInv, TypeOK, Registry, Entry
    <3>2. QED
      BY <1>8, <2>2, <2>3, <3>1 DEF TakesFromNoOne, FolderWritten, SameJob
  <2>6. QED
    BY <2>2, <2>4, <2>5, ClaimMove
<1>9. ASSUME NEW p \in Procs, InitPhase(p) PROVE ClaimInv'
  <2>1. "phased" \in Steps
    BY DEF Steps
  <2>2. QED
    BY <1>8, <1>9, <2>1 DEF InitPhase
<1>10. ASSUME NEW p \in Procs, InitRegister(p) PROVE ClaimInv'
  <2>1. PICK d \in Call : InitRegisters(p, d)
    BY <1>10, InitRegisterDoes
  <2>2. /\ Becomes(p, d) /\ folders' = folders /\ calls[p] # None /\ d.step = "registered"
        /\ \A i \in Ids \ {calls[p].id} : registry'[i] = calls[p].seen[i]
        /\ calls[p].op \in InitOps /\ calls[p].step = "phased"
    BY <1>n, <2>1 DEF InitRegisters, SameTarget
  <2>3. calls[p].seen = registry /\ calls[p].id \in calls[p].claims
    BY <1>c, <2>2 DEF SeenIsCurrent, LocksHeld, Starting, InitSteps, LockedSteps
  <2>4. TakesFromNoOne(d)' /\ d.step # "working"
    BY <2>2 DEF TakesFromNoOne
  <2>5. QED
    BY <2>2, <2>3, <2>4, WritesRegistry, ClaimMove
<1>11. ASSUME NEW p \in Procs, InitRegistered(p) PROVE ClaimInv'
  <2>1. "committed" \in Steps
    BY DEF Steps
  <2>2. QED
    BY <1>8, <1>11, <2>1 DEF InitRegistered
<1>12. ASSUME NEW p \in Procs, InitCommit(p) PROVE ClaimInv'
  <2>1. PICK d \in Call : InitCommits(p, d)
    BY <1>12, InitCommitDoes
  <2>2. /\ Becomes(p, d) /\ registry' = registry /\ calls[p] # None /\ SameJob(calls[p], d)
        /\ calls[p].step = "committed" /\ d.step = "finalize" /\ d.id = calls[p].id
        /\ calls[p].op \in InitOps /\ d.folder \in Folders
    BY <1>n, <2>1 DEF InitCommits, SameTarget, Call
  <2>3. folders[d.folder] # Missing /\ d.id \in calls[p].claims
    BY <1>c, <2>2 DEF Shape, Starting, InitSteps, LockedSteps, LocksHeld, SameJob
  <2>4. PICK m, x : /\ FolderWritten(d.folder, m, x)
                    /\ m = folders[d.folder].marker \/ m \in calls[p].claims
    BY <2>1, <2>3 DEF InitCommits
  <2>5. WritesUnderClaim(p)
    BY <2>2, <2>3, <2>4, WritesFolder
  <2>6. TakesFromNoOne(d)'
    BY <2>2 DEF TakesFromNoOne
  <2>7. QED
    BY <2>2, <2>5, <2>6, ClaimMove
<1>13. ASSUME NEW p \in Procs, InitFinalize(p) PROVE ClaimInv'
  <2>1. /\ Becomes(p, None) /\ registry' = registry
        /\ \/ folders' = folders
           \/ /\ calls[p].folder \in Folders /\ folders[calls[p].folder] # Missing
              /\ FolderWritten(calls[p].folder, folders[calls[p].folder].marker, None)
    BY <1>13, InitFinalizeDoes DEF BindingIsCurrent, Call
  <2>2. WritesUnderClaim(p)
    BY <2>1, WritesNothing, WritesFolder
  <2>3. QED
    BY <2>1, <2>2, ClaimMove
<1>14. ASSUME NEW p \in Procs, NEW op \in LoadOps, NEW f \in Folders,
              LoadRead(p, op, f)
      PROVE  ClaimInv'
  <2>1. PICK d \in Call : LoadReads(p, op, f, d)
    BY <1>14, LoadReadDoes
  <2>2. /\ Becomes(p, d) /\ UNCHANGED <<folders, registry>>
        /\ d.step \in {"load", "claim", "refresh", "lock"}
    BY <2>1 DEF LoadReads, disk
  <2>3. TakesFromNoOne(d)' /\ d.step # "working"
    BY <2>2 DEF TakesFromNoOne
  <2>4. QED
    BY <2>2, <2>3, WritesNothing, ClaimMove
<1>15. ASSUME NEW p \in Procs, FinishLoad(p) PROVE ClaimInv'
  <2>1. ASSUME NEW d \in Call, LoadFinishes(p, d) PROVE ClaimInv'
    <3>1. Becomes(p, d) /\ UNCHANGED <<folders, registry>> /\ calls[p] # None
      BY <1>n, <2>1 DEF LoadFinishes, disk
    <3>2. TakesFromNoOne(calls[p]) /\ Shape(calls[p])
      BY <1>c, <3>1
    <3>3. TakesFromNoOne(d)'
      BY <2>1, <3>1, <3>2 DEF LoadFinishes, SameJob, SameTarget, FoundIn, TakesFromNoOne
    <3>4. d.step = "working" => registry'[d.id] = [root |-> d.folder, storage |-> d.storage]
      BY <2>1, <3>1 DEF LoadFinishes, SameJob, SameTarget, BindingIsCurrent
    <3>5. QED
      BY <3>1, <3>3, <3>4, WritesNothing, ClaimMove
  <2>2. QED
    BY <1>3, <1>15, <2>1, FinishLoadDoes
<1>16. ASSUME NEW p \in Procs, RefreshClaim(p) PROVE ClaimInv'
  <2>1. ASSUME NEW d \in Call, RefreshClaims(p, d) PROVE ClaimInv'
    <3>1. Becomes(p, d) /\ UNCHANGED <<folders, registry>> /\ calls[p] # None
      BY <1>n, <2>1 DEF RefreshClaims, disk
    <3>2. TakesFromNoOne(calls[p]) /\ Shape(calls[p])
      BY <1>c, <3>1
    <3>3. TakesFromNoOne(d)'
      BY <2>1, <3>1, <3>2 DEF RefreshClaims, SameJob, SameTarget, FoundIn, TakesFromNoOne,
         LocationStatus
    <3>4. d.step = "working" => registry'[d.id] = [root |-> d.folder, storage |-> d.storage]
      BY <2>1, <3>1 DEF RefreshClaims, SameJob, SameTarget, BindingIsCurrent
    <3>5. QED
      BY <3>1, <3>3, <3>4, WritesNothing, ClaimMove
  <2>2. QED
    BY <1>3, <1>16, <2>1, RefreshClaimDoes
<1>17. ASSUME NEW p \in Procs, RefreshRead(p) PROVE ClaimInv'
  <2>1. ASSUME NEW d \in Call, RefreshReads(p, d) PROVE ClaimInv'
    <3>1. Becomes(p, d) /\ UNCHANGED <<folders, registry>> /\ calls[p] # None
      BY <1>n, <2>1 DEF RefreshReads, disk
    <3>2. TakesFromNoOne(calls[p]) /\ Shape(calls[p])
      BY <1>c, <3>1
    <3>3. TakesFromNoOne(d)'
      BY <2>1, <3>1, <3>2 DEF RefreshReads, SameJob, SameTarget, FoundIn, TakesFromNoOne
    <3>4. d.step = "working" => registry'[d.id] = [root |-> d.folder, storage |-> d.storage]
      BY <2>1, <3>1 DEF RefreshReads, SameJob, SameTarget, BindingIsCurrent
    <3>5. QED
      BY <3>1, <3>3, <3>4, WritesNothing, ClaimMove
  <2>2. QED
    BY <1>3, <1>17, <2>1, RefreshReadDoes
<1>18. ASSUME NEW p \in Procs, RefreshWrite(p) PROVE ClaimInv'
  <2>1. PICK d : RefreshWrites(p, d)
    BY <1>18, RefreshWriteDoes
  <2>2. /\ Becomes(p, d) /\ folders' = folders /\ calls[p] # None /\ calls[p].step = "write"
        /\ \A i \in Ids \ {calls[p].id} : registry'[i] = calls[p].seen[i]
        /\ d # None => d.step = "lock"
    BY <1>n, <2>1 DEF RefreshWrites
  <2>3. calls[p].seen = registry /\ calls[p].id \in calls[p].claims
    BY <1>c, <2>2 DEF SeenIsCurrent, LocksHeld
  <2>4. d # None => TakesFromNoOne(d)'
    BY <2>2 DEF TakesFromNoOne
  <2>5. QED
    BY <2>2, <2>3, <2>4, WritesRegistry, ClaimMove
<1>19. ASSUME NEW p \in Procs, MutateLock(p) PROVE ClaimInv'
  <2>1. ASSUME NEW d \in Call, MutateLocks(p, d) PROVE ClaimInv'
    <3>1. Becomes(p, d) /\ UNCHANGED <<folders, registry>> /\ calls[p] # None
      BY <1>n, <2>1 DEF MutateLocks, disk
    <3>2. TakesFromNoOne(calls[p]) /\ Shape(calls[p])
      BY <1>c, <3>1
    <3>3. TakesFromNoOne(d)'
      BY <2>1, <3>1, <3>2 DEF MutateLocks, SameJob, SameTarget, FoundIn, TakesFromNoOne
    <3>4. d.step = "working" => registry'[d.id] = [root |-> d.folder, storage |-> d.storage]
      BY <2>1, <3>1 DEF MutateLocks, SameJob, SameTarget, BindingIsCurrent
    <3>5. QED
      BY <3>1, <3>3, <3>4, WritesNothing, ClaimMove
  <2>2. QED
    BY <1>3, <1>19, <2>1, MutateLockDoes
<1>20. ASSUME NEW p \in Procs, MutateValidate(p) PROVE ClaimInv'
  <2>1. ASSUME NEW d \in Call, MutateValidates(p, d) PROVE ClaimInv'
    <3>1. Becomes(p, d) /\ UNCHANGED <<folders, registry>> /\ calls[p] # None
      BY <1>n, <2>1 DEF MutateValidates, disk
    <3>2. TakesFromNoOne(calls[p]) /\ Shape(calls[p])
      BY <1>c, <3>1
    <3>3. TakesFromNoOne(d)'
      BY <2>1, <3>1, <3>2 DEF MutateValidates, SameJob, SameTarget, FoundIn, TakesFromNoOne
    <3>4. d.step = "working" => registry'[d.id] = [root |-> d.folder, storage |-> d.storage]
      BY <2>1, <3>1 DEF MutateValidates, SameJob, SameTarget, BindingIsCurrent
    <3>5. QED
      BY <3>1, <3>3, <3>4, WritesNothing, ClaimMove
  <2>2. QED
    BY <1>3, <1>20, <2>1, MutateValidateDoes
<1>21. ASSUME NEW p \in Procs, NEW f \in Folders, NEW req \in Storages,
              SetRead(p, f, req)
      PROVE  ClaimInv'
  <2>1. PICK d \in Call : SetReads(p, f, req, d)
    BY <1>21, SetReadDoes
  <2>2. /\ Becomes(p, d) /\ UNCHANGED <<folders, registry>>
        /\ d.step \in {"load", "claim", "refresh", "lock"}
    BY <2>1 DEF SetReads, disk
  <2>3. TakesFromNoOne(d)' /\ d.step # "working"
    BY <2>2 DEF TakesFromNoOne
  <2>4. QED
    BY <2>2, <2>3, WritesNothing, ClaimMove
<1>22. ASSUME NEW p \in Procs, SetClaim(p) PROVE ClaimInv'
  <2>1. ASSUME NEW d \in Call, SetClaims(p, d) PROVE ClaimInv'
    <3>1. Becomes(p, d) /\ UNCHANGED <<folders, registry>> /\ calls[p] # None
      BY <1>n, <2>1 DEF SetClaims, disk
    <3>2. TakesFromNoOne(calls[p]) /\ Shape(calls[p])
      BY <1>c, <3>1
    <3>3. TakesFromNoOne(d)'
      BY <2>1, <3>1, <3>2 DEF SetClaims, SameJob, SameTarget, FoundIn, TakesFromNoOne,
         LocationStatus
    <3>4. d.step = "working" => registry'[d.id] = [root |-> d.folder, storage |-> d.storage]
      BY <2>1, <3>1 DEF SetClaims, SameJob, SameTarget, BindingIsCurrent
    <3>5. QED
      BY <3>1, <3>3, <3>4, WritesNothing, ClaimMove
  <2>2. QED
    BY <1>3, <1>22, <2>1, SetClaimDoes
<1>23. ASSUME NEW p \in Procs, SetWrite(p) PROVE ClaimInv'
  <2>1. /\ Becomes(p, None) /\ folders' = folders /\ calls[p] # None /\ calls[p].step = "checked"
        /\ \A i \in Ids \ {calls[p].id} : registry'[i] = calls[p].seen[i]
    BY <1>n, <1>23, SetWriteDoes
  <2>2. calls[p].seen = registry /\ calls[p].id \in calls[p].claims
    BY <1>c, <2>1 DEF SeenIsCurrent, LocksHeld
  <2>3. QED
    BY <2>1, <2>2, WritesRegistry, ClaimMove
<1>24. QED
  BY <1>1, <1>2, <1>3, <1>4, <1>5, <1>6, <1>7, <1>9, <1>10, <1>11, <1>12, <1>13, <1>14,
     <1>15, <1>16, <1>17, <1>18, <1>19, <1>20, <1>21, <1>22, <1>23, StepKinds

(* In every reachable state the registry names, for the project that a     *)
(* call changes, that call's folder and storage root, provided that no     *)
(* marker changes between a call's two reads of it.                        *)
THEOREM ClaimsAreHeld ==
    ASSUME MarkerRaces = FALSE
    PROVE  Spec => []ClaimHoldsWhileWorking
<1>1. Init => ClaimInv
  BY DEF Init, ClaimInv, ClaimHoldsWhileWorking, Running
<1>2. RegTypeInv /\ LockInv /\ ClaimInv /\ [Next]_vars => ClaimInv'
  BY ClaimStep
<1>3. ClaimInv => ClaimHoldsWhileWorking
  BY DEF ClaimInv
<1>4. QED
  BY <1>1, <1>2, <1>3, RegTypeInit, RegTypeStep, LockInit, LockStep, PTL DEF Spec

(* What a call reads first changes nothing on disk. *)
LEMMA ReadsChangeNothing ==
    ASSUME RegTypeInv, NEW p \in Procs,
           \/ Ended(p)
           \/ \E op \in InitOps, f \in Folders, req \in Requests \cup {None} :
                InitRead(p, op, f, req)
           \/ \E op \in LoadOps, f \in Folders : LoadRead(p, op, f)
           \/ \E f \in Folders, req \in Storages : SetRead(p, f, req)
    PROVE  UNCHANGED <<folders, registry, repos>>
<1>1. ASSUME NEW op \in InitOps, NEW f \in Folders, NEW req \in Requests \cup {None},
             InitRead(p, op, f, req)
      PROVE  UNCHANGED disk
  BY <1>1, InitReadDoes DEF InitReads
<1>2. ASSUME NEW op \in LoadOps, NEW f \in Folders, LoadRead(p, op, f) PROVE UNCHANGED disk
  BY <1>2, LoadReadDoes DEF LoadReads
<1>3. ASSUME NEW f \in Folders, NEW req \in Storages, SetRead(p, f, req) PROVE UNCHANGED disk
  BY <1>3, SetReadDoes DEF SetReads
<1>4. UNCHANGED disk
  BY <1>1, <1>2, <1>3 DEF Ended
<1>5. QED
  BY <1>4 DEF disk

(* The registry is written by three steps, each of which changes one       *)
(* record, and takes none away.                                            *)
LEMMA RegistryWriters ==
    ASSUME RegTypeInv, LockInv, [Next]_vars, NEW i \in Ids, registry'[i] # registry[i]
    PROVE  \E p \in Running :
             /\ i = calls[p].id /\ registry'[i] # None
             /\ registry'[i] = [root |-> calls[p].folder, storage |-> calls[p].storage]
             /\ \/ calls[p].op \in InitOps /\ calls[p].step = "phased"
                \/ calls[p].step = "write"
                \/ calls[p].op = "setStorage" /\ calls[p].step = "checked"
<1>c. ASSUME NEW p \in Procs, calls[p] \in Call
      PROVE  p \in Running /\ SeenIsCurrent(calls[p])
  BY <1>c, CallRead, NoneAssumption DEF LockInv
<1>1. ASSUME NEW p \in Procs, InitRegister(p)
      PROVE  /\ p \in Running /\ i = calls[p].id /\ registry'[i] # None
             /\ registry'[i] = [root |-> calls[p].folder, storage |-> calls[p].storage]
             /\ calls[p].op \in InitOps /\ calls[p].step = "phased"
  <2>1. PICK d \in Call : InitRegisters(p, d)
    BY <1>1, InitRegisterDoes
  <2>2. QED
    BY <1>c, <2>1 DEF InitRegisters, SameJob, SameTarget, SeenIsCurrent
<1>2. ASSUME NEW p \in Procs, RefreshWrite(p)
      PROVE  /\ p \in Running /\ i = calls[p].id /\ registry'[i] # None
             /\ registry'[i] = [root |-> calls[p].folder, storage |-> calls[p].storage]
             /\ calls[p].step = "write"
  <2>1. PICK d : RefreshWrites(p, d)
    BY <1>2, RefreshWriteDoes
  <2>2. QED
    BY <1>c, <2>1 DEF RefreshWrites, SeenIsCurrent
<1>3. ASSUME NEW p \in Procs, SetWrite(p)
      PROVE  /\ p \in Running /\ i = calls[p].id /\ registry'[i] # None
             /\ registry'[i] = [root |-> calls[p].folder, storage |-> calls[p].storage]
             /\ calls[p].op = "setStorage" /\ calls[p].step = "checked"
  BY <1>c, <1>3, SetWriteDoes DEF SeenIsCurrent
<1>4. CASE UNCHANGED vars \/ Users
  BY <1>4, UsersDo DEF vars, disk
<1>5. ASSUME NEW p \in Procs,
             \/ Ended(p)
             \/ \E op \in InitOps, f \in Folders, req \in Requests \cup {None} :
                  InitRead(p, op, f, req)
             \/ \E op \in LoadOps, f \in Folders : LoadRead(p, op, f)
             \/ \E f \in Folders, req \in Storages : SetRead(p, f, req)
      PROVE  registry' = registry
  BY <1>5, ReadsChangeNothing
<1>6. ASSUME NEW p \in Procs,
             \/ InitClaim(p) \/ InitReserve(p) \/ InitLayout(p) \/ InitPhase(p)
             \/ InitRegistered(p) \/ InitCommit(p) \/ InitFinalize(p)
             \/ FinishLoad(p) \/ RefreshClaim(p) \/ RefreshRead(p)
             \/ MutateLock(p) \/ MutateValidate(p) \/ SetClaim(p)
      PROVE  registry' = registry
  BY <1>6 DEF InitClaim, InitReserve, InitLayout, InitPhase, InitRegistered, InitCommit,
              InitFinalize, FinishLoad, RefreshClaim, RefreshRead, MutateLock, MutateValidate,
              SetClaim, disk
<1>7. QED
  BY <1>1, <1>2, <1>3, <1>4, <1>5, <1>6, StepKinds

(* In every step, a project is taken from a folder that still has its      *)
(* marker only by confirm_project_location, and no registration is lost,   *)
(* provided that no marker changes between a call's two reads of it.       *)
THEOREM ClaimsChangeKnowingly ==
    ASSUME MarkerRaces = FALSE
    PROVE  Spec => ClaimsAreTakenKnowingly
<1>1. Init => ClaimInv
  BY DEF Init, ClaimInv, ClaimHoldsWhileWorking, Running
<1>2. RegTypeInv /\ LockInv /\ ClaimInv /\ [Next]_vars => ClaimInv'
  BY ClaimStep
<1>3. RegTypeInv /\ LockInv /\ ClaimInv /\ [Next]_vars =>
        [\A i \in Ids : ClaimTaken(i) =>
           /\ registry'[i] # None
           /\ \E p \in Running : calls[p].op = "confirm" /\ calls[p].step = "write"]_vars
  <2> SUFFICES ASSUME RegTypeInv, LockInv, ClaimInv, [Next]_vars, NEW i \in Ids, ClaimTaken(i)
               PROVE  /\ registry'[i] # None
                      /\ \E p \in Running : calls[p].op = "confirm" /\ calls[p].step = "write"
    OBVIOUS
  <2>1. /\ registry[i] # None /\ registry'[i] # registry[i]
        /\ registry'[i] # None => /\ registry'[i].root # registry[i].root
                                  /\ folders[registry[i].root] # Missing
                                  /\ folders[registry[i].root].marker = i
    BY DEF ClaimTaken
  <2>2. PICK p \in Running :
          /\ i = calls[p].id /\ registry'[i] # None
          /\ registry'[i] = [root |-> calls[p].folder, storage |-> calls[p].storage]
          /\ calls[p].step \in {"phased", "write", "checked"}
    BY <2>1, RegistryWriters
  <2>3. registry'[i].root = calls[p].folder
    BY <2>2
  <2>4. TakesFromNoOne(calls[p])
    BY DEF ClaimInv
  <2>5. calls[p].op = "confirm" /\ calls[p].step = "write"
    BY <2>1, <2>2, <2>3, <2>4 DEF TakesFromNoOne
  <2>6. QED
    BY <2>2, <2>5
<1>4. QED
  BY <1>1, <1>2, <1>3, RegTypeInit, RegTypeStep, LockInit, LockStep, PTL
     DEF Spec, ClaimsAreTakenKnowingly

(* The markers of folders are written by two steps. *)
LEMMA MarkerWriters ==
    ASSUME RegTypeInv, LockInv, [Next]_vars, NEW f \in Folders,
           folders[f] # Missing, folders'[f] # Missing, folders'[f].marker # folders[f].marker
    PROVE  \E p \in Running :
             /\ calls[p].folder = f /\ calls[p].marker = folders[f].marker
             /\ folders'[f].marker = calls[p].id
             /\ \/ calls[p].op = "init" /\ calls[p].step = "checked"
                \/ calls[p].op \in ForceNew /\ calls[p].step = "committed"
<1>c. ASSUME NEW p \in Procs, calls[p] \in Call
      PROVE  p \in Running /\ MarkerAsRead(calls[p]) /\ calls[p].folder \in Folders
  BY <1>c, CallRead, NoneAssumption DEF LockInv, Call
<1>1. ASSUME NEW p \in Procs, InitReserve(p)
      PROVE  /\ p \in Running /\ calls[p].folder = f /\ calls[p].marker = folders[f].marker
             /\ folders'[f].marker = calls[p].id
             /\ calls[p].op = "init" /\ calls[p].step = "checked"
  <2>1. PICK d \in Call : InitReserves(p, d)
    BY <1>1, InitReserveDoes
  <2>2. /\ calls[p] \in Call /\ calls[p].step = "checked" /\ calls[p].op \in InitOps
        /\ d.folder = calls[p].folder /\ d.op = calls[p].op /\ d.id = calls[p].id
    BY <2>1 DEF InitReserves, SameJob
  <2>3. calls[p].folder = f /\ d.op = "init" /\ folders'[f].marker = d.id
    BY <1>c, <2>1, <2>2 DEF InitReserves, FolderWritten
  <2>4. folders[f].marker = calls[p].marker
    BY <1>c, <2>2, <2>3 DEF MarkerAsRead, MarkerUnchanged, Starting, InitSteps, LockedSteps
  <2>5. QED
    BY <1>c, <2>2, <2>3, <2>4
<1>2. ASSUME NEW p \in Procs, InitCommit(p)
      PROVE  /\ p \in Running /\ calls[p].folder = f /\ calls[p].marker = folders[f].marker
             /\ folders'[f].marker = calls[p].id
             /\ calls[p].op \in ForceNew /\ calls[p].step = "committed"
  <2>1. PICK d \in Call : InitCommits(p, d)
    BY <1>2, InitCommitDoes
  <2>2. /\ calls[p] \in Call /\ calls[p].step = "committed" /\ calls[p].op \in InitOps
        /\ d.folder = calls[p].folder /\ d.op = calls[p].op /\ d.id = calls[p].id
    BY <2>1 DEF InitCommits, SameJob, SameTarget
  <2>3. calls[p].folder = f /\ d.op \in ForceNew /\ folders'[f].marker = d.id
    BY <1>c, <2>1, <2>2 DEF InitCommits, FolderWritten
  <2>4. folders[f].marker = calls[p].marker
    BY <1>c, <2>2, <2>3 DEF MarkerAsRead, MarkerUnchanged, Starting, InitSteps, LockedSteps
  <2>5. QED
    BY <1>c, <2>2, <2>3, <2>4
<1>3. CASE UNCHANGED vars
  BY <1>3 DEF vars, disk
<1>4. CASE Users
  BY <1>4, UsersDo DEF UsersChange
<1>5. ASSUME NEW p \in Procs, NEW from, NEW phase \in {"repositoryInitialized", "registered"},
             NEW s \in Steps, WritePhase(p, from, phase, s), calls[p] # None,
             calls[p].step \in LockedSteps \ {"checked"}
      PROVE  FALSE
  <2>1. PICK d \in Call : WritesPhase(p, from, phase, s, d)
    BY <1>5, WritePhaseDoes
  <2>2. d.folder \in Folders
    BY DEF Call
  <2>3. QED
    BY <2>1, <2>2 DEF WritesPhase, FolderWritten
<1>6. ASSUME NEW p \in Procs, InitPhase(p) \/ InitRegistered(p) PROVE FALSE
  <2>1. /\ {"phased", "committed"} \subseteq Steps
        /\ {"laidOut", "registered"} \subseteq LockedSteps \ {"checked"}
    BY DEF Steps, LockedSteps
  <2>2. QED
    BY <1>5, <1>6, <2>1 DEF InitPhase, InitRegistered
<1>7. ASSUME NEW p \in Procs, InitFinalize(p) PROVE FALSE
  BY <1>c, <1>7, InitFinalizeDoes DEF FolderWritten
<1>8. ASSUME NEW p \in Procs,
             \/ Ended(p)
             \/ \E op \in InitOps, g \in Folders, req \in Requests \cup {None} :
                  InitRead(p, op, g, req)
             \/ \E op \in LoadOps, g \in Folders : LoadRead(p, op, g)
             \/ \E g \in Folders, req \in Storages : SetRead(p, g, req)
      PROVE  folders' = folders
  BY <1>8, ReadsChangeNothing
<1>9. ASSUME NEW p \in Procs,
             \/ InitClaim(p) \/ InitLayout(p) \/ InitRegister(p)
             \/ FinishLoad(p) \/ RefreshClaim(p) \/ RefreshRead(p) \/ RefreshWrite(p)
             \/ MutateLock(p) \/ MutateValidate(p) \/ SetClaim(p) \/ SetWrite(p)
      PROVE  folders' = folders
  BY <1>9 DEF InitClaim, InitLayout, InitRegister, FinishLoad, RefreshClaim, RefreshRead,
              RefreshWrite, MutateLock, MutateValidate, SetClaim, SetWrite, disk
<1>10. QED
  BY <1>1, <1>2, <1>3, <1>4, <1>6, <1>7, <1>8, <1>9, StepKinds

(* In every step, a marker is replaced only by an initialisation as a      *)
(* separate project that has started from that very marker.                *)
THEOREM MarkersChangeKnowingly == Spec => MarkersAreReplacedKnowingly
<1>1. RegTypeInv /\ LockInv /\ [Next]_vars =>
        [\A f \in Folders :
           /\ folders[f] # Missing /\ folders'[f] # Missing /\ folders[f].marker # None
           /\ folders'[f].marker # folders[f].marker
           => \E p \in Running : /\ calls[p].op \in ForceNew /\ calls[p].folder = f
                                 /\ calls[p].step = "committed"
                                 /\ calls[p].marker = folders[f].marker]_vars
  <2> SUFFICES ASSUME RegTypeInv, LockInv, [Next]_vars, NEW f \in Folders,
                      folders[f] # Missing, folders'[f] # Missing, folders[f].marker # None,
                      folders'[f].marker # folders[f].marker
               PROVE  \E p \in Running : /\ calls[p].op \in ForceNew /\ calls[p].folder = f
                                         /\ calls[p].step = "committed"
                                         /\ calls[p].marker = folders[f].marker
    OBVIOUS
  <2>1. PICK p \in Running :
          /\ calls[p].folder = f /\ calls[p].marker = folders[f].marker
          /\ folders'[f].marker = calls[p].id
          /\ \/ calls[p].op = "init" /\ calls[p].step = "checked"
             \/ calls[p].op \in ForceNew /\ calls[p].step = "committed"
    BY MarkerWriters
  <2>2. calls[p].op # "init"
    BY <2>1 DEF RegTypeInv, Shape
  <2>3. QED
    BY <2>1, <2>2
<1>2. QED
  BY <1>1, RegTypeInit, RegTypeStep, LockInit, LockStep, PTL DEF Spec,
     MarkersAreReplacedKnowingly

-----------------------------------------------------------------------------
(* Initialisation as a separate project.  The steps of calls, by what they *)
(* mean for the files in folders and for the ids that calls have.          *)

(* A call begins, with an id that is new or that its folder holds. *)
Opens(p, d) ==
    /\ calls[p] = None /\ d \in Call /\ UNCHANGED disk /\ folders[d.folder] # Missing
    /\ d.op \in ForceNew /\ ~SeparateRaces =>
         \A q \in Running : ~(calls[q].op \in ForceNew /\ calls[q].folder = d.folder)
    /\ \/ /\ d.op \in ForceNew /\ d.step = "load" /\ d.id = None
          /\ folders[d.folder].pending # None
          /\ folders[d.folder].pending.id = folders[d.folder].marker
       \/ /\ d.op \in InitOps /\ d.step = "claim" /\ d.id \in Ids
          /\ d.op \in ForceNew => d.pending = folders[d.folder].pending
          /\ IF d.op \in ForceNew /\ d.pending # None THEN d.id = d.pending.id
             ELSE d.id \notin used \/ (d.op = "init" /\ d.id = folders[d.folder].marker)
       \/ d.op \notin InitOps /\ d.id = folders[d.folder].marker

(* It goes on, with the id it has or the one that its folder holds now. *)
Continues(p, d) ==
    /\ calls[p] \in Call /\ d \in Call /\ SameJob(calls[p], d)
    /\ calls[p].step \in InitSteps <=> d.step \in InitSteps
    /\ \/ d.id = calls[p].id
       \/ /\ UNCHANGED disk /\ folders[d.folder] # Missing /\ ~Separating(d)
          /\ d.id = folders[d.folder].marker /\ d.id # None
    /\ FreshId(d) => /\ FreshId(calls[p]) /\ d.id = calls[p].id /\ UNCHANGED disk
                     /\ registry[d.id] = None /\ registry[d.marker] # None

(* What it may write in its folder. *)
PlacesMarker(c) ==
    /\ c.op = "init" /\ c.step = "checked"
    /\ FolderWritten(c.folder, c.id, folders[c.folder].pending)

FilesPending(c, d) ==
    /\ FreshId(c) /\ c.step = "checked" /\ d.step = "reserved"
    /\ d.pending \in Pending /\ d.pending.prev = c.marker
    /\ d.pending.id = c.id /\ d.pending.storage = c.storage
    /\ FolderWritten(c.folder, folders[c.folder].marker, d.pending)

AdvancesPending(c, d) ==
    /\ Separating(c) /\ c.step \in LockedSteps /\ c.pending \in Pending
    /\ d.pending \in Pending /\ d.pending.prev = c.pending.prev
    /\ d.pending.id = c.pending.id /\ d.pending.storage = c.pending.storage
    /\ \/ c.pending.phase = "prepared" /\ d.pending.phase = "repositoryInitialized"
       \/ c.pending.phase # "registered" /\ d.pending.phase = "registered"
    /\ FolderWritten(c.folder, folders[c.folder].marker, d.pending)

CommitsMarker(c) ==
    /\ c.op \in ForceNew /\ c.step = "committed"
    /\ FolderWritten(c.folder, c.id, folders[c.folder].pending)

DropsPending(c) ==
    /\ c.op \in ForceNew /\ BindingIsCurrent(c) /\ c.step \in {"finalize", "working"}
    /\ FolderWritten(c.folder, folders[c.folder].marker, None)

KeepsPending(c, d) == d # None /\ c # None => d.pending = c.pending

Acts(p, d) ==
    /\ Becomes(p, d) /\ UNCHANGED <<lost, moved>>
    /\ d = None \/ Opens(p, d) \/ Continues(p, d)
    /\ \/ folders' = folders /\ KeepsPending(calls[p], d)
       \/ /\ registry' = registry /\ repos' = repos /\ calls[p] \in Call
          /\ folders[calls[p].folder] # Missing
          /\ \/ PlacesMarker(calls[p]) /\ KeepsPending(calls[p], d)
             \/ FilesPending(calls[p], d)
             \/ AdvancesPending(calls[p], d)
             \/ CommitsMarker(calls[p]) /\ KeepsPending(calls[p], d)
             \/ DropsPending(calls[p]) /\ d = None
    /\ repos \subseteq repos'
    /\ \A r \in repos' \ repos :
         /\ calls[p] \in Call /\ calls[p].op \in InitOps /\ calls[p].step = "reserved"
         /\ r = <<calls[p].storage, calls[p].id>> /\ UNCHANGED <<folders, registry>>

(* Every step of a call is one of these. *)
LEMMA CallsAct ==
    ASSUME RegTypeInv, [Next]_vars
    PROVE  UNCHANGED vars \/ Users \/ \E p \in Procs : \E d : Acts(p, d)
<1> USE RegistryAssumption
<1>c. ASSUME NEW p \in Procs, calls[p] \in Call
      PROVE  Shape(calls[p]) /\ calls[p] # None /\ calls[p].folder \in Folders
  BY <1>c, CallRead, NoneAssumption DEF Call
<1>n. None \notin Call
  BY NoneAssumption
<1>u. None \notin used
  BY DEF RegTypeInv, TypeOK
<1>3. ASSUME NEW p \in Procs, Ended(p) PROVE \E d : Acts(p, d)
  <2>1. Becomes(p, None) /\ UNCHANGED <<folders, registry, repos, lost, moved>>
    BY <1>3 DEF Ended, End, Becomes, disk, world
  <2>2. Acts(p, None)
    BY <2>1 DEF Acts, KeepsPending
  <2>3. QED
    BY <2>2
<1>4. ASSUME NEW p \in Procs, NEW op \in InitOps, NEW f \in Folders,
             NEW req \in Requests \cup {None}, InitRead(p, op, f, req)
      PROVE  \E d : Acts(p, d)
  <2>1. PICK d \in Call : InitReads(p, op, f, d)
    BY <1>4, InitReadDoes
  <2>2. Opens(p, d)
    BY <2>1 DEF InitReads, Opens, InitOps
  <2>3. Acts(p, d)
    BY <2>1, <2>2 DEF InitReads, Acts, KeepsPending, disk
  <2>4. QED
    BY <2>3
<1>5. ASSUME NEW p \in Procs, InitClaim(p) PROVE \E d : Acts(p, d)
  <2>1. ASSUME NEW d \in Call, InitClaims(p, d) PROVE Acts(p, d)
    <3>1. /\ Becomes(p, d) /\ UNCHANGED <<folders, registry, repos, lost, moved>>
          /\ calls[p] \in Call /\ UNCHANGED disk
      BY <2>1 DEF InitClaims, disk, world
    <3>2. KeepsPending(calls[p], d)
      BY <2>1 DEF InitClaims, KeepsPending, SameTarget
    <3>3. Continues(p, d)
      BY <1>c, <1>u, <2>1, <3>1 DEF InitClaims, Continues, SameJob, SameTarget, FoundIn,
         FreshId, Separating, InitAllowed, MayStartSeparate, InitSteps, LockedSteps, InitOps,
         LoadOps, ForceNew
    <3>4. QED
      BY <3>1, <3>2, <3>3 DEF Acts
  <2>2. QED
    BY <1>3, <1>5, <2>1, InitClaimDoes
<1>6. ASSUME NEW p \in Procs, InitReserve(p) PROVE \E d : Acts(p, d)
  <2>1. PICK d \in Call : InitReserves(p, d)
    BY <1>6, InitReserveDoes
  <2>2. /\ Becomes(p, d) /\ UNCHANGED <<registry, repos, lost, moved>> /\ calls[p] \in Call
        /\ SameJob(calls[p], d) /\ calls[p].step = "checked" /\ d.step = "reserved"
        /\ d.id = calls[p].id /\ calls[p].op \in InitOps /\ d.storage = calls[p].storage
    BY <2>1 DEF InitReserves, world
  <2>3. folders[calls[p].folder] # Missing /\ folders \in [Folders -> Folder \cup {Missing}]
    BY <1>c, <2>2 DEF Shape, Starting, InitSteps, LockedSteps, RegTypeInv, TypeOK
  <2>4. Continues(p, d)
    BY <2>2 DEF Continues, FreshId, InitSteps, LockedSteps
  <2>5. CASE FreshId(calls[p])
    <3>1. calls[p].op # "init"
      BY <2>5 DEF FreshId, ForceNew
    <3>2. FilesPending(calls[p], d)
      BY <2>1, <2>2, <2>5, <3>1 DEF InitReserves, FilesPending, SameJob
    <3>3. Acts(p, d)
      BY <2>2, <2>3, <2>4, <3>2 DEF Acts
    <3>4. QED
      BY <3>3
  <2>6. CASE ~FreshId(calls[p])
    <3>1. KeepsPending(calls[p], d)
      BY <2>1, <2>6 DEF InitReserves, KeepsPending
    <3>2. CASE d.op = "init"
      <4>1. PlacesMarker(calls[p])
        BY <2>1, <2>2, <2>6, <3>2 DEF InitReserves, PlacesMarker, SameJob
      <4>2. Acts(p, d)
        BY <2>2, <2>3, <2>4, <3>1, <4>1 DEF Acts
      <4>3. QED
        BY <4>2
    <3>3. CASE d.op # "init"
      <4>1. folders' = folders
        BY <1>c, <1>6, <2>2, <2>3, <2>6, <3>3 DEF InitReserve, FreshId, SameJob, InitOps,
           ForceNew
      <4>2. Acts(p, d)
        BY <2>2, <2>4, <3>1, <4>1 DEF Acts
      <4>3. QED
        BY <4>2
    <3>4. QED
      BY <3>2, <3>3
  <2>7. QED
    BY <2>5, <2>6
<1>7. ASSUME NEW p \in Procs, InitLayout(p) PROVE \E d : Acts(p, d)
  <2>1. /\ calls[p] # None /\ calls[p].step = "reserved" /\ Step(p, "laidOut") /\ "laidOut" \in Steps
        /\ repos' = repos \cup {<<calls[p].storage, calls[p].id>>}
        /\ UNCHANGED <<folders, registry>>
    BY <1>7 DEF InitLayout, Steps
  <2>2. PICK d \in Call : Advances(p, "laidOut", d)
    BY <2>1, StepDoes
  <2>3. /\ Becomes(p, d) /\ UNCHANGED <<lost, moved>> /\ calls[p] \in Call
        /\ KeepsPending(calls[p], d)
    BY <2>2 DEF Advances, world, KeepsPending, SameTarget
  <2>4. calls[p].op \in InitOps
    BY <1>c, <2>1, <2>3 DEF Shape, LockedSteps
  <2>5. Continues(p, d)
    BY <2>1, <2>2 DEF Advances, Continues, SameTarget, FreshId, InitSteps, LockedSteps
  <2>6. Acts(p, d)
    BY <2>1, <2>3, <2>4, <2>5 DEF Acts
  <2>7. QED
    BY <2>6
<1>8. ASSUME NEW p \in Procs, NEW from, NEW phase \in {"repositoryInitialized", "registered"},
             NEW s \in Steps, WritePhase(p, from, phase, s), UNCHANGED <<registry, repos>>,
             calls[p] # None,
             \/ /\ calls[p].step = "laidOut" /\ s = "phased"
                /\ from = {"prepared"} /\ phase = "repositoryInitialized"
             \/ /\ calls[p].step = "registered" /\ s = "committed"
                /\ from = {"prepared", "repositoryInitialized"} /\ phase = "registered"
      PROVE  \E d : Acts(p, d)
  <2>1. PICK d \in Call : WritesPhase(p, from, phase, s, d)
    <3>1. calls[p].step \in LockedSteps \ {"checked"}
      BY <1>8 DEF LockedSteps
    <3>2. QED
      BY <1>8, <3>1, WritePhaseDoes
  <2>2. /\ Becomes(p, d) /\ SameJob(calls[p], d) /\ d.step = s /\ d.id = calls[p].id
        /\ UNCHANGED <<lost, moved>> /\ calls[p] \in Call /\ calls[p].op \in InitOps
    BY <2>1 DEF WritesPhase, world
  <2>3. folders[calls[p].folder] # Missing
    BY <1>c, <1>8, <2>2 DEF Shape, Starting, InitSteps, LockedSteps
  <2>4. Continues(p, d)
    BY <1>8, <2>2 DEF Continues, FreshId, InitSteps, LockedSteps
  <2>5. CASE d.pending = calls[p].pending /\ folders' = folders
    <3>1. Acts(p, d)
      BY <1>8, <2>2, <2>4, <2>5 DEF Acts, KeepsPending
    <3>2. QED
      BY <3>1
  <2>6. CASE ~(d.pending = calls[p].pending /\ folders' = folders)
    <3>1. /\ d.op \in ForceNew /\ calls[p].pending # None
          /\ calls[p].pending.phase \in from
          /\ d.pending \in Pending /\ d.pending.phase = phase
          /\ d.pending.id = calls[p].pending.id
          /\ d.pending.prev = calls[p].pending.prev
          /\ d.pending.storage = calls[p].pending.storage
          /\ FolderWritten(d.folder, folders[d.folder].marker, d.pending)
      BY <2>1, <2>6 DEF WritesPhase
    <3>2. calls[p].pending \in Pending
      BY <2>2, <3>1 DEF Call
    <3>3. AdvancesPending(calls[p], d)
      BY <1>8, <2>2, <3>1, <3>2 DEF AdvancesPending, Separating, SameJob, InitSteps, LockedSteps
    <3>4. Acts(p, d)
      BY <1>8, <2>2, <2>3, <2>4, <3>3 DEF Acts
    <3>5. QED
      BY <3>4
  <2>7. QED
    BY <2>5, <2>6
<1>9. ASSUME NEW p \in Procs, InitPhase(p) PROVE \E d : Acts(p, d)
  <2>1. "phased" \in Steps
    BY DEF Steps
  <2>2. QED
    BY <1>8, <1>9, <2>1 DEF InitPhase
<1>10. ASSUME NEW p \in Procs, InitRegister(p) PROVE \E d : Acts(p, d)
  <2>1. PICK d \in Call : InitRegisters(p, d)
    BY <1>10, InitRegisterDoes
  <2>2. /\ Becomes(p, d) /\ UNCHANGED <<folders, repos, lost, moved>> /\ calls[p] \in Call
        /\ KeepsPending(calls[p], d)
    BY <2>1 DEF InitRegisters, world, KeepsPending, SameTarget
  <2>3. Continues(p, d)
    BY <2>1 DEF InitRegisters, Continues, SameTarget, FreshId, InitSteps, LockedSteps
  <2>4. Acts(p, d)
    BY <2>2, <2>3 DEF Acts
  <2>5. QED
    BY <2>4
<1>11. ASSUME NEW p \in Procs, InitRegistered(p) PROVE \E d : Acts(p, d)
  <2>1. "committed" \in Steps
    BY DEF Steps
  <2>2. QED
    BY <1>8, <1>11, <2>1 DEF InitRegistered
<1>12. ASSUME NEW p \in Procs, InitCommit(p) PROVE \E d : Acts(p, d)
  <2>1. PICK d \in Call : InitCommits(p, d)
    BY <1>12, InitCommitDoes
  <2>2. /\ Becomes(p, d) /\ UNCHANGED <<registry, repos, lost, moved>> /\ calls[p] \in Call
        /\ SameJob(calls[p], d) /\ calls[p].step = "committed" /\ d.step = "finalize"
        /\ d.id = calls[p].id /\ calls[p].op \in InitOps /\ KeepsPending(calls[p], d)
    BY <2>1 DEF InitCommits, world, KeepsPending, SameTarget
  <2>3. folders[calls[p].folder] # Missing
    BY <1>c, <2>2 DEF Shape, Starting, InitSteps, LockedSteps
  <2>4. Continues(p, d)
    BY <2>2 DEF Continues, FreshId, InitSteps, LockedSteps
  <2>5. CASE d.op \in ForceNew
    <3>1. CommitsMarker(calls[p])
      BY <2>1, <2>2, <2>5 DEF InitCommits, CommitsMarker, SameJob
    <3>2. Acts(p, d)
      BY <2>2, <2>3, <2>4, <3>1 DEF Acts
    <3>3. QED
      BY <3>2
  <2>6. CASE d.op \notin ForceNew
    <3>1. folders' = folders
      BY <1>12, <2>2, <2>6 DEF InitCommit, SameJob
    <3>2. Acts(p, d)
      BY <2>2, <2>4, <3>1 DEF Acts
    <3>3. QED
      BY <3>2
  <2>7. QED
    BY <2>5, <2>6
<1>13. ASSUME NEW p \in Procs, InitFinalize(p) PROVE \E d : Acts(p, d)
  <2>1. /\ calls[p] \in Call /\ calls[p].step \in {"finalize", "working"}
        /\ Becomes(p, None) /\ UNCHANGED <<registry, repos, lost, moved>>
        /\ \/ folders' = folders
           \/ DropsPending(calls[p]) /\ folders[calls[p].folder] # Missing
    BY <1>13, InitFinalizeDoes DEF BindingIsCurrent, DropsPending, world
  <2>2. Acts(p, None)
    BY <2>1 DEF Acts, KeepsPending
  <2>3. QED
    BY <2>2
<1>14. ASSUME NEW p \in Procs, NEW op \in LoadOps, NEW f \in Folders, LoadRead(p, op, f)
       PROVE  \E d : Acts(p, d)
  <2>1. PICK d \in Call : LoadReads(p, op, f, d)
    BY <1>14, LoadReadDoes
  <2>2. Opens(p, d)
    BY <2>1 DEF LoadReads, FoundIn, Opens, InitOps, LoadOps, ForceNew
  <2>3. Acts(p, d)
    BY <2>1, <2>2 DEF LoadReads, Acts, KeepsPending, disk
  <2>4. QED
    BY <2>3
<1>15. ASSUME NEW p \in Procs, FinishLoad(p) PROVE \E d : Acts(p, d)
  <2>1. ASSUME NEW d \in Call, LoadFinishes(p, d) PROVE Acts(p, d)
    <3>1. /\ Becomes(p, d) /\ UNCHANGED <<folders, registry, repos, lost, moved>>
          /\ calls[p] \in Call /\ UNCHANGED disk
      BY <2>1 DEF LoadFinishes, disk, world
    <3>2. KeepsPending(calls[p], d)
      BY <2>1 DEF LoadFinishes, KeepsPending, SameTarget
    <3>3. Continues(p, d)
      BY <1>c, <1>u, <2>1, <3>1 DEF LoadFinishes, Continues, SameJob, SameTarget, FoundIn,
         FreshId, Separating, InitSteps, LockedSteps, InitOps, LoadOps, ForceNew
    <3>4. QED
      BY <3>1, <3>2, <3>3 DEF Acts
  <2>2. QED
    BY <1>3, <1>15, <2>1, FinishLoadDoes
<1>16. ASSUME NEW p \in Procs, RefreshClaim(p) PROVE \E d : Acts(p, d)
  <2>1. ASSUME NEW d \in Call, RefreshClaims(p, d) PROVE Acts(p, d)
    <3>1. /\ Becomes(p, d) /\ UNCHANGED <<folders, registry, repos, lost, moved>>
          /\ calls[p] \in Call /\ UNCHANGED disk
      BY <2>1 DEF RefreshClaims, disk, world
    <3>2. KeepsPending(calls[p], d)
      BY <2>1 DEF RefreshClaims, KeepsPending, SameTarget
    <3>3. Continues(p, d)
      BY <1>c, <1>u, <2>1, <3>1 DEF RefreshClaims, Continues, SameJob, SameTarget, FoundIn,
         FreshId, Separating, InitSteps, LockedSteps, InitOps, LoadOps, ForceNew
    <3>4. QED
      BY <3>1, <3>2, <3>3 DEF Acts
  <2>2. QED
    BY <1>3, <1>16, <2>1, RefreshClaimDoes
<1>17. ASSUME NEW p \in Procs, RefreshRead(p) PROVE \E d : Acts(p, d)
  <2>1. ASSUME NEW d \in Call, RefreshReads(p, d) PROVE Acts(p, d)
    <3>1. /\ Becomes(p, d) /\ UNCHANGED <<folders, registry, repos, lost, moved>>
          /\ calls[p] \in Call /\ UNCHANGED disk
      BY <2>1 DEF RefreshReads, disk, world
    <3>2. KeepsPending(calls[p], d)
      BY <2>1 DEF RefreshReads, KeepsPending, SameTarget
    <3>3. Continues(p, d)
      BY <1>c, <1>u, <2>1, <3>1 DEF RefreshReads, Continues, SameJob, SameTarget, FoundIn,
         FreshId, Separating, InitSteps, LockedSteps, InitOps, LoadOps, ForceNew
    <3>4. QED
      BY <3>1, <3>2, <3>3 DEF Acts
  <2>2. QED
    BY <1>3, <1>17, <2>1, RefreshReadDoes
<1>18. ASSUME NEW p \in Procs, RefreshWrite(p) PROVE \E d : Acts(p, d)
  <2>1. PICK d : RefreshWrites(p, d)
    BY <1>18, RefreshWriteDoes
  <2>2. /\ Becomes(p, d) /\ UNCHANGED <<folders, repos, lost, moved>> /\ calls[p] \in Call
        /\ KeepsPending(calls[p], d)
    BY <2>1 DEF RefreshWrites, world, KeepsPending, SameTarget
  <2>3. d # None => Continues(p, d)
    BY <2>1 DEF RefreshWrites, Continues, SameTarget, FreshId, InitSteps, LockedSteps
  <2>4. Acts(p, d)
    BY <2>2, <2>3 DEF Acts
  <2>5. QED
    BY <2>4
<1>19. ASSUME NEW p \in Procs, MutateLock(p) PROVE \E d : Acts(p, d)
  <2>1. ASSUME NEW d \in Call, MutateLocks(p, d) PROVE Acts(p, d)
    <3>1. /\ Becomes(p, d) /\ UNCHANGED <<folders, registry, repos, lost, moved>>
          /\ calls[p] \in Call /\ UNCHANGED disk
      BY <2>1 DEF MutateLocks, disk, world
    <3>2. KeepsPending(calls[p], d)
      BY <2>1 DEF MutateLocks, KeepsPending, SameTarget
    <3>3. Continues(p, d)
      BY <1>c, <1>u, <2>1, <3>1 DEF MutateLocks, Continues, SameJob, SameTarget, FoundIn,
         FreshId, Separating, InitSteps, LockedSteps, InitOps, LoadOps, ForceNew
    <3>4. QED
      BY <3>1, <3>2, <3>3 DEF Acts
  <2>2. QED
    BY <1>3, <1>19, <2>1, MutateLockDoes
<1>20. ASSUME NEW p \in Procs, MutateValidate(p) PROVE \E d : Acts(p, d)
  <2>1. ASSUME NEW d \in Call, MutateValidates(p, d) PROVE Acts(p, d)
    <3>1. /\ Becomes(p, d) /\ UNCHANGED <<folders, registry, repos, lost, moved>>
          /\ calls[p] \in Call /\ UNCHANGED disk
      BY <2>1 DEF MutateValidates, disk, world
    <3>2. KeepsPending(calls[p], d)
      BY <2>1 DEF MutateValidates, KeepsPending, SameTarget
    <3>3. Continues(p, d)
      BY <1>c, <1>u, <2>1, <3>1 DEF MutateValidates, Continues, SameJob, SameTarget, FoundIn,
         FreshId, Separating, InitSteps, LockedSteps, InitOps, LoadOps, ForceNew
    <3>4. QED
      BY <3>1, <3>2, <3>3 DEF Acts
  <2>2. QED
    BY <1>3, <1>20, <2>1, MutateValidateDoes
<1>21. ASSUME NEW p \in Procs, NEW f \in Folders, NEW req \in Storages, SetRead(p, f, req)
       PROVE  \E d : Acts(p, d)
  <2>1. PICK d \in Call : SetReads(p, f, req, d)
    BY <1>21, SetReadDoes
  <2>2. Opens(p, d)
    BY <2>1 DEF SetReads, Opens, InitOps, ForceNew
  <2>3. Acts(p, d)
    BY <2>1, <2>2 DEF SetReads, Acts, KeepsPending, disk
  <2>4. QED
    BY <2>3
<1>22. ASSUME NEW p \in Procs, SetClaim(p) PROVE \E d : Acts(p, d)
  <2>1. ASSUME NEW d \in Call, SetClaims(p, d) PROVE Acts(p, d)
    <3>1. /\ Becomes(p, d) /\ UNCHANGED <<folders, registry, repos, lost, moved>>
          /\ calls[p] \in Call /\ UNCHANGED disk
      BY <2>1 DEF SetClaims, disk, world
    <3>2. KeepsPending(calls[p], d)
      BY <2>1 DEF SetClaims, KeepsPending, SameTarget
    <3>3. Continues(p, d)
      BY <1>c, <1>u, <2>1, <3>1 DEF SetClaims, Continues, SameJob, SameTarget, FoundIn,
         FreshId, Separating, InitSteps, LockedSteps, InitOps, LoadOps, ForceNew
    <3>4. QED
      BY <3>1, <3>2, <3>3 DEF Acts
  <2>2. QED
    BY <1>3, <1>22, <2>1, SetClaimDoes
<1>23. ASSUME NEW p \in Procs, SetWrite(p) PROVE \E d : Acts(p, d)
  <2>1. Becomes(p, None) /\ UNCHANGED <<folders, repos, lost, moved>>
    BY <1>23, SetWriteDoes DEF world
  <2>2. Acts(p, None)
    BY <2>1 DEF Acts, KeepsPending
  <2>3. QED
    BY <2>2
<1>24. QED
  BY <1>3, <1>4, <1>5, <1>6, <1>7, <1>9, <1>10, <1>11, <1>12, <1>13, <1>14,
     <1>15, <1>16, <1>17, <1>18, <1>19, <1>20, <1>21, <1>22, <1>23, StepKinds

(* What a call leaves in a folder: a marker only where there was none, or  *)
(* in place of the one it started from; and a pending file that it knows.  *)
LEMMA WhatIsWritten ==
    ASSUME RegTypeInv, LockInv, SeparateInv, NEW p \in Procs, NEW d, Acts(p, d),
           NEW f \in Folders, folders[f] # Missing
    PROVE  /\ folders'[f] # Missing
           /\ \/ folders'[f].marker = folders[f].marker
              \/ /\ calls[p] \in Call /\ calls[p].folder = f /\ registry' = registry
                 /\ folders'[f].marker = calls[p].id /\ folders'[f].pending = folders[f].pending
                 /\ \/ folders[f].marker = None
                    \/ /\ Separating(calls[p]) /\ calls[p].step = "committed"
                       /\ folders[f].marker = calls[p].marker
           /\ \/ folders'[f].pending = folders[f].pending
              \/ /\ calls[p] \in Call /\ calls[p].folder = f /\ calls[p].op \in ForceNew
                 /\ folders'[f].marker = folders[f].marker /\ registry' = registry
                 /\ \/ /\ FilesPending(calls[p], d) /\ folders'[f].pending = d.pending
                       /\ f \notin moved => folders[f].pending = None
                    \/ /\ AdvancesPending(calls[p], d) /\ folders'[f].pending = d.pending
                       /\ f \notin moved => folders[f].pending = calls[p].pending
                    \/ /\ DropsPending(calls[p]) /\ d = None /\ folders'[f].pending = None
                       /\ f \notin moved /\ folders[f].pending # None =>
                            folders[f].pending.id = calls[p].id
<1>1. CASE folders' = folders
  BY <1>1
<1>2. CASE folders' # folders
  <2>1. /\ registry' = registry /\ calls[p] \in Call /\ folders[calls[p].folder] # Missing
        /\ \/ PlacesMarker(calls[p])
           \/ FilesPending(calls[p], d)
           \/ AdvancesPending(calls[p], d)
           \/ CommitsMarker(calls[p])
           \/ DropsPending(calls[p]) /\ d = None
    BY <1>2 DEF Acts
  <2>2. /\ p \in Running /\ Shape(calls[p]) /\ MarkerAsRead(calls[p]) /\ PendingAsKnown(calls[p])
        /\ calls[p].folder \in Folders
    BY <2>1, CallRead, NoneAssumption DEF LockInv, SeparateInv, Call
  <2>3. CASE calls[p].folder # f
    BY <2>1, <2>3 DEF PlacesMarker, FilesPending, AdvancesPending, CommitsMarker, DropsPending,
                      FolderWritten
  <2>4. CASE calls[p].folder = f /\ PlacesMarker(calls[p])
    <3>1. /\ folders'[f] # Missing /\ folders'[f].marker = calls[p].id
          /\ folders'[f].pending = folders[f].pending
          /\ calls[p].op = "init" /\ calls[p].step = "checked"
      BY <2>4 DEF PlacesMarker, FolderWritten
    <3>2. folders[f].marker = calls[p].marker
      BY <2>2, <2>4, <3>1 DEF MarkerAsRead, MarkerUnchanged, Starting, InitSteps, LockedSteps,
         InitOps
    <3>3. folders[f].marker # None => calls[p].id = folders[f].marker
      BY <2>2, <3>1, <3>2 DEF Shape
    <3>4. QED
      BY <2>1, <2>4, <3>1, <3>3
  <2>5. CASE calls[p].folder = f /\ FilesPending(calls[p], d)
    <3>1. /\ folders'[f] # Missing /\ folders'[f].marker = folders[f].marker
          /\ folders'[f].pending = d.pending /\ calls[p].op \in ForceNew
          /\ calls[p].step = "checked" /\ calls[p].pending = None
      BY <2>5 DEF FilesPending, FolderWritten, FreshId
    <3>2. f \notin moved => folders[f].pending = None
      BY <2>2, <2>5, <3>1 DEF PendingAsKnown, InitSteps, LockedSteps
    <3>3. QED
      BY <2>1, <2>5, <3>1, <3>2
  <2>6. CASE calls[p].folder = f /\ AdvancesPending(calls[p], d)
    <3>1. /\ folders'[f] # Missing /\ folders'[f].marker = folders[f].marker
          /\ folders'[f].pending = d.pending /\ calls[p].op \in ForceNew
          /\ calls[p].step \in InitSteps
      BY <2>6 DEF AdvancesPending, FolderWritten, Separating
    <3>2. f \notin moved => folders[f].pending = calls[p].pending
      BY <2>2, <2>6, <3>1 DEF PendingAsKnown
    <3>3. QED
      BY <2>1, <2>6, <3>1, <3>2
  <2>7. CASE calls[p].folder = f /\ CommitsMarker(calls[p])
    <3>1. /\ folders'[f] # Missing /\ folders'[f].marker = calls[p].id
          /\ folders'[f].pending = folders[f].pending
          /\ calls[p].op \in ForceNew /\ calls[p].step = "committed"
      BY <2>7 DEF CommitsMarker, FolderWritten
    <3>2. folders[f].marker = calls[p].marker /\ Separating(calls[p])
      BY <2>2, <2>7, <3>1 DEF MarkerAsRead, MarkerUnchanged, Starting, Separating, InitSteps,
                              LockedSteps, InitOps
    <3>3. QED
      BY <2>1, <2>7, <3>1, <3>2
  <2>8. CASE calls[p].folder = f /\ DropsPending(calls[p]) /\ d = None
    <3>1. /\ folders'[f] # Missing /\ folders'[f].marker = folders[f].marker
          /\ folders'[f].pending = None /\ calls[p].op \in ForceNew
          /\ calls[p].step \in {"finalize", "working"} /\ folders[f].marker = calls[p].id
      BY <2>8 DEF DropsPending, FolderWritten, BindingIsCurrent
    <3>2. ASSUME f \notin moved, folders[f].pending # None
          PROVE  folders[f].pending.id = calls[p].id
      <4>1. CASE calls[p].step = "finalize"
        <5>1. folders[f].pending = calls[p].pending
          BY <2>2, <2>8, <3>1, <3>2, <4>1 DEF PendingAsKnown, InitSteps, LockedSteps
        <5>2. QED
          BY <2>2, <3>2, <5>1 DEF Shape
      <4>2. CASE calls[p].step = "working"
        BY <2>2, <2>8, <3>1, <3>2, <4>2 DEF PendingAsKnown, InitSteps, LockedSteps
      <4>3. QED
        BY <3>1, <4>1, <4>2
    <3>3. QED
      BY <2>1, <2>8, <3>1, <3>2
  <2>9. QED
    BY <2>1, <2>3, <2>4, <2>5, <2>6, <2>7, <2>8
<1>3. QED
  BY <1>1, <1>2

(* The calls after a step of one of them. *)
LEMMA WhoRuns ==
    ASSUME RegTypeInv, NEW p \in Procs, NEW d, Becomes(p, d)
    PROVE  /\ calls'[p] = d
           /\ \A q \in Running' : q \in Procs /\ (q = p => d # None)
           /\ \A q \in Running' : q # p => /\ q \in Running /\ calls'[q] = calls[q]
                                           /\ calls[q] \in Call /\ Shape(calls[q])
BY CallRead DEF Becomes, Running, RegTypeInv, TypeOK

(* No other initialisation as a separate project begins in the folder. *)
LEMMA SeparatesStayAlone ==
    ASSUME SeparateRaces = FALSE, RegTypeInv, SeparateInv, NEW p \in Procs, NEW d, Acts(p, d)
    PROVE  SeparatesAlone'
<1>1. Becomes(p, d)
  BY DEF Acts
<1>2. ASSUME NEW q \in Running, q # p, d # None, d.op \in ForceNew, calls[q].op \in ForceNew
      PROVE  d.folder # calls[q].folder
  <2>1. CASE Opens(p, d)
    BY <1>2, <2>1 DEF Opens
  <2>2. CASE Continues(p, d)
    <3>1. p \in Running /\ calls[p].op = d.op /\ calls[p].folder = d.folder
      BY <2>2, NoneAssumption DEF Continues, SameJob, Running
    <3>2. QED
      BY <1>2, <3>1 DEF SeparateInv, SeparatesAlone
  <2>3. QED
    BY <1>2, <2>1, <2>2 DEF Acts
<1>3. ASSUME NEW q \in Running', NEW r \in Running', q # r,
             calls'[q].op \in ForceNew, calls'[r].op \in ForceNew
      PROVE  calls'[q].folder # calls'[r].folder
  <2>1. CASE q # p /\ r # p
    BY <1>1, <1>3, <2>1, WhoRuns DEF SeparateInv, SeparatesAlone
  <2>2. CASE q = p
    BY <1>1, <1>2, <1>3, <2>2, WhoRuns
  <2>3. CASE r = p
    BY <1>1, <1>2, <1>3, <2>3, WhoRuns
  <2>4. QED
    BY <2>1, <2>2, <2>3
<1>4. QED
  BY <1>3 DEF SeparatesAlone

(* A call that initialises a separate project still knows the pending file *)
(* in its folder, whatever the others do.                                  *)
LEMMA PendingStaysKnown ==
    ASSUME RegTypeInv, LockInv, SeparateInv, NEW p \in Procs, NEW d, Acts(p, d)
    PROVE  \A q \in Running' : PendingAsKnown(calls[q])'
<1>1. Becomes(p, d) /\ moved' = moved /\ moved \subseteq Folders
  BY DEF Acts, RegTypeInv, TypeOK
<1> SUFFICES ASSUME NEW q \in Running', calls'[q].op \in ForceNew, calls'[q].folder \notin moved
             PROVE  PendingAsKnown(calls[q])'
  BY <1>1 DEF PendingAsKnown
<1>2. CASE q # p
  <2>1. /\ q \in Running /\ calls'[q] = calls[q] /\ calls[q].folder \in Folders
        /\ calls[q].op \in ForceNew /\ calls[q].folder \notin moved
    BY <1>1, <1>2, WhoRuns DEF Call
  <2>2. PICK f \in Folders : f = calls[q].folder
    BY <2>1
  <2>3. folders[f] # Missing
    BY <2>1, <2>2 DEF SeparateInv, UntouchedIsThere
  <2>4. calls[p] \in Call /\ calls[p].op \in ForceNew => calls[p].folder # f
    <3>1. calls[p] \in Call => p \in Running
      BY NoneAssumption DEF Running
    <3>2. QED
      BY <1>2, <2>1, <2>2, <3>1 DEF SeparateInv, SeparatesAlone
  <2>5. PendingAsKnown(calls[q])
    BY <2>1 DEF SeparateInv
  <2>6. folders'[f].pending = folders[f].pending
    BY <2>3, <2>4, WhatIsWritten
  <2>7. CASE calls[q].step \in InitSteps
    BY <2>1, <2>2, <2>5, <2>6, <2>7 DEF PendingAsKnown
  <2>8. CASE calls[q].step \notin InitSteps
    <3>1. folders[f].pending # None /\ folders[f].pending.id = folders[f].marker
      BY <2>1, <2>2, <2>5, <2>8 DEF PendingAsKnown
    <3>2. folders[f].marker # None
      <4>1. folders[f].pending.id \in Ids
        BY <2>3, <3>1, FolderRead DEF Pending
      <4>2. QED
        BY <3>1, <4>1, RegistryAssumption
    <3>3. folders'[f].marker = folders[f].marker
      BY <2>3, <2>4, <3>2, WhatIsWritten DEF Separating
    <3>4. QED
      BY <2>1, <2>2, <2>6, <2>8, <3>1, <3>3 DEF PendingAsKnown
  <2>9. QED
    BY <2>7, <2>8
<1>3. CASE q = p
  <2>1. calls'[p] = d /\ d # None /\ d.op \in ForceNew /\ d.folder \notin moved
    BY <1>1, <1>3, WhoRuns
  <2>2. d \in Call /\ (Opens(p, d) \/ Continues(p, d))
    BY <2>1 DEF Acts, Opens, Continues
  <2>3. PICK f \in Folders : f = d.folder
    BY <2>2 DEF Call
  <2>4. folders[f] # Missing
    BY <2>1, <2>3 DEF SeparateInv, UntouchedIsThere
  <2>5. IF d.step \in InitSteps THEN folders'[f].pending = d.pending
        ELSE folders'[f].pending # None /\ folders'[f].pending.id = folders'[f].marker
    <3>1. CASE Opens(p, d)
      <4>1. folders' = folders
        BY <3>1 DEF Opens, disk
      <4>2. QED
        BY <2>1, <2>3, <3>1, <4>1 DEF Opens, InitSteps, LockedSteps, InitOps
    <3>2. CASE Continues(p, d)
      <4>1. /\ calls[p] \in Call /\ p \in Running /\ calls[p].op \in ForceNew
            /\ calls[p].folder = f /\ (calls[p].step \in InitSteps <=> d.step \in InitSteps)
        BY <2>1, <2>3, <3>2, NoneAssumption DEF Continues, SameJob, Running
      <4>2. PendingAsKnown(calls[p]) /\ f \notin moved
        BY <2>1, <2>3, <4>1 DEF SeparateInv
      <4>3. CASE d.step \in InitSteps
        <5>1. folders[f].pending = calls[p].pending
          BY <4>1, <4>2, <4>3 DEF PendingAsKnown
        <5>2. CASE folders'[f].pending = folders[f].pending
          <6>1. KeepsPending(calls[p], d) => d.pending = folders'[f].pending
            BY <2>1, <4>1, <5>1, <5>2, NoneAssumption DEF KeepsPending
          <6>2. FilesPending(calls[p], d) \/ AdvancesPending(calls[p], d) =>
                  d.pending = folders'[f].pending
            BY <4>1 DEF FilesPending, AdvancesPending, FolderWritten
          <6>3. QED
            BY <2>1, <4>3, <6>1, <6>2 DEF Acts
        <5>3. CASE folders'[f].pending # folders[f].pending
          BY <2>1, <2>4, <4>3, <5>3, WhatIsWritten
        <5>4. QED
          BY <4>3, <5>2, <5>3
      <4>4. CASE d.step \notin InitSteps
        <5>1. calls[p].step \notin InitSteps
          BY <4>1, <4>4
        <5>2. folders[f].pending # None /\ folders[f].pending.id = folders[f].marker
          BY <4>1, <4>2, <5>1 DEF PendingAsKnown
        <5>3. folders[f].marker # None
          <6>1. folders[f].pending.id \in Ids
            BY <2>4, <5>2, FolderRead DEF Pending
          <6>2. QED
            BY <5>2, <6>1, RegistryAssumption
        <5>4. ~FilesPending(calls[p], d) /\ ~AdvancesPending(calls[p], d) /\ ~Separating(calls[p])
          BY <5>1 DEF FilesPending, AdvancesPending, Separating, FreshId, InitSteps, LockedSteps
        <5>5. folders'[f].marker = folders[f].marker /\ folders'[f].pending = folders[f].pending
          BY <2>1, <2>4, <5>3, <5>4, WhatIsWritten
        <5>6. QED
          BY <4>4, <5>2, <5>5
      <4>5. QED
        BY <4>3, <4>4
    <3>3. QED
      BY <2>2, <3>1, <3>2
  <2>6. QED
    BY <1>3, <2>1, <2>3, <2>5 DEF PendingAsKnown
<1>4. QED
  BY <1>2, <1>3

(* No call makes a folder. *)
LEMMA NoFolderAppears ==
    ASSUME RegTypeInv, NEW p \in Procs, NEW d, Acts(p, d), NEW f \in Folders, folders'[f] # Missing
    PROVE  folders[f] # Missing
<1>1. calls[p] \in Call => calls[p].folder \in Folders
  BY DEF Call
<1>2. QED
  BY <1>1 DEF Acts, PlacesMarker, FilesPending, AdvancesPending, CommitsMarker, DropsPending,
              FolderWritten

(* The id of a call is new, one that it had, or one that its folder holds. *)
LEMMA WhereIdsComeFrom ==
    ASSUME RegTypeInv, NEW p \in Procs, NEW d, Acts(p, d), d # None
    PROVE  /\ d \in Call /\ d.folder \in Folders
           /\ \/ d.id = None
              \/ d.id \notin used
              \/ /\ calls[p] \in Call /\ d.id = calls[p].id /\ d.folder = calls[p].folder
                 /\ Separating(calls[p]) => Separating(d)
              \/ /\ UNCHANGED disk /\ folders[d.folder] # Missing
                 /\ d.id = folders[d.folder].marker
              \/ /\ UNCHANGED disk /\ folders[d.folder] # Missing /\ Separating(d)
                 /\ folders[d.folder].pending # None /\ d.id = folders[d.folder].pending.id
<1>1. d \in Call /\ (Opens(p, d) \/ Continues(p, d))
  BY DEF Acts, Opens, Continues
<1>2. d.folder \in Folders
  BY <1>1 DEF Call
<1>3. CASE Opens(p, d)
  BY <1>1, <1>2, <1>3 DEF Opens, Separating, InitSteps
<1>4. CASE Continues(p, d)
  BY <1>1, <1>2, <1>4 DEF Continues, SameJob, Separating
<1>5. QED
  BY <1>1, <1>3, <1>4

(* An id that is not written anywhere stays so until its call writes it. *)
LEMMA FreshStaysUnused ==
    ASSUME RegTypeInv, LockInv, SeparateInv, [Next]_vars, NEW p \in Procs, NEW d, Acts(p, d)
    PROVE  FreshIsUnused'
<1> DEFINE Unused(q, i) ==
             /\ \A r \in Running' \ {q} : calls'[r].id # i
             /\ \A f \in Folders : folders'[f] # Missing =>
                  /\ folders'[f].marker # i
                  /\ folders'[f].pending # None => folders'[f].pending.id # i
<1>1. Becomes(p, d) /\ used \subseteq Ids /\ None \notin used
  BY RegistryAssumption DEF Acts, RegTypeInv, TypeOK
<1>2. ASSUME NEW q \in Running', q # p, FreshId(calls'[q])
      PROVE  /\ calls'[q].step = "checked" => registry'[calls'[q].id] = None
                                              /\ registry'[calls'[q].marker] # None
             /\ Unused(q, calls'[q].id)
  <2>1. q \in Running /\ calls'[q] = calls[q] /\ calls[q] \in Call /\ Shape(calls[q])
    BY <1>1, <1>2, WhoRuns
  <2>2. PICK i : i = calls[q].id
    OBVIOUS
  <2>3. FreshId(calls[q]) /\ i \in used
    BY <1>2, <2>1, <2>2 DEF Shape, FreshId
  <2>4. /\ calls[q].step = "checked" => registry[i] = None /\ registry[calls[q].marker] # None
        /\ \A r \in Running \ {q} : calls[r].id # i
        /\ \A f \in Folders : folders[f] # Missing =>
             /\ folders[f].marker # i
             /\ folders[f].pending # None => folders[f].pending.id # i
    BY <2>1, <2>2, <2>3 DEF SeparateInv, FreshIsUnused
  <2>5. ASSUME calls[q].step = "checked"
        PROVE  registry'[i] = None /\ registry'[calls[q].marker] # None
    <3>1. calls[q].marker \in Ids /\ i \in Ids
      BY <1>1, <2>1, <2>3, <2>5 DEF Shape, FreshId, LockedSteps
    <3>2. registry'[i] = registry[i]
      <4>1. SUFFICES ASSUME registry'[i] # registry[i] PROVE FALSE
        OBVIOUS
      <4>2. PICK r \in Running :
              /\ i = calls[r].id
              /\ \/ calls[r].op \in InitOps /\ calls[r].step = "phased"
                 \/ calls[r].step = "write"
                 \/ calls[r].op = "setStorage" /\ calls[r].step = "checked"
        BY <3>1, <4>1, RegistryWriters
      <4>3. r = q
        BY <2>4, <4>2
      <4>4. QED
        BY <2>3, <2>5, <4>2, <4>3 DEF FreshId, ForceNew
    <3>3. registry'[calls[q].marker] # None
      BY <2>4, <2>5, <3>1, RegistryWriters
    <3>4. QED
      BY <2>4, <2>5, <3>2, <3>3
  <2>6. ASSUME NEW r \in Running' \ {q} PROVE calls'[r].id # i
    <3>1. CASE r # p
      BY <1>1, <2>4, <2>6, <3>1, WhoRuns
    <3>2. CASE r = p
      <4>1. calls'[p] = d /\ d # None
        BY <1>1, <3>2, WhoRuns
      <4>2. calls[p] \in Call => calls[p].id # i
        BY <1>2, <2>4, CallRead, NoneAssumption
      <4>3. QED
        BY <1>1, <2>3, <2>4, <3>2, <4>1, <4>2, WhereIdsComeFrom
    <3>3. QED
      BY <3>1, <3>2
  <2>7. ASSUME NEW f \in Folders, folders'[f] # Missing
        PROVE  /\ folders'[f].marker # i
               /\ folders'[f].pending # None => folders'[f].pending.id # i
    <3>1. folders[f] # Missing
      BY <2>7, NoFolderAppears
    <3>2. calls[p] \in Call => calls[p].id # i /\ Shape(calls[p])
      BY <1>2, <2>4, CallRead, NoneAssumption
    <3>3. folders'[f].marker # i
      BY <2>4, <3>1, <3>2, WhatIsWritten
    <3>4. /\ FilesPending(calls[p], d) => d.pending.id = calls[p].id
          /\ calls[p] \in Call /\ AdvancesPending(calls[p], d) => d.pending.id = calls[p].id
      BY <3>2, NoneAssumption DEF FilesPending, AdvancesPending, Shape
    <3>5. folders'[f].pending # None => folders'[f].pending.id # i
      BY <2>4, <3>1, <3>2, <3>4, WhatIsWritten
    <3>6. QED
      BY <3>3, <3>5
  <2>8. QED
    BY <2>1, <2>2, <2>5, <2>6, <2>7
<1>3. ASSUME p \in Running', FreshId(d)
      PROVE  /\ d.step = "checked" => registry'[d.id] = None /\ registry'[d.marker] # None
             /\ Unused(p, d.id)
  <2>1. d # None /\ (Opens(p, d) \/ Continues(p, d))
    BY <1>1, <1>3, WhoRuns DEF Acts
  <2>2. CASE Opens(p, d)
    <3>1. d.step = "claim" /\ d.id \notin used /\ d.id \in Ids /\ folders' = folders
      BY <1>3, <2>2 DEF Opens, FreshId, InitOps, ForceNew, disk
    <3>2. ASSUME NEW r \in Running' \ {p} PROVE calls'[r].id # d.id
      <4>1. calls'[r] = calls[r] /\ Shape(calls[r])
        BY <1>1, <3>2, WhoRuns
      <4>2. QED
        BY <3>1, <4>1, RegistryAssumption DEF Shape
    <3>3. ASSUME NEW f \in Folders, folders'[f] # Missing
          PROVE  /\ folders'[f].marker # d.id
                 /\ folders'[f].pending # None => folders'[f].pending.id # d.id
      BY <3>1, <3>3, FolderRead, RegistryAssumption
    <3>4. QED
      BY <3>1, <3>2, <3>3
  <2>3. CASE Continues(p, d)
    <3>1. /\ FreshId(calls[p]) /\ d.id = calls[p].id /\ calls[p] \in Call
          /\ folders' = folders /\ registry' = registry
          /\ registry[d.id] = None /\ registry[d.marker] # None
      BY <1>3, <2>3 DEF Continues, disk
    <3>2. p \in Running
      BY <3>1, NoneAssumption DEF Running
    <3>3. QED
      BY <1>1, <3>1, <3>2, WhoRuns DEF SeparateInv, FreshIsUnused
  <2>4. QED
    BY <2>1, <2>2, <2>3
<1>4. ASSUME NEW q \in Running', FreshId(calls'[q])
      PROVE  /\ calls'[q].step = "checked" => registry'[calls'[q].id] = None
                                              /\ registry'[calls'[q].marker] # None
             /\ Unused(q, calls'[q].id)
  <2>1. CASE q # p
    BY <1>2, <1>4, <2>1
  <2>2. CASE q = p
    <3>1. calls'[q] = d /\ p \in Running'
      BY <1>1, <2>2, WhoRuns
    <3>2. QED
      BY <1>3, <1>4, <2>2, <3>1
  <2>3. QED
    BY <2>1, <2>2
<1>5. QED
  BY <1>4 DEF FreshIsUnused, FreshId

(* A pending file in a folder that no user has moved is the one that was   *)
(* there, or the one that a call with a new id has just written.           *)
LEMMA PendingKeptOrFiled ==
    ASSUME RegTypeInv, LockInv, SeparateInv, NEW p \in Procs, NEW d, Acts(p, d),
           NEW f \in Folders \ moved, folders'[f].pending # None
    PROVE  /\ folders[f] # Missing /\ folders'[f] # Missing
           /\ \/ /\ folders[f].pending # None
                 /\ folders'[f].pending.id = folders[f].pending.id
                 /\ folders'[f].pending.prev = folders[f].pending.prev
                 /\ folders'[f].pending.storage = folders[f].pending.storage
                 /\ \/ folders'[f].pending.phase = folders[f].pending.phase
                    \/ /\ folders[f].pending.phase = "prepared"
                       /\ folders'[f].pending.phase = "repositoryInitialized"
                    \/ /\ folders[f].pending.phase # "registered"
                       /\ folders'[f].pending.phase = "registered"
              \/ /\ calls[p] \in Call /\ calls[p].folder = f /\ FilesPending(calls[p], d)
                 /\ folders[f].pending = None /\ folders'[f].pending = d.pending
                 /\ folders'[f].marker = folders[f].marker /\ registry' = registry
<1>1. folders[f] # Missing
  BY DEF SeparateInv, UntouchedIsThere
<1>2. CASE folders'[f].pending = folders[f].pending
  BY <1>1, <1>2, WhatIsWritten
<1>3. CASE folders'[f].pending # folders[f].pending
  <2>1. \/ /\ calls[p] \in Call /\ calls[p].folder = f /\ FilesPending(calls[p], d)
           /\ folders[f].pending = None /\ folders'[f].pending = d.pending
           /\ folders'[f].marker = folders[f].marker /\ registry' = registry
        \/ /\ AdvancesPending(calls[p], d) /\ folders'[f].pending = d.pending
           /\ folders[f].pending = calls[p].pending
    BY <1>1, <1>3, WhatIsWritten
  <2>2. folders'[f] # Missing
    BY <1>1, WhatIsWritten
  <2>3. QED
    BY <1>1, <2>1, <2>2, NoneAssumption DEF AdvancesPending
<1>4. QED
  BY <1>2, <1>3

(* A marker that is replaced where a pending file waits is replaced by the *)
(* id in that file.                                                        *)
LEMMA CommittedAsPending ==
    ASSUME RegTypeInv, LockInv, SeparateInv, NEW p \in Procs, NEW d, Acts(p, d),
           NEW f \in Folders \ moved, folders[f].pending # None,
           folders[f].marker # None, folders'[f].marker # folders[f].marker
    PROVE  folders'[f].marker = folders[f].pending.id
<1>1. folders[f] # Missing
  BY DEF SeparateInv, UntouchedIsThere
<1>2. /\ calls[p] \in Call /\ calls[p].folder = f /\ folders'[f].marker = calls[p].id
      /\ Separating(calls[p])
  BY <1>1, WhatIsWritten
<1>3. PendingAsKnown(calls[p]) /\ Shape(calls[p])
  BY <1>2, CallRead, NoneAssumption DEF SeparateInv
<1>4. folders[f].pending = calls[p].pending
  BY <1>2, <1>3 DEF PendingAsKnown, Separating
<1>5. QED
  BY <1>2, <1>3, <1>4 DEF Shape

(* The id in a pending file stays the folder's own. *)
LEMMA PendingIdStaysOwn ==
    ASSUME RegTypeInv, LockInv, SeparateInv, NEW p \in Procs, NEW d, Acts(p, d)
    PROVE  PendingIdIsOwn'
<1>1. Becomes(p, d) /\ moved' = moved /\ used \subseteq Ids /\ None \notin used
  BY RegistryAssumption DEF Acts, RegTypeInv, TypeOK
<1> SUFFICES ASSUME NEW f \in Folders \ moved, folders'[f].pending # None
             PROVE  /\ \A g \in Folders \ {f} : folders'[g] # Missing =>
                         /\ folders'[g].marker # folders'[f].pending.id
                         /\ folders'[g].pending # None =>
                              folders'[g].pending.id # folders'[f].pending.id
                    /\ \A q \in Running' : calls'[q].id = folders'[f].pending.id =>
                         /\ calls'[q].folder = f
                         /\ \/ folders'[f].marker = folders'[f].pending.id
                            \/ Separating(calls[q])'
  BY <1>1 DEF PendingIdIsOwn
<1>2. PICK i : i = folders'[f].pending.id
  OBVIOUS
<1>3. calls[p] \in Call => p \in Running /\ Shape(calls[p])
  BY CallRead, NoneAssumption
<1>4. CASE folders[f].pending # None /\ folders[f].pending.id = i
  <2>1. /\ \A g \in Folders \ {f} : folders[g] # Missing =>
             /\ folders[g].marker # i
             /\ folders[g].pending # None => folders[g].pending.id # i
        /\ \A q \in Running : calls[q].id = i =>
             /\ calls[q].folder = f
             /\ folders[f].marker = i \/ Separating(calls[q])
    BY <1>4 DEF SeparateInv, PendingIdIsOwn
  <2>2. folders[f] # Missing /\ i \in used
    BY <1>4, FolderRead DEF SeparateInv, UntouchedIsThere
  <2>3. folders[f].marker = i => folders'[f].marker = i
    BY <1>1, <1>4, <2>2, CommittedAsPending
  <2>4. ASSUME NEW g \in Folders \ {f}, folders'[g] # Missing
        PROVE  /\ folders'[g].marker # i
               /\ folders'[g].pending # None => folders'[g].pending.id # i
    <3>1. folders[g] # Missing
      BY <2>4, NoFolderAppears
    <3>2. calls[p] \in Call /\ calls[p].folder = g => calls[p].id # i
      BY <1>3, <2>1, <2>4
    <3>3. folders'[g].marker # i
      BY <2>1, <3>1, <3>2, WhatIsWritten
    <3>4. /\ FilesPending(calls[p], d) => d.pending.id = calls[p].id
          /\ calls[p] \in Call /\ AdvancesPending(calls[p], d) => d.pending.id = calls[p].id
      BY <1>3, NoneAssumption DEF FilesPending, AdvancesPending, Shape
    <3>5. folders'[g].pending # None => folders'[g].pending.id # i
      BY <2>1, <3>1, <3>2, <3>4, WhatIsWritten
    <3>6. QED
      BY <3>3, <3>5
  <2>5. ASSUME NEW q \in Running', calls'[q].id = i
        PROVE  calls'[q].folder = f /\ (folders'[f].marker = i \/ Separating(calls[q])')
    <3>1. CASE q # p
      <4>1. q \in Running /\ calls'[q] = calls[q]
        BY <1>1, <3>1, WhoRuns
      <4>2. calls[q].folder = f /\ (folders[f].marker = i \/ Separating(calls[q]))
        BY <2>1, <2>5, <4>1
      <4>3. QED
        BY <2>3, <4>1, <4>2 DEF Separating
    <3>2. CASE q = p
      <4>1. calls'[q] = d /\ d # None /\ d.id = i
        BY <1>1, <2>5, <3>2, WhoRuns
      <4>2. d.folder = f /\ (folders'[f].marker = i \/ Separating(d))
        <5>1. CASE /\ calls[p] \in Call /\ d.id = calls[p].id /\ d.folder = calls[p].folder
                   /\ Separating(calls[p]) => Separating(d)
          BY <1>3, <2>1, <2>3, <4>1, <5>1
        <5>2. CASE /\ UNCHANGED disk /\ folders[d.folder] # Missing
                   /\ d.id = folders[d.folder].marker /\ d.folder \in Folders
          BY <2>1, <2>3, <4>1, <5>2
        <5>3. CASE /\ UNCHANGED disk /\ folders[d.folder] # Missing /\ Separating(d)
                   /\ folders[d.folder].pending # None /\ d.id = folders[d.folder].pending.id
                   /\ d.folder \in Folders
          BY <2>1, <4>1, <5>3
        <5>4. QED
          BY <1>1, <2>2, <4>1, <5>1, <5>2, <5>3, WhereIdsComeFrom
      <4>3. QED
        BY <4>1, <4>2 DEF Separating
    <3>3. QED
      BY <3>1, <3>2
  <2>6. QED
    BY <1>2, <2>4, <2>5
<1>5. CASE /\ calls[p] \in Call /\ calls[p].folder = f /\ FilesPending(calls[p], d)
           /\ folders'[f].pending = d.pending
  <2>1. i = calls[p].id /\ FreshId(calls[p]) /\ calls[p].step = "checked" /\ p \in Running
    BY <1>2, <1>3, <1>5 DEF FilesPending
  <2>2. /\ \A q \in Running \ {p} : calls[q].id # i
        /\ \A g \in Folders : folders[g] # Missing =>
             /\ folders[g].marker # i
             /\ folders[g].pending # None => folders[g].pending.id # i
    BY <2>1 DEF SeparateInv, FreshIsUnused
  <2>3. ASSUME NEW g \in Folders \ {f}, folders'[g] # Missing
        PROVE  /\ folders'[g].marker # i
               /\ folders'[g].pending # None => folders'[g].pending.id # i
    <3>1. folders'[g] = folders[g]
      BY <1>5, <2>3 DEF FilesPending, FolderWritten
    <3>2. QED
      BY <2>2, <2>3, <3>1
  <2>4. ASSUME NEW q \in Running', calls'[q].id = i
        PROVE  calls'[q].folder = f /\ Separating(calls[q])'
    <3>1. q = p
      BY <1>1, <2>2, <2>4, WhoRuns
    <3>2. calls'[q] = d /\ Continues(p, d)
      BY <1>1, <1>5, <3>1, WhoRuns, NoneAssumption DEF Acts, Opens
    <3>3. d.folder = f /\ Separating(d)
      BY <1>5, <2>1, <3>2 DEF Continues, SameJob, Separating, FreshId, InitSteps, LockedSteps
    <3>4. QED
      BY <3>2, <3>3 DEF Separating
  <2>5. QED
    BY <1>2, <2>3, <2>4
<1>6. QED
  BY <1>2, <1>4, <1>5, PendingKeptOrFiled

(* What an initialisation left, a repetition can take up. *)
LEMMA ResumeStaysPossible ==
    ASSUME RegTypeInv, LockInv, SeparateInv, [Next]_vars, NEW p \in Procs, NEW d, Acts(p, d)
    PROVE  SeparateInitCanResume'
<1>1. moved' = moved /\ used \subseteq Ids /\ None \notin used /\ None \notin Ids
  BY RegistryAssumption DEF Acts, RegTypeInv, TypeOK
<1> SUFFICES ASSUME NEW f \in Folders \ moved, folders'[f].pending # None
             PROVE  /\ folders'[f].marker \in {folders'[f].pending.prev, folders'[f].pending.id}
                    /\ registry'[folders'[f].pending.prev] # None
                    /\ /\ folders'[f].marker = folders'[f].pending.prev
                       /\ registry'[folders'[f].pending.id] # None
                       => registry'[folders'[f].pending.id] =
                            [root |-> f, storage |-> folders'[f].pending.storage]
  BY <1>1 DEF SeparateInitCanResume
<1>2. CASE /\ folders[f].pending # None
           /\ folders'[f].pending.id = folders[f].pending.id
           /\ folders'[f].pending.prev = folders[f].pending.prev
           /\ folders'[f].pending.storage = folders[f].pending.storage
  <2>1. PICK x : x = folders[f].pending
    OBVIOUS
  <2>2. folders[f] # Missing /\ x \in Pending /\ x.prev # x.id /\ x.prev \in Ids /\ x.id \in Ids
    BY <1>2, <2>1, FolderRead DEF SeparateInv, UntouchedIsThere, Pending
  <2>3. /\ folders[f].marker \in {x.prev, x.id} /\ registry[x.prev] # None
        /\ folders[f].marker = x.prev /\ registry[x.id] # None =>
             registry[x.id] = [root |-> f, storage |-> x.storage]
    BY <1>2, <2>1 DEF SeparateInv, SeparateInitCanResume
  <2>4. folders'[f].marker = folders[f].marker \/ folders'[f].marker = x.id
    BY <1>1, <1>2, <2>1, <2>2, <2>3, CommittedAsPending
  <2>5. registry'[x.prev] # None
    BY <2>2, <2>3, RegistryWriters
  <2>6. ASSUME folders'[f].marker = x.prev, registry'[x.id] # None
        PROVE  registry'[x.id] = [root |-> f, storage |-> x.storage]
    <3>1. folders[f].marker = x.prev
      BY <2>2, <2>4, <2>6
    <3>2. CASE registry'[x.id] = registry[x.id]
      BY <2>3, <2>6, <3>1, <3>2
    <3>3. CASE registry'[x.id] # registry[x.id]
      <4>1. PICK r \in Running :
              /\ x.id = calls[r].id
              /\ registry'[x.id] = [root |-> calls[r].folder, storage |-> calls[r].storage]
              /\ \/ calls[r].op \in InitOps /\ calls[r].step = "phased"
                 \/ calls[r].step = "write"
                 \/ calls[r].op = "setStorage" /\ calls[r].step = "checked"
        BY <2>2, <3>3, RegistryWriters
      <4>2. calls[r].folder = f /\ Separating(calls[r])
        BY <1>2, <2>1, <2>2, <3>1, <4>1 DEF SeparateInv, PendingIdIsOwn
      <4>3. calls[r].op \in ForceNew /\ calls[r].step = "phased"
        BY <4>1, <4>2 DEF Separating, InitSteps, LockedSteps, ForceNew
      <4>4. PendingAsKnown(calls[r]) /\ Shape(calls[r])
        BY DEF SeparateInv, RegTypeInv
      <4>5. calls[r].pending = x
        BY <2>1, <4>2, <4>4 DEF PendingAsKnown, Separating
      <4>6. calls[r].storage = x.storage
        BY <2>2, <4>3, <4>4, <4>5, NoneAssumption DEF Shape, LockedSteps
      <4>7. QED
        BY <4>1, <4>2, <4>6
    <3>4. QED
      BY <3>2, <3>3
  <2>7. QED
    BY <1>2, <2>1, <2>3, <2>4, <2>5, <2>6
<1>3. CASE /\ calls[p] \in Call /\ calls[p].folder = f /\ FilesPending(calls[p], d)
           /\ folders'[f].pending = d.pending
           /\ folders'[f].marker = folders[f].marker /\ registry' = registry
  <2>1. /\ FreshId(calls[p]) /\ calls[p].step = "checked" /\ calls[p].op \in ForceNew
        /\ d.pending.prev = calls[p].marker /\ d.pending.id = calls[p].id
    BY <1>3 DEF FilesPending, FreshId
  <2>2. p \in Running /\ MarkerAsRead(calls[p])
    BY <1>3, CallRead, NoneAssumption DEF LockInv
  <2>3. folders[f].marker = calls[p].marker
    BY <1>3, <2>1, <2>2 DEF MarkerAsRead, MarkerUnchanged, Starting, InitSteps, LockedSteps,
       InitOps
  <2>4. registry[calls[p].id] = None /\ registry[calls[p].marker] # None
    BY <2>1, <2>2 DEF SeparateInv, FreshIsUnused
  <2>5. QED
    BY <1>3, <2>1, <2>3, <2>4
<1>4. QED
  BY <1>2, <1>3, PendingKeptOrFiled

(* The registry, a marker or a pending file has the id. *)
CanBeFound(i) ==
    \/ registry[i] # None \/ moved # {}
    \/ \E f \in Folders : /\ folders[f] # Missing
                          /\ \/ folders[f].marker = i
                             \/ folders[f].pending # None /\ folders[f].pending.id = i

(* A repository that can be found can still be found after a step. *)
LEMMA StaysFound ==
    ASSUME RegTypeInv, LockInv, SeparateInv, [Next]_vars, NEW p \in Procs, NEW d, Acts(p, d),
           NEW i \in Ids, CanBeFound(i)
    PROVE  CanBeFound(i)'
<1>1. moved' = moved /\ None \notin Ids
  BY RegistryAssumption DEF Acts
<1>2. CASE registry[i] # None
  BY <1>2, RegistryWriters DEF CanBeFound
<1>3. CASE moved # {}
  BY <1>1, <1>3 DEF CanBeFound
<1>4. CASE registry[i] = None /\ moved = {}
  <2>1. PICK f \in Folders : /\ folders[f] # Missing
                             /\ \/ folders[f].marker = i
                                \/ folders[f].pending # None /\ folders[f].pending.id = i
    BY <1>4 DEF CanBeFound
  <2>2. folders'[f] # Missing /\ f \notin moved
    BY <1>4, <2>1, WhatIsWritten
  <2>3. CASE folders[f].marker = i
    <3>1. folders'[f].marker = i
      <4>1. SUFFICES ASSUME folders'[f].marker # folders[f].marker PROVE FALSE
        BY <2>3
      <4>2. /\ calls[p] \in Call /\ calls[p].folder = f /\ Separating(calls[p])
            /\ calls[p].step = "committed" /\ folders[f].marker = calls[p].marker
        BY <1>1, <2>1, <2>3, <4>1, WhatIsWritten
      <4>3. PendingAsKnown(calls[p]) /\ Shape(calls[p])
        BY <4>2, CallRead, NoneAssumption DEF SeparateInv
      <4>4. folders[f].pending = calls[p].pending
        BY <2>2, <4>2, <4>3 DEF PendingAsKnown, Separating
      <4>5. calls[p].pending # None /\ calls[p].pending.id # calls[p].marker
        BY <4>2, <4>3 DEF Shape, LockedSteps
      <4>6. /\ folders[f].marker \in {calls[p].pending.prev, calls[p].pending.id}
            /\ registry[calls[p].pending.prev] # None
        BY <2>2, <4>4, <4>5 DEF SeparateInv, SeparateInitCanResume
      <4>7. QED
        BY <1>4, <2>3, <4>2, <4>5, <4>6
    <3>2. QED
      BY <2>2, <3>1 DEF CanBeFound
  <2>4. CASE folders[f].pending # None /\ folders[f].pending.id = i
    <3>1. folders'[f].pending # None
      <4>1. SUFFICES ASSUME folders'[f].pending = None PROVE FALSE
        OBVIOUS
      <4>2. DropsPending(calls[p]) /\ calls[p].id = i
        BY <2>1, <2>2, <2>4, <4>1, WhatIsWritten, NoneAssumption DEF FilesPending,
           AdvancesPending
      <4>3. QED
        BY <1>4, <4>2 DEF DropsPending, BindingIsCurrent
    <3>2. folders'[f].pending.id = i
      BY <2>2, <2>4, <3>1, PendingKeptOrFiled
    <3>3. QED
      BY <2>2, <3>1, <3>2 DEF CanBeFound
  <2>5. QED
    BY <2>1, <2>3, <2>4
<1>5. QED
  BY <1>2, <1>3, <1>4

(* The registry and the repositories still match after a step. *)
LEMMA RepositoriesStayMatched ==
    ASSUME RegTypeInv, LockInv, SeparateInv, [Next]_vars, NEW p \in Procs, NEW d, Acts(p, d),
           repos' \subseteq Storages \X Ids
    PROVE  RegistryMatchesRepositories'
<1>1. UNCHANGED <<lost, moved>> /\ repos \subseteq repos' /\ repos \subseteq Storages \X Ids
  BY DEF Acts, RegTypeInv, TypeOK
<1>2. ASSUME NEW i \in Ids, registry'[i] # None, i \notin lost
      PROVE  <<registry'[i].storage, i>> \in repos'
  <2>1. CASE registry'[i] = registry[i]
    BY <1>1, <1>2, <2>1 DEF SeparateInv, RegistryMatchesRepositories
  <2>2. CASE registry'[i] # registry[i]
    <3>1. PICK r \in Running :
            /\ i = calls[r].id
            /\ registry'[i] = [root |-> calls[r].folder, storage |-> calls[r].storage]
            /\ \/ calls[r].op \in InitOps /\ calls[r].step = "phased"
               \/ calls[r].step = "write"
               \/ calls[r].op = "setStorage" /\ calls[r].step = "checked"
      BY <2>2, RegistryWriters
    <3>2. <<calls[r].storage, calls[r].id>> \in repos
      BY <3>1 DEF LockInv, RepositoryThere
    <3>3. registry'[i].storage = calls[r].storage
      BY <3>1
    <3>4. QED
      BY <1>1, <3>1, <3>2, <3>3
  <2>3. QED
    BY <2>1, <2>2
<1>3. ASSUME NEW r \in repos' PROVE CanBeFound(r[2])'
  <2>1. PICK s \in Storages, i \in Ids : r = <<s, i>>
    OBVIOUS
  <2>2. CASE r \in repos
    <3>1. CanBeFound(r[2]) /\ r[2] = i
      BY <2>1, <2>2 DEF SeparateInv, RegistryMatchesRepositories, CanBeFound
    <3>2. QED
      BY <3>1, StaysFound
  <2>3. CASE r \notin repos
    <3>1. /\ calls[p] \in Call /\ calls[p].op \in InitOps /\ calls[p].step = "reserved"
          /\ r = <<calls[p].storage, calls[p].id>> /\ UNCHANGED <<folders, registry>>
      BY <2>3 DEF Acts
    <3>2. r[2] = calls[p].id
      BY <3>1
    <3>3. PICK f \in Folders : f = calls[p].folder
      BY <3>1 DEF Call
    <3>4. MarkerAsRead(calls[p]) /\ PendingAsKnown(calls[p]) /\ Shape(calls[p])
      BY <3>1, CallRead, NoneAssumption DEF LockInv, SeparateInv
    <3>5. folders[f] # Missing
      BY <3>1, <3>3, <3>4 DEF Shape, Starting, InitSteps, LockedSteps
    <3>6. CASE calls[p].op = "init"
      <4>1. folders[f].marker = calls[p].id
        BY <3>1, <3>3, <3>4, <3>6 DEF MarkerAsRead, Starting, InitSteps, LockedSteps
      <4>2. QED
        BY <3>1, <3>2, <3>5, <4>1 DEF CanBeFound
    <3>7. CASE calls[p].op \in ForceNew
      <4>1. CASE f \in moved
        BY <1>1, <4>1 DEF CanBeFound
      <4>2. CASE f \notin moved
        <5>1. folders[f].pending = calls[p].pending /\ calls[p].pending # None
          BY <3>1, <3>3, <3>4, <3>7, <4>2 DEF PendingAsKnown, Shape, Separating, InitSteps,
             LockedSteps
        <5>2. calls[p].pending.id = calls[p].id
          BY <3>4, <5>1 DEF Shape
        <5>3. QED
          BY <3>1, <3>2, <3>5, <5>1, <5>2 DEF CanBeFound
      <4>3. QED
        BY <4>1, <4>2
    <3>8. QED
      BY <3>1, <3>6, <3>7 DEF InitOps
  <2>4. QED
    BY <2>2, <2>3
<1>4. QED
  BY <1>1, <1>2, <1>3 DEF RegistryMatchesRepositories, CanBeFound

(* Users put in a folder what another one holds, and then both are moved;  *)
(* a repository they take away is lost.                                    *)
LEMMA SeparateUsers ==
    ASSUME RegTypeInv, SeparateInv, Users
    PROVE  SeparateInv'
<1>1. UNCHANGED <<registry, calls>> /\ Running' = Running
  BY UsersDo DEF Running
<1>2. /\ moved \subseteq moved' /\ lost \subseteq lost' /\ repos' \subseteq Storages \X Ids
      /\ \A f \in Folders \ moved' : folders'[f] = folders[f]
      /\ \A f \in Folders : folders'[f] # folders[f] =>
           \/ folders'[f] = Missing
           \/ \E g \in moved' : folders'[f] = folders[g] /\ folders[g] # Missing
      /\ \A s \in Storages, i \in Ids : <<s, i>> \in repos => <<s, i>> \in repos' \/ i \in lost'
      /\ \A s \in Storages, i \in Ids :
           <<s, i>> \in repos' => \E t \in Storages : <<t, i>> \in repos
      /\ folders' = folders \/ moved' # {}
      /\ moved' \subseteq Folders
  BY UsersDo DEF UsersChange
<1>3. UntouchedIsThere' /\ SeparatesAlone'
  BY <1>1, <1>2 DEF SeparateInv, UntouchedIsThere, SeparatesAlone
<1>4. \A q \in Running' : PendingAsKnown(calls[q])'
  <2>1. ASSUME NEW q \in Running, calls[q].folder \notin moved' PROVE PendingAsKnown(calls[q])'
    <3>1. calls[q].folder \in Folders /\ PendingAsKnown(calls[q])
      BY CallRead DEF Running, Call, SeparateInv
    <3>2. folders'[calls[q].folder] = folders[calls[q].folder] /\ calls[q].folder \notin moved
      BY <1>2, <2>1, <3>1
    <3>3. QED
      BY <1>1, <3>1, <3>2 DEF PendingAsKnown
  <2>2. QED
    BY <1>1, <2>1 DEF PendingAsKnown
<1>5. FreshIsUnused'
  <2>1. ASSUME NEW q \in Running, FreshId(calls[q]), NEW f \in Folders, folders'[f] # Missing
        PROVE  /\ folders'[f].marker # calls[q].id
               /\ folders'[f].pending # None => folders'[f].pending.id # calls[q].id
    <3>1. PICK g \in Folders : folders'[f] = folders[g] /\ folders[g] # Missing
      BY <1>2, <2>1
    <3>2. QED
      BY <2>1, <3>1 DEF SeparateInv, FreshIsUnused
  <2>2. QED
    BY <1>1, <2>1 DEF SeparateInv, FreshIsUnused, FreshId
<1>6. PendingIdIsOwn'
  <2>1. ASSUME NEW f \in Folders \ moved', folders'[f].pending # None
        PROVE  /\ f \notin moved /\ folders'[f] = folders[f] /\ folders[f].pending # None
               /\ \A g \in Folders \ {f} : folders'[g] # Missing =>
                    /\ folders'[g].marker # folders[f].pending.id
                    /\ folders'[g].pending # None =>
                         folders'[g].pending.id # folders[f].pending.id
    <3>1. f \notin moved /\ folders'[f] = folders[f]
      BY <1>2, <2>1
    <3>2. ASSUME NEW g \in Folders \ {f}, folders'[g] # Missing
          PROVE  \E h \in Folders \ {f} : folders'[g] = folders[h] /\ folders[h] # Missing
      BY <1>2, <2>1, <3>2
    <3>3. QED
      BY <2>1, <3>1, <3>2 DEF SeparateInv, PendingIdIsOwn
  <2>2. QED
    BY <1>1, <2>1 DEF SeparateInv, PendingIdIsOwn, Separating
<1>7. SeparateInitCanResume'
  BY <1>1, <1>2 DEF SeparateInv, SeparateInitCanResume
<1>8. RegistryMatchesRepositories'
  <2>1. ASSUME NEW i \in Ids, registry[i] # None, i \notin lost'
        PROVE  <<registry[i].storage, i>> \in repos'
    <3>1. registry[i].storage \in Storages
      BY <2>1 DEF RegTypeInv, TypeOK, Registry, Entry
    <3>2. <<registry[i].storage, i>> \in repos
      BY <1>2, <2>1 DEF SeparateInv, RegistryMatchesRepositories
    <3>3. QED
      BY <1>2, <2>1, <3>1, <3>2
  <2>2. ASSUME NEW r \in repos' PROVE CanBeFound(r[2])'
    <3>1. PICK s \in Storages, i \in Ids : r = <<s, i>>
      BY <1>2
    <3>2. PICK t \in Storages : <<t, i>> \in repos
      BY <1>2, <3>1
    <3>3. PICK u \in repos : u = <<t, i>>
      BY <3>2
    <3>4. CanBeFound(u[2]) /\ u[2] = i /\ r[2] = i
      BY <3>1, <3>3 DEF SeparateInv, RegistryMatchesRepositories, CanBeFound
    <3>5. QED
      BY <1>1, <1>2, <3>4 DEF CanBeFound
  <2>3. QED
    BY <1>1, <2>1, <2>2 DEF RegistryMatchesRepositories, CanBeFound
<1>9. QED
  BY <1>3, <1>4, <1>5, <1>6, <1>7, <1>8 DEF SeparateInv

(* At the start, folders have no pending file. *)
LEMMA SeparateInit == Init => SeparateInv
<1> SUFFICES ASSUME Init PROVE SeparateInv
  OBVIOUS
<1> USE RegistryAssumption
<1>1. Running = {} /\ UntouchedIsThere
  BY DEF Init, Running, UntouchedIsThere
<1>2. \A f \in Folders : folders[f] # Missing => folders[f].pending = None
  BY DEF Init, Fresh
<1>3. PendingIdIsOwn /\ SeparateInitCanResume
  BY <1>1, <1>2 DEF PendingIdIsOwn, SeparateInitCanResume, UntouchedIsThere
<1>4. RegistryMatchesRepositories
  <2>1. CASE registry = [i \in Ids |-> None] /\ repos = {}
    BY <2>1 DEF RegistryMatchesRepositories
  <2>2. CASE \E i \in Ids, f \in Folders :
               /\ registry = [j \in Ids |-> IF j = i THEN [root |-> f, storage |-> Default]
                                            ELSE None]
               /\ repos \in {{}, {<<Default, i>>}} /\ used = {i}
    <3>1. PICK i \in Ids, f \in Folders :
               /\ registry = [j \in Ids |-> IF j = i THEN [root |-> f, storage |-> Default]
                                            ELSE None]
               /\ repos \in {{}, {<<Default, i>>}} /\ used = {i}
      BY <2>2
    <3>2. /\ registry[i].storage = Default /\ registry[i] # None
          /\ \A j \in Ids : registry[j] # None => j = i
      <4>1. [root |-> f, storage |-> Default] \in Entry
        BY DEF Entry
      <4>2. PICK e : e = [root |-> f, storage |-> Default] /\ e # None
        BY <4>1, NoneAssumption
      <4>3. registry = [j \in Ids |-> IF j = i THEN e ELSE None]
        BY <3>1, <4>2
      <4>4. registry[i] = e /\ e.storage = Default
        BY <4>2, <4>3
      <4>5. QED
        BY <4>2, <4>3, <4>4
    <3>3. lost = {j \in used : <<Default, j>> \notin repos}
      BY DEF Init
    <3>4. \A j \in Ids : registry[j] # None /\ j \notin lost => <<registry[j].storage, j>> \in repos
      BY <3>1, <3>2, <3>3
    <3>5. \A r \in repos : registry[r[2]] # None
      <4>1. \A r \in repos : r = <<Default, i>>
        BY <3>1
      <4>2. QED
        BY <3>2, <4>1
    <3>6. QED
      BY <3>4, <3>5 DEF RegistryMatchesRepositories
  <2>3. QED
    BY <2>1, <2>2 DEF Init
<1>5. QED
  BY <1>1, <1>3, <1>4 DEF SeparateInv, SeparatesAlone, FreshIsUnused

(* Initialisation as a separate project keeps its files and ids in order,  *)
(* provided that two of them do not overlap in one folder.                 *)
LEMMA SeparateStep ==
    ASSUME SeparateRaces = FALSE
    PROVE  RegTypeInv /\ RegTypeInv' /\ LockInv /\ SeparateInv /\ [Next]_vars => SeparateInv'
<1> SUFFICES ASSUME RegTypeInv, RegTypeInv', LockInv, SeparateInv, [Next]_vars PROVE SeparateInv'
  OBVIOUS
<1>1. CASE UNCHANGED vars
  BY <1>1 DEF vars, disk, world, SeparateInv, UntouchedIsThere, SeparatesAlone, PendingAsKnown,
     FreshIsUnused, FreshId, PendingIdIsOwn, Separating, SeparateInitCanResume,
     RegistryMatchesRepositories, Running
<1>2. ASSUME NEW p \in Procs, NEW d, Acts(p, d) PROVE SeparateInv'
  <2>1. UntouchedIsThere'
    <3>1. moved' = moved
      BY <1>2 DEF Acts
    <3>2. QED
      BY <1>2, <3>1, WhatIsWritten DEF SeparateInv, UntouchedIsThere
  <2>2. repos' \subseteq Storages \X Ids
    BY DEF RegTypeInv, TypeOK
  <2>3. SeparatesAlone' /\ \A q \in Running' : PendingAsKnown(calls[q])'
    BY <1>2, SeparatesStayAlone, PendingStaysKnown
  <2>4. FreshIsUnused' /\ PendingIdIsOwn'
    BY <1>2, FreshStaysUnused, PendingIdStaysOwn
  <2>5. SeparateInitCanResume' /\ RegistryMatchesRepositories'
    BY <1>2, <2>2, ResumeStaysPossible, RepositoriesStayMatched
  <2>6. QED
    BY <2>1, <2>3, <2>4, <2>5 DEF SeparateInv
<1>3. QED
  BY <1>1, <1>2, SeparateUsers, CallsAct

(* In every reachable state the registry sends no project to a storage     *)
(* root without its repository, unless a user took that away, and every    *)
(* repository can be found, provided that separate initialisations of one  *)
(* folder do not overlap.                                                  *)
THEOREM RegistryIsMatched ==
    ASSUME SeparateRaces = FALSE
    PROVE  Spec => []RegistryMatchesRepositories
<1>1. RegTypeInv /\ RegTypeInv' /\ LockInv /\ SeparateInv /\ [Next]_vars => SeparateInv'
  BY SeparateStep
<1>2. SeparateInv => RegistryMatchesRepositories
  BY DEF SeparateInv
<1>3. QED
  BY <1>1, <1>2, SeparateInit, RegTypeInit, RegTypeStep, LockInit, LockStep, PTL DEF Spec

(* In every reachable state, an initialisation as a separate project that  *)
(* was cut off can be taken up by a repetition, provided that separate     *)
(* initialisations of one folder do not overlap.                           *)
THEOREM SeparateInitResumes ==
    ASSUME SeparateRaces = FALSE
    PROVE  Spec => []SeparateInitCanResume
<1>1. RegTypeInv /\ RegTypeInv' /\ LockInv /\ SeparateInv /\ [Next]_vars => SeparateInv'
  BY SeparateStep
<1>2. SeparateInv => SeparateInitCanResume
  BY DEF SeparateInv
<1>3. QED
  BY <1>1, <1>2, SeparateInit, RegTypeInit, RegTypeStep, LockInit, LockStep, PTL DEF Spec

(* In every step, an initialisation as a separate project keeps the id and *)
(* the storage root in its pending file and goes back to no earlier phase, *)
(* provided that separate initialisations of one folder do not overlap.    *)
THEOREM SeparateInitAdvances ==
    ASSUME SeparateRaces = FALSE
    PROVE  Spec => SeparateInitGoesOn
<1>1. RegTypeInv /\ RegTypeInv' /\ LockInv /\ SeparateInv /\ [Next]_vars => SeparateInv'
  BY SeparateStep
<1>2. RegTypeInv /\ LockInv /\ SeparateInv /\ [Next]_vars =>
        [\A f \in Folders \ moved :
           LET old == folders[f].pending new == folders'[f].pending
           IN folders'[f] # Missing /\ old # None /\ new # None =>
                /\ new.id = old.id /\ new.storage = old.storage
                /\ PhaseOrder[old.phase] <= PhaseOrder[new.phase]]_vars
  <2> SUFFICES ASSUME RegTypeInv, LockInv, SeparateInv, [Next]_vars, NEW f \in Folders \ moved,
                      folders'[f] # Missing, folders[f].pending # None, folders'[f].pending # None
               PROVE  /\ folders'[f].pending.id = folders[f].pending.id
                      /\ folders'[f].pending.storage = folders[f].pending.storage
                      /\ PhaseOrder[folders[f].pending.phase] <= PhaseOrder[folders'[f].pending.phase]
    OBVIOUS
  <2>1. folders[f] # Missing /\ folders[f].pending.phase \in
          {"prepared", "repositoryInitialized", "registered"}
    BY FolderRead DEF SeparateInv, UntouchedIsThere, Pending
  <2>2. /\ PhaseOrder["prepared"] = 1 /\ PhaseOrder["repositoryInitialized"] = 2
        /\ PhaseOrder["registered"] = 3
    BY DEF PhaseOrder
  <2>3. CASE folders'[f] = folders[f]
    BY <2>1, <2>2, <2>3
  <2>4. ASSUME NEW p \in Procs, NEW d, Acts(p, d)
        PROVE  /\ folders'[f].pending.id = folders[f].pending.id
               /\ folders'[f].pending.storage = folders[f].pending.storage
               /\ \/ folders'[f].pending.phase = folders[f].pending.phase
                  \/ /\ folders[f].pending.phase = "prepared"
                     /\ folders'[f].pending.phase = "repositoryInitialized"
                  \/ /\ folders[f].pending.phase # "registered"
                     /\ folders'[f].pending.phase = "registered"
    BY <2>4, PendingKeptOrFiled
  <2>5. ASSUME NEW p \in Procs, NEW d, Acts(p, d)
        PROVE  PhaseOrder[folders[f].pending.phase] <= PhaseOrder[folders'[f].pending.phase]
    BY <2>1, <2>2, <2>4, <2>5
  <2>6. UNCHANGED vars \/ Users => folders'[f] = folders[f]
    BY <2>1, UsersDo DEF vars, disk, UsersChange
  <2>7. QED
    BY <2>3, <2>4, <2>5, <2>6, CallsAct
<1>3. QED
  BY <1>1, <1>2, SeparateInit, RegTypeInit, RegTypeStep, LockInit, LockStep, PTL
     DEF Spec, SeparateInitGoesOn
=============================================================================
