--------------------------- MODULE ProjectRegistry ---------------------------
(***************************************************************************)
(* Which folder owns which checkpoint repository: the marker in a project  *)
(* folder, the pending file of an initialisation as a separate project,    *)
(* and the registry that maps a project id to its folder and its storage   *)
(* root, changed by several processes while users copy, move and delete    *)
(* folders and repositories.                                               *)
(*                                                                         *)
(* Every lock is tried, never waited for: a call that meets one ends.      *)
(* Locks that are taken one after the other with nothing read in between   *)
(* are taken in one step.  Users change folders and repositories only      *)
(* while no call holds a lock.                                             *)
(***************************************************************************)
EXTENDS Integers, FiniteSets

CONSTANTS
    None, Missing,
    Procs,           \* processes that run calls
    Folders,         \* project folders
    Ids,             \* project ids
    Storages,        \* storage roots
    Default,         \* the one used when none is asked for
    Requests,        \* the ones an initialisation may ask for
    MaxCalls,        \* bound on calls
    MaxUser,         \* bound on what users do to folders and repositories
    SeparateRaces,   \* whether separate initialisations of a folder may overlap
    MarkerRaces      \* whether a marker may change between its two reads by a call

ASSUME RegistryAssumption ==
    /\ Default \in Storages /\ Requests \subseteq Storages
    /\ None \notin Folders \cup Ids \cup Storages \cup Procs
    /\ MaxCalls \in Nat /\ MaxUser \in Nat
    /\ SeparateRaces \in BOOLEAN /\ MarkerRaces \in BOOLEAN
    /\ IsFiniteSet(Ids) /\ Ids # {}

VARIABLES
    folders,    \* marker and pending file of each project folder
    registry,   \* the registry file
    repos,      \* repositories: storage root and project id
    calls,      \* the call each process is in, or None
    used,       \* ids handed out
    begun,      \* calls so far
    user,       \* changes by users so far
    (* for the properties *)
    lost,       \* ids whose repository a user moved or deleted
    moved       \* folders that a user copied, moved or deleted

disk == <<folders, registry, repos>>
world == <<used, begun, user, lost, moved>>
vars == <<disk, calls, world>>

-----------------------------------------------------------------------------
(* Types. *)

ForceNew == {"separate", "afterLoss"}
InitOps  == {"init"} \cup ForceNew
LoadOps  == {"load", "confirm", "mutate"}
Ops      == InitOps \cup LoadOps \cup {"setStorage"}

Pending == [prev : Ids, id : Ids, storage : Storages, reason : ForceNew,
            phase : {"prepared", "repositoryInitialized", "registered"}]
Folder == [marker : Ids \cup {None}, pending : Pending \cup {None}]
Entry == [root : Folders, storage : Storages]
Registry == [Ids -> Entry \cup {None}]

Steps == {"claim", "checked", "reserved", "laidOut", "phased", "registered",
          "committed", "finalize", "load", "refresh", "refreshClaimed", "write",
          "lock", "locked", "working"}

Call == [op : Ops, folder : Folders, req : Storages \cup {None}, step : Steps,
         id : Ids \cup {None},         \* the project id it works for
         marker : Ids \cup {None},     \* the marker it read first
         pending : Pending \cup {None},
         storage : Storages \cup {None},
         seen : Registry \cup {None},  \* the registry as it read it
         claims : SUBSET Ids,          \* location locks held alone
         share : Ids \cup {None},      \* location lock held with others
         regLock : BOOLEAN,
         repoLocks : SUBSET (Storages \X Ids)]

ASSUME NoneAssumption ==
    /\ None \notin Pending /\ None \notin Entry /\ None \notin Call
    /\ None \notin Registry /\ Missing \notin Folder

TypeOK ==
    /\ folders \in [Folders -> Folder \cup {Missing}]
    /\ registry \in Registry
    /\ repos \subseteq Storages \X Ids
    /\ calls \in [Procs -> Call \cup {None}]
    /\ used \subseteq Ids /\ begun \in 0..MaxCalls /\ user \in 0..MaxUser
    /\ lost \subseteq Ids /\ moved \subseteq Folders
    /\ \A f \in Folders : folders[f] # Missing =>
         /\ folders[f].marker \in used \cup {None}
         /\ folders[f].pending # None => folders[f].pending.prev # folders[f].pending.id

Fresh == [marker |-> None, pending |-> None]

(* New folders only, or one registered project, which users may have       *)
(* copied or removed.                                                      *)
Init ==
    /\ \/ registry = [i \in Ids |-> None] /\ repos = {} /\ used = {}
          /\ folders \in [Folders -> {Fresh, Missing}]
       \/ \E i \in Ids, f \in Folders :
            /\ registry = [j \in Ids |-> IF j = i THEN [root |-> f, storage |-> Default]
                                         ELSE None]
            /\ repos \in {{}, {<<Default, i>>}} /\ used = {i}
            /\ folders \in [Folders -> {Missing, [Fresh EXCEPT !.marker = i]}]
    /\ lost = {i \in used : <<Default, i>> \notin repos}
    /\ moved = {f \in Folders : folders[f] = Missing}
    /\ calls = [p \in Procs |-> None] /\ begun = 0 /\ user = 0

-----------------------------------------------------------------------------
(* Locks. *)

Running == {p \in Procs : calls[p] # None}

ClaimFree(p, ids) ==
    \A q \in Running \ {p} : calls[q].claims \cap ids = {} /\ calls[q].share \notin ids
ShareFree(p, i) == \A q \in Running \ {p} : i \notin calls[q].claims
ReposFree(p, rs) == \A q \in Running \ {p} : calls[q].repoLocks \cap rs = {}

RegistryFree(p) == \A q \in Running \ {p} : ~calls[q].regLock

Held(c) == c.claims # {} \/ c.share # None \/ c.regLock \/ c.repoLocks # {}

-----------------------------------------------------------------------------
(* Calls. *)

Update(p, c) == calls' = [calls EXCEPT ![p] = c] /\ UNCHANGED world
End(p) == calls' = [calls EXCEPT ![p] = None] /\ UNCHANGED world
Step(p, s) == Update(p, [calls[p] EXCEPT !.step = s])

(* A call begins with what it reads before any lock; one that is refused   *)
(* there changes nothing.                                                  *)
NewCall(op, f, req) ==
    [op |-> op, folder |-> f, req |-> req, step |-> "claim", id |-> None,
     marker |-> None, pending |-> None, storage |-> None, seen |-> None,
     claims |-> {}, share |-> None, regLock |-> FALSE, repoLocks |-> {}]

Begin(p, c) ==
    /\ calls[p] = None /\ begun < MaxCalls /\ begun' = begun + 1
    /\ calls' = [calls EXCEPT ![p] = c]
    /\ UNCHANGED <<disk, user, lost, moved>>

(* An I/O error, or the process is killed: its locks are gone. *)
Fails(p) == calls[p] # None /\ End(p) /\ UNCHANGED disk

(* previous_marker_status: a folder that is there without a readable       *)
(* marker counts as a possible copy.                                       *)
LocationStatus(f, i, entry) ==
    CASE entry.root = f -> "current"
      [] entry.root # f /\ folders[entry.root] = Missing -> "moved"
      [] entry.root # f /\ folders[entry.root] # Missing ->
           IF folders[entry.root].marker \in {i, None} THEN "copied" ELSE "moved"

-----------------------------------------------------------------------------
(* init_project_internal *)

ChosenId(c, marker, pending) ==
    CASE c.op \in ForceNew /\ pending # None -> {pending.id}
      [] c.op \notin ForceNew /\ marker # None -> {marker}
      [] OTHER -> Ids \ used

validate_separate_init_retry(c, pending) ==
    pending.reason = c.op /\ c.req \in {None, pending.storage}

(* The marker, the pending file, and the id. *)
InitRead(p, op, f, req) ==
    LET c == NewCall(op, f, req)
        marker == folders[f].marker
        pending == IF op \in ForceNew THEN folders[f].pending ELSE None
    IN /\ folders[f] # Missing
       /\ pending # None => /\ validate_separate_init_retry(c, pending)
                            /\ marker \in {None, pending.prev, pending.id}
       /\ ~SeparateRaces /\ op \in ForceNew =>
            \A q \in Running : ~(calls[q].op \in ForceNew /\ calls[q].folder = f)
       /\ IF pending # None /\ marker = pending.id
          THEN Begin(p, [c EXCEPT !.step = "load", !.marker = marker]) /\ UNCHANGED used
          ELSE \E i \in ChosenId(c, marker, pending) :
                 /\ Begin(p, [c EXCEPT !.id = i, !.marker = marker, !.pending = pending])
                 /\ used' = used \cup {i}

(* The fault: the marker is not read again under the locks. *)
MarkerAssumed(c) == folders[c.folder] # Missing

MarkerUnchanged(c) == folders[c.folder] # Missing /\ folders[c.folder].marker = c.marker

MayStartSeparate(c) ==
    /\ c.marker # None /\ registry[c.marker] # None
    /\ LET status == LocationStatus(c.folder, c.marker, registry[c.marker])
       IN IF c.op = "separate" THEN status = "copied"
          ELSE status # "copied" /\ <<registry[c.marker].storage, c.marker>> \notin repos

(* What is checked under the locks. *)
InitAllowed(c) ==
    /\ MarkerUnchanged(c)
    /\ c.pending # None => registry[c.pending.prev] # None
    /\ c.op \in ForceNew /\ registry[c.id] # None =>
         c.pending # None /\ registry[c.id].root = c.folder
    /\ c.op \in ForceNew /\ c.pending = None => MayStartSeparate(c)
    /\ c.op = "init" /\ registry[c.id] # None =>
         LocationStatus(c.folder, c.id, registry[c.id]) # "copied"
    /\ registry[c.id] # None =>
         (IF c.pending # None THEN c.pending.storage ELSE c.req)
           \in {None, registry[c.id].storage}

(* The fault: a retry forgets the storage root it started with. *)
ChosenStorageAnew(c) ==
    CASE registry[c.id] # None -> registry[c.id].storage
      [] OTHER -> IF c.req # None THEN c.req ELSE Default

(* The fault: nothing is chosen when nothing is asked for. *)
ChosenStorageUnset(c) ==
    IF registry[c.id] # None THEN registry[c.id].storage ELSE c.req

ChosenStorage(c) ==
    CASE registry[c.id] # None -> registry[c.id].storage
      [] registry[c.id] = None /\ c.pending # None -> c.pending.storage
      [] OTHER -> IF c.req # None THEN c.req ELSE Default

InitClaim(p) ==
    LET c == calls[p]
        ids == {c.id} \cup ({c.marker} \ {None})
    IN /\ c # None /\ c.op \in InitOps /\ c.step = "claim" /\ UNCHANGED disk
       /\ IF ClaimFree(p, ids) /\ RegistryFree(p) /\ InitAllowed(c)
          THEN Update(p, [c EXCEPT !.step = "checked", !.claims = ids, !.regLock = TRUE,
                                   !.req = None, !.seen = registry, !.storage = ChosenStorage(c)])
          ELSE End(p)

NewPending(c) == [prev |-> c.marker, id |-> c.id, storage |-> c.storage,
                  reason |-> c.op, phase |-> "prepared"]

(* The fault: a retry writes its pending file as if it began. *)
InitReserveAnew(p) ==
    LET c == calls[p]
    IN /\ c # None /\ c.op \in InitOps /\ c.step = "checked"
       /\ Update(p, [c EXCEPT !.step = "reserved",
                              !.pending = IF c.op = "init" THEN None ELSE NewPending(c)])
       /\ folders' = [folders EXCEPT ![c.folder] =
            IF c.op = "init" THEN [@ EXCEPT !.marker = c.id]
            ELSE [@ EXCEPT !.pending = NewPending(c)]]
       /\ UNCHANGED <<registry, repos>>

(* The fault: nothing names the new id before its repository is there. *)
InitReserveNothing(p) ==
    /\ calls[p] # None /\ calls[p].op \in InitOps /\ calls[p].step = "checked"
    /\ Step(p, "reserved") /\ UNCHANGED disk

InitReserve(p) ==
    LET c == calls[p]
        pending == IF c.op \in ForceNew /\ c.pending = None THEN NewPending(c) ELSE c.pending
    IN /\ c # None /\ c.op \in InitOps /\ c.step = "checked"
       /\ Update(p, [c EXCEPT !.step = "reserved", !.pending = pending])
       /\ folders' = [folders EXCEPT ![c.folder] =
            CASE c.op = "init" -> [@ EXCEPT !.marker = c.id]
              [] c.op # "init" /\ c.pending = None -> [@ EXCEPT !.pending = pending]
              [] OTHER -> @]
       /\ UNCHANGED <<registry, repos>>

(* init_repo_layout *)
InitLayout(p) ==
    /\ calls[p] # None /\ calls[p].step = "reserved"
    /\ repos' = repos \cup {<<calls[p].storage, calls[p].id>>}
    /\ Step(p, "laidOut") /\ UNCHANGED <<folders, registry>>

WritePhase(p, from, phase, next) ==
    LET c == calls[p]
    IN IF c.op \in ForceNew /\ c.pending.phase \in from
       THEN /\ folders' = [folders EXCEPT ![c.folder].pending = [c.pending EXCEPT !.phase = phase]]
            /\ Update(p, [c EXCEPT !.step = next, !.pending.phase = phase])
       ELSE Step(p, next) /\ UNCHANGED folders

InitPhase(p) ==
    /\ calls[p] # None /\ calls[p].step = "laidOut"
    /\ WritePhase(p, {"prepared"}, "repositoryInitialized", "phased")
    /\ UNCHANGED <<registry, repos>>

(* update_registry_locked: the whole file, from the copy read before. *)
update_registry_locked(c) ==
    registry' = [c.seen EXCEPT ![c.id] = [root |-> c.folder, storage |-> c.storage]]

InitRegister(p) ==
    /\ calls[p] # None /\ calls[p].step = "phased"
    /\ update_registry_locked(calls[p])
    /\ Update(p, [calls[p] EXCEPT !.step = "registered", !.seen = None])
    /\ UNCHANGED <<folders, repos>>

InitRegistered(p) ==
    /\ calls[p] # None /\ calls[p].step = "registered"
    /\ WritePhase(p, {"prepared", "repositoryInitialized"}, "registered", "committed")
    /\ UNCHANGED <<registry, repos>>

InitCommit(p) ==
    LET c == calls[p]
    IN /\ c # None /\ c.step = "committed"
       /\ IF c.op \in ForceNew
          THEN folders' = [folders EXCEPT ![c.folder].marker = c.id]
          ELSE UNCHANGED folders
       /\ Step(p, "finalize") /\ UNCHANGED <<registry, repos>>

(* The fault: what was loaded before the lock is trusted. *)
BindingAssumed(c) == TRUE

(* validate_current_repository_binding *)
BindingIsCurrent(c) ==
    /\ registry[c.id] # None
    /\ registry[c.id] = [root |-> c.folder, storage |-> c.storage]
    /\ folders[c.folder] # Missing /\ folders[c.folder].marker = c.id
    /\ <<c.storage, c.id>> \in repos

(* finalize_project_initialization checks the binding and drops the        *)
(* pending file (or warns: Fails).  A retry that finds its marker written  *)
(* has loaded the project and locked its repository instead.               *)
InitFinalize(p) ==
    LET c == calls[p]
    IN /\ c # None /\ c.op \in InitOps /\ c.step \in {"finalize", "working"}
       /\ IF c.op \in ForceNew /\ BindingIsCurrent(c)
          THEN folders' = [folders EXCEPT ![c.folder].pending = None]
          ELSE UNCHANGED folders
       /\ End(p) /\ UNCHANGED <<registry, repos>>

-----------------------------------------------------------------------------
(* load_project_registration, without a lock. *)

Loadable(f) ==
    /\ folders[f] # Missing /\ folders[f].marker # None
    /\ registry[folders[f].marker] # None
    /\ <<registry[folders[f].marker].storage, folders[f].marker>> \in repos

StatusHere(f) == LocationStatus(f, folders[f].marker, registry[folders[f].marker])

Loaded(c) == [c EXCEPT !.id = folders[c.folder].marker,
                       !.storage = registry[folders[c.folder].marker].storage]

(* A load ends here.  A change of the repository goes on unless the        *)
(* project may be a copy (ensure_project_location_allows_mutation); so     *)
(* does an initialisation that is to be finished, if it is still the       *)
(* project its pending file names.                                         *)
ToBeFinished(c, id) == c.op \in ForceNew /\ id = c.marker

AfterLoad(p, c, status) ==
    IF (c.op = "mutate" /\ status # "copied") \/ ToBeFinished(c, Loaded(c).id)
    THEN Update(p, [Loaded(c) EXCEPT !.step = "lock", !.claims = {}, !.regLock = FALSE,
                                     !.seen = None])
    ELSE End(p)

LoadRead(p, op, f) ==
    LET c == Loaded(NewCall(op, f, None))
    IN /\ Loadable(f) /\ UNCHANGED used
       /\ \/ /\ op = "confirm" \/ StatusHere(f) = "moved"
             /\ Begin(p, [c EXCEPT !.step = "refresh"])
          \/ /\ op = "mutate" /\ StatusHere(f) = "current"
             /\ Begin(p, [c EXCEPT !.step = "lock"])

(* The load of an initialisation that only has to be finished. *)
FinishLoad(p) ==
    LET c == calls[p]
    IN /\ c # None /\ c.step = "load" /\ UNCHANGED disk
       /\ IF ~Loadable(c.folder) THEN End(p)
          ELSE IF StatusHere(c.folder) = "moved"
          THEN Update(p, [Loaded(c) EXCEPT !.step = "refresh"])
          ELSE AfterLoad(p, c, StatusHere(c.folder))

(* The fault: what was read without the lock is acted upon under it. *)
RefreshClaimStale(p) ==
    LET c == calls[p]
    IN /\ c # None /\ c.step = "refresh" /\ UNCHANGED disk
       /\ IF ClaimFree(p, {c.id})
          THEN Update(p, [c EXCEPT !.step = "refreshClaimed", !.claims = {c.id}])
          ELSE End(p)

(* With the location lock everything is read again: load_project goes on   *)
(* only if the project still has moved, confirm_project_location unless it *)
(* is already here.  The lock is that of the id that was read first.       *)
RefreshClaim(p) ==
    LET c == calls[p]
        again == StatusHere(c.folder)
    IN /\ c # None /\ c.step = "refresh" /\ UNCHANGED disk
       /\ ~MarkerRaces /\ folders[c.folder] # Missing => folders[c.folder].marker = c.id
       /\ IF ~ClaimFree(p, {c.id}) \/ ~Loadable(c.folder) THEN End(p)
          ELSE IF again = "moved" \/ (c.op = "confirm" /\ again # "current")
          THEN Update(p, [Loaded(c) EXCEPT !.step = "refreshClaimed", !.claims = {c.id}])
          ELSE AfterLoad(p, c, again)

(* update_registry_with_location_lock_held *)
RefreshRead(p) ==
    LET c == calls[p]
    IN /\ c # None /\ c.step = "refreshClaimed" /\ UNCHANGED disk
       /\ IF RegistryFree(p)
          THEN Update(p, [c EXCEPT !.step = "write", !.regLock = TRUE, !.seen = registry])
          ELSE End(p)

RefreshWrite(p) ==
    LET c == calls[p]
    IN /\ c # None /\ c.step = "write"
       /\ update_registry_locked(c)
       /\ IF c.op = "mutate" \/ ToBeFinished(c, c.id)
          THEN Update(p, [c EXCEPT !.step = "lock", !.claims = {}, !.regLock = FALSE,
                                   !.seen = None])
          ELSE End(p)
       /\ UNCHANGED <<folders, repos>>

-----------------------------------------------------------------------------
(* acquire_project_repository_lock, and the work done under it. *)

MutateLock(p) ==
    LET c == calls[p]
    IN /\ c # None /\ c.step = "lock" /\ UNCHANGED disk
       /\ IF ShareFree(p, c.id) /\ ReposFree(p, {<<c.storage, c.id>>})
          THEN Update(p, [c EXCEPT !.step = "locked", !.share = c.id,
                                   !.repoLocks = {<<c.storage, c.id>>}])
          ELSE End(p)

MutateValidate(p) ==
    /\ calls[p] # None /\ calls[p].step = "locked" /\ UNCHANGED disk
    /\ IF BindingIsCurrent(calls[p]) THEN Step(p, "working") ELSE End(p)

MutateDone(p) ==
    /\ calls[p] # None /\ calls[p].op = "mutate" /\ calls[p].step = "working"
    /\ End(p) /\ UNCHANGED disk

-----------------------------------------------------------------------------
(* set_project_storage_root: the marker is read to know which lock to take, *)
(* and read again under it.                                                 *)

SetRead(p, f, req) ==
    /\ folders[f] # Missing /\ folders[f].marker # None
    /\ Begin(p, [NewCall("setStorage", f, req) EXCEPT !.marker = folders[f].marker,
                                                     !.id = folders[f].marker])
    /\ UNCHANGED used

SetAllowed(c, i) ==
    /\ registry[i] # None /\ LocationStatus(c.folder, i, registry[i]) # "copied"
    /\ <<c.req, i>> \in repos

SetClaim(p) ==
    LET c == calls[p]
        i == folders[c.folder].marker
        rs == {<<c.req, i>>} \cup ({<<registry[i].storage, i>>} \cap repos)
    IN /\ c # None /\ c.op = "setStorage" /\ c.step = "claim" /\ UNCHANGED disk
       /\ ~MarkerRaces /\ folders[c.folder] # Missing => i = c.marker
       /\ IF /\ ClaimFree(p, {c.marker}) /\ RegistryFree(p)
             /\ folders[c.folder] # Missing
             /\ i # None /\ SetAllowed(c, i) /\ ReposFree(p, rs)
          THEN Update(p, [c EXCEPT !.step = "checked", !.id = i, !.claims = {c.marker},
                                   !.regLock = TRUE, !.seen = registry,
                                   !.storage = c.req, !.repoLocks = rs])
          ELSE End(p)

SetWrite(p) ==
    LET c == calls[p]
    IN /\ c # None /\ c.op = "setStorage" /\ c.step = "checked"
       /\ update_registry_locked(c)
       /\ End(p) /\ UNCHANGED <<folders, repos>>

-----------------------------------------------------------------------------
(* Users. *)

UserActs ==
    /\ user < MaxUser /\ user' = user + 1
    /\ \A p \in Running : ~Held(calls[p])
    /\ UNCHANGED <<registry, calls, used, begun>>

UserCopies(f, g) ==
    /\ UserActs /\ folders[f] # Missing /\ folders[g] = Missing
    /\ folders' = [folders EXCEPT ![g] = folders[f]]
    /\ moved' = moved \cup {f, g} /\ UNCHANGED <<repos, lost>>

UserMoves(f, g) ==
    /\ UserActs /\ folders[f] # Missing /\ folders[g] = Missing
    /\ folders' = [folders EXCEPT ![g] = folders[f], ![f] = Missing]
    /\ moved' = moved \cup {f, g} /\ UNCHANGED <<repos, lost>>

UserDeletes(f) ==
    /\ UserActs /\ folders[f] # Missing
    /\ folders' = [folders EXCEPT ![f] = Missing]
    /\ moved' = moved \cup {f} /\ UNCHANGED <<repos, lost>>

UserMovesRepository(s, t, i) ==
    /\ UserActs /\ <<s, i>> \in repos /\ <<t, i>> \notin repos
    /\ repos' = (repos \ {<<s, i>>}) \cup {<<t, i>>}
    /\ lost' = lost \cup {i} /\ UNCHANGED <<folders, moved>>

UserLosesRepository(s, i) ==
    /\ UserActs /\ <<s, i>> \in repos
    /\ repos' = repos \ {<<s, i>>}
    /\ lost' = lost \cup {i} /\ UNCHANGED <<folders, moved>>

Users ==
    \/ \E f, g \in Folders : UserCopies(f, g) \/ UserMoves(f, g)
    \/ \E f \in Folders : UserDeletes(f)
    \/ \E i \in Ids, s \in Storages :
         \/ UserLosesRepository(s, i)
         \/ \E t \in Storages : UserMovesRepository(s, t, i)

InitProject(p) ==
    \/ \E op \in InitOps, f \in Folders, req \in Requests \cup {None} :
         InitRead(p, op, f, req)
    \/ InitClaim(p) \/ InitReserve(p) \/ InitLayout(p) \/ InitPhase(p)
    \/ InitRegister(p) \/ InitRegistered(p) \/ InitCommit(p) \/ InitFinalize(p)

LoadProject(p) ==
    \/ \E op \in LoadOps, f \in Folders : LoadRead(p, op, f)
    \/ FinishLoad(p) \/ RefreshClaim(p) \/ RefreshRead(p) \/ RefreshWrite(p)
    \/ MutateLock(p) \/ MutateValidate(p) \/ MutateDone(p)

SetStorageRoot(p) ==
    \/ \E f \in Folders, req \in Storages : SetRead(p, f, req)
    \/ SetClaim(p) \/ SetWrite(p)

Next ==
    \/ Users
    \/ \E p \in Procs : Fails(p) \/ InitProject(p) \/ LoadProject(p) \/ SetStorageRoot(p)

Spec == Init /\ [][Next]_vars

-----------------------------------------------------------------------------
(* Properties. *)

(* As long as a call changes a repository, the registry names its folder   *)
(* and that repository for the project: no other location is given the     *)
(* project, and no other storage root, while it works.                     *)
ClaimHoldsWhileWorking ==
    \A p \in Running : calls[p].step = "working" =>
        registry[calls[p].id] = [root |-> calls[p].folder, storage |-> calls[p].storage]

(* Where the registered folder is another one that still has the marker,   *)
(* the project may be a copy, and it is not changed.                       *)
CopiesAreNotChanged ==
    \A p \in Running : calls[p].step = "working" =>
        LocationStatus(calls[p].folder, calls[p].id, registry[calls[p].id]) # "copied"

(* Only confirm_project_location takes a project from a folder that still  *)
(* has its marker: of two copies that both find the old folder gone, one   *)
(* wins and the other is told that it is a copy.  And no registration is   *)
(* lost, although every update rewrites the whole file.                    *)
ClaimTaken(i) ==
    /\ registry[i] # None /\ registry'[i] # registry[i]
    /\ registry'[i] # None => /\ registry'[i].root # registry[i].root
                              /\ folders[registry[i].root] # Missing
                              /\ folders[registry[i].root].marker = i

ClaimsAreTakenKnowingly ==
    [][\A i \in Ids : ClaimTaken(i) =>
         /\ registry'[i] # None
         /\ \E p \in Running : calls[p].op = "confirm" /\ calls[p].step = "write"]_vars

(* The marker of a folder is replaced only by an initialisation as a       *)
(* separate project that started from that very marker: of two that        *)
(* initialise the same new folder, one is told that the marker changed.    *)
MarkersAreReplacedKnowingly ==
    [][\A f \in Folders :
         /\ folders[f] # Missing /\ folders'[f] # Missing /\ folders[f].marker # None
         /\ folders'[f].marker # folders[f].marker
         => \E p \in Running : /\ calls[p].op \in ForceNew /\ calls[p].folder = f
                               /\ calls[p].step = "committed"
                               /\ calls[p].marker = folders[f].marker]_vars

(* The registry never sends a project to a storage root without its        *)
(* repository, unless a user took that away.  And whenever a call stops,   *)
(* every repository can be found again: a marker, a pending file or the    *)
(* registry has its id, unless users removed folders.                      *)
RegistryMatchesRepositories ==
    /\ \A i \in Ids : registry[i] # None /\ i \notin lost =>
           <<registry[i].storage, i>> \in repos
    /\ \A r \in repos :
           \/ registry[r[2]] # None \/ moved # {}
           \/ \E f \in Folders : /\ folders[f] # Missing
                                 /\ \/ folders[f].marker = r[2]
                                    \/ /\ folders[f].pending # None
                                       /\ folders[f].pending.id = r[2]

(* An initialisation as a separate project that was cut off is finished    *)
(* with the same id and storage root, and from the phase it had reached.   *)
PhaseOrder == [prepared |-> 1, repositoryInitialized |-> 2, registered |-> 3]

SeparateInitGoesOn ==
    [][\A f \in Folders \ moved :
         LET old == folders[f].pending new == folders'[f].pending
         IN folders'[f] # Missing /\ old # None /\ new # None =>
              /\ new.id = old.id /\ new.storage = old.storage
              /\ PhaseOrder[old.phase] <= PhaseOrder[new.phase]]_vars

(* A repeated separate initialisation is never refused for what an earlier *)
(* one left: it finds the old project registered and, if the new one is    *)
(* registered too, for this folder and this storage root.                  *)
SeparateInitCanResume ==
    \A f \in Folders \ moved :
        LET pending == folders[f].pending
        IN pending # None =>
             /\ folders[f].marker \in {pending.prev, pending.id}
             /\ registry[pending.prev] # None
             /\ folders[f].marker = pending.prev /\ registry[pending.id] # None =>
                  registry[pending.id] = [root |-> f, storage |-> pending.storage]
=============================================================================
