---------------------- MODULE ProjectRegistryInvariants ----------------------
(***************************************************************************)
(* The inductive invariants behind the properties of ProjectRegistry.      *)
(***************************************************************************)
EXTENDS ProjectRegistry

(* An initialisation that has chosen its id, and one that holds the locks. *)
LockedSteps == {"checked", "reserved", "laidOut", "phased", "registered",
                "committed", "finalize"}
InitSteps == {"claim"} \cup LockedSteps
Starting(c) == c.op \in InitOps /\ c.step \in InitSteps
Separating(c) == c.op \in ForceNew /\ c.step \in InitSteps

(* One that has not written its new id anywhere. *)
FreshId(c) == c.op \in ForceNew /\ c.step \in {"claim", "checked"} /\ c.pending = None

-----------------------------------------------------------------------------
(* What a call has read and chosen by the time it takes a step. *)
Shape(c) ==
    /\ c.step \in {"claim", "checked"} => c.op \in InitOps \cup {"setStorage"}
    /\ c.step \in LockedSteps \ {"checked"} => c.op \in InitOps
    /\ c.step = "load" => c.op \in ForceNew
    /\ c.step \in {"refresh", "refreshClaimed", "write"} => c.op \in LoadOps \cup ForceNew
    /\ c.step \in {"lock", "locked", "working"} => c.op \in {"mutate"} \cup ForceNew
    /\ c.step = "load" => c.id = None
    /\ c.step # "load" => c.id \in used
    /\ c.step \notin {"claim", "load"} => c.storage \in Storages
    /\ c.marker \in used \cup {None}
    /\ c.op = "setStorage" => c.req \in Storages /\ c.marker \in used
    /\ c.op \notin ForceNew => c.pending = None
    /\ Separating(c) /\ c.step \in LockedSteps \ {"checked"} => c.pending # None
    /\ c.op \in ForceNew /\ c.step \in LockedSteps => c.pending # None \/ c.marker # None
    /\ FreshId(c) => c.id # c.marker
    /\ c.pending # None => /\ Separating(c)
                           /\ c.pending.id = c.id /\ c.pending.prev # c.pending.id
                           /\ c.marker # c.id
                           /\ c.step \in LockedSteps => c.storage = c.pending.storage
    /\ c.op = "init" /\ c.marker # None => c.id = c.marker
    /\ c.step \in {"checked", "reserved", "laidOut", "phased", "write"} => c.seen # None
    /\ Starting(c) /\ c.step # "claim" => c.regLock /\ folders[c.folder] # Missing

PendingsUsed ==
    \A f \in Folders : folders[f] # Missing /\ folders[f].pending # None =>
        folders[f].pending.id \in used

RegTypeInv == TypeOK /\ PendingsUsed /\ \A p \in Running : Shape(calls[p])

-----------------------------------------------------------------------------
(* Locks, and what they protect. *)
Apart(c, d) ==
    /\ ~(c.regLock /\ d.regLock)
    /\ c.claims \cap d.claims = {}
    /\ c.share \notin d.claims /\ d.share \notin c.claims
    /\ c.repoLocks \cap d.repoLocks = {}

LocksExclude == \A p, q \in Running : p # q => Apart(calls[p], calls[q])

LocksHeld(c) ==
    /\ c.step \in LockedSteps => c.regLock /\ c.claims # {}
    /\ c.step \in {"refreshClaimed", "write"} => c.claims # {}
    /\ Starting(c) /\ c.step # "claim" => c.id \in c.claims
    /\ ~MarkerRaces /\ c.step \in {"checked", "refreshClaimed", "write"} => c.id \in c.claims
    /\ c.step \in {"locked", "working"} =>
         c.share = c.id /\ c.repoLocks = {<<c.storage, c.id>>}

(* The registry is what was read under its lock. *)
SeenIsCurrent(c) ==
    c.step \in {"checked", "reserved", "laidOut", "phased", "write"} =>
        c.regLock /\ c.seen = registry

(* The repository a call names in the registry is there. *)
RepositoryThere(c) ==
    \/ c.step \in {"laidOut", "phased", "refreshClaimed", "write", "working"}
    \/ c.op = "setStorage" /\ c.step = "checked"
    => <<c.storage, c.id>> \in repos

(* The marker is the one that was read before the locks. *)
MarkerAsRead(c) ==
    Starting(c) =>
        /\ c.step = "checked" \/ (c.op \in ForceNew /\ c.step \in LockedSteps \ {"finalize"}) =>
             MarkerUnchanged(c)
        /\ c.op = "init" /\ c.step \in LockedSteps \ {"checked"} =>
             folders[c.folder] # Missing /\ folders[c.folder].marker = c.id

LockInv ==
    /\ LocksExclude
    /\ \A p \in Running : /\ LocksHeld(calls[p]) /\ SeenIsCurrent(calls[p])
                          /\ RepositoryThere(calls[p]) /\ MarkerAsRead(calls[p])

-----------------------------------------------------------------------------
(* The claims of folders on projects. *)

(* A call that is about to name its folder for a project, unless it was    *)
(* told to, takes it from no folder that has the marker.                   *)
TakesFromNoOne(c) ==
    \/ c.step \in {"checked", "reserved", "laidOut", "phased"}
    \/ c.step \in {"refreshClaimed", "write"} /\ c.op # "confirm"
    => \/ registry[c.id] = None
       \/ registry[c.id].root = c.folder
       \/ folders[registry[c.id].root] = Missing
       \/ folders[registry[c.id].root].marker # c.id

ClaimInv ==
    /\ ClaimHoldsWhileWorking
    /\ \A p \in Running : TakesFromNoOne(calls[p])

-----------------------------------------------------------------------------
(* Initialisation as a separate project, in folders no user has moved. *)

UntouchedIsThere == \A f \in Folders \ moved : folders[f] # Missing

SeparatesAlone ==
    \A p, q \in Running : p # q /\ calls[p].op \in ForceNew /\ calls[q].op \in ForceNew =>
        calls[p].folder # calls[q].folder

(* The pending file is the one the call has read or written. *)
PendingAsKnown(c) ==
    c.op \in ForceNew /\ c.folder \notin moved =>
        IF c.step \in InitSteps THEN folders[c.folder].pending = c.pending
        ELSE /\ folders[c.folder].pending # None
             /\ folders[c.folder].pending.id = folders[c.folder].marker

(* An id that is not written anywhere yet belongs to one call. *)
FreshIsUnused ==
    \A p \in Running : FreshId(calls[p]) =>
        /\ calls[p].step = "checked" => registry[calls[p].id] = None
                                        /\ registry[calls[p].marker] # None
        /\ \A q \in Running \ {p} : calls[q].id # calls[p].id
        /\ \A f \in Folders : folders[f] # Missing =>
             /\ folders[f].marker # calls[p].id
             /\ folders[f].pending # None => folders[f].pending.id # calls[p].id

(* The id in a pending file belongs to that folder, and to a call only if  *)
(* it carries out the initialisation or the marker is written.             *)
PendingIdIsOwn ==
    \A f \in Folders \ moved : folders[f].pending # None =>
        LET id == folders[f].pending.id
        IN /\ \A g \in Folders \ {f} : folders[g] # Missing =>
                /\ folders[g].marker # id
                /\ folders[g].pending # None => folders[g].pending.id # id
           /\ \A p \in Running : calls[p].id = id =>
                /\ calls[p].folder = f
                /\ folders[f].marker = id \/ Separating(calls[p])

SeparateInv ==
    /\ UntouchedIsThere /\ SeparatesAlone
    /\ \A p \in Running : PendingAsKnown(calls[p])
    /\ FreshIsUnused /\ PendingIdIsOwn
    /\ SeparateInitCanResume
    /\ RegistryMatchesRepositories
=============================================================================
