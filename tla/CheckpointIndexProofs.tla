------------------------ MODULE CheckpointIndexProofs ------------------------
(***************************************************************************)
(* Proofs about CheckpointIndex, for any number of checkpoints and objects *)
(* and any numbers of occurrences.                                         *)
(***************************************************************************)
EXTENDS CheckpointIndex, FiniteSetTheorems, WellFoundedInduction, TLAPS

-----------------------------------------------------------------------------
(* The inductive invariants. *)

CreateSteps == {"publishRoot", "addInventory", "writeLatest", "indexRows", "indexHead",
                "commitCreate"}
DeleteSteps == {"removeInventory", "moveLatest", "unindexRows", "unindexHead", "dropName",
                "commitDelete"}
BuildSteps == {"build", "prune", "publishIndex"}

Pending == {c \in Ckpts : dj[c] # None}

Valid == db \notin {Missing, Unreadable}

(* A step that writes a journal or the index finds it. *)
TypeInv ==
    /\ TypeOK
    /\ todo \subseteq Pending
    /\ pc \in CreateSteps => cj # None
    /\ pc \in CreateSteps \ {"commitCreate"} => cur \in Ckpts
    /\ pc \in CreateSteps \ {"commitCreate"} /\ conn => Valid
    /\ pc \in {"indexRows", "indexHead"} => conn
    /\ pc \in DeleteSteps => cur \in Pending
    /\ pc = "unindexHead" => Valid

(* A name without a checkpoint belongs to one whose deletion goes on. *)
NamesInv ==
    ~unnamed => /\ renamed \subseteq inventory \cup Pending
                /\ pc = "commitDelete" => cur \notin renamed

(* At most one journal, and none left once recovery is over; where it has  *)
(* got to agrees with the step, and with the inventory.                    *)
OneJournal ==
    /\ cj # None => Pending = {}
    /\ \A c, d \in Pending : c = d

Granting == {"afterRecovery", "start"} \cup CreateSteps \cup BuildSteps

Phase ==
    /\ pc \in {"idle", "start", "recoverCreate"} \cup CreateSteps => ~recovered
    /\ pc \in {"recoverDelete", "afterRecovery", "start"} \cup DeleteSteps => cj = None
    /\ pc \in Granting => Pending = {} /\ todo = {}
    /\ pc \in {"recoverCreate", "recoverDelete"} \/ (pc \in DeleteSteps /\ recovered) =>
         todo = Pending
    /\ pc \in BuildSteps /\ cj # None => ~recovered
    /\ pc \in DeleteSteps /\ ~recovered => todo = {}

CreateStep ==
    /\ pc \in CreateSteps \ {"commitCreate"} => cj.id = cur
    /\ pc = "publishRoot" => cj.state = "Prepared"
    /\ pc = "addInventory" => cj.state = "RootPublished"
    /\ pc \in {"writeLatest", "indexRows", "indexHead"} =>
         cj.state \in {"InventoryUpdated", "LatestUpdated"}

Born == \A c \in inventory : born[c] # 0

CreationProgress ==
    cj # None =>
        /\ born[cj.id] # 0
        /\ cj.id \in inventory <=> cj.state \in {"InventoryUpdated", "LatestUpdated"}

DeletionProgress ==
    /\ \A c \in Pending : dj[c].state = "Staged" <=> c \in inventory
    /\ pc \in DeleteSteps => (dj[cur].state = "Staged" <=> pc = "removeInventory")

ControlInv ==
    /\ OneJournal /\ Phase /\ CreateStep
    /\ Born /\ CreationProgress /\ DeletionProgress

(* The index belongs to the inventory states up to the current one, and is *)
(* exact when it claims to be current.                                     *)
Exact(S) == Valid /\ db.rows = S /\ db.refs = RefsOf(S)

Current == Valid /\ db.head = head

Claims ==
    /\ Valid => db.head <= head
    /\ Current => Exact(inventory)

(* What the rows are while they are brought up to date. *)
Creating ==
    conn => /\ pc \in {"publishRoot", "addInventory"} => Exact(inventory)
            /\ pc \in {"writeLatest", "indexRows"} =>
                 Exact(inventory \ {cur}) /\ db.head # head
            /\ pc = "indexHead" => Exact(inventory)

Deleting ==
    /\ \A c \in Pending : dj[c].update_index /\ Valid =>
         IF dj[c].state = "Staged" THEN Exact(inventory)
         ELSE Exact(inventory \cup {c}) \/ Exact(inventory)
    /\ pc \in {"unindexRows", "unindexHead"} => dj[cur].update_index
    /\ pc = "unindexHead" => Exact(inventory)

IndexInv == Claims /\ Creating /\ Deleting

(* A stale index is known to be one, or about to be rebuilt. *)
KnownStale ==
    ~impaired =>
        /\ ~recovered /\ cj = None /\ Pending = {} => Current
        /\ pc \in {"publishRoot", "addInventory", "writeLatest"} => conn
        /\ pc = "commitCreate" => Current
        /\ pc \in DeleteSteps /\ ~recovered =>
             /\ dj[cur].update_index
             /\ pc = "removeInventory" => Exact(inventory)
             /\ pc \in {"moveLatest", "unindexRows"} => Exact(inventory \cup {cur})
             /\ pc \in {"dropName", "commitDelete"} => Current

-----------------------------------------------------------------------------
(* Facts about the helpers. *)

(* There is a newest checkpoint in every set of them: the checkpoints      *)
(* newer than one are fewer the newer it is, and so few as none at last.   *)
LEMMA NewestIsOne ==
    ASSUME born \in [Ckpts -> Nat], NEW S \in SUBSET Ckpts, S # {}
    PROVE  Newest(S) \in S
<1> DEFINE Newer(c) == {d \in S : born[c] < born[d]}
           T == {Newer(c) : c \in S}
<1>1. IsFiniteSet(S)
  BY IndexAssumption, FS_Subset
<1>2. IsWellFoundedOn(StrictSubsetOrdering(S), FiniteSubsetsOf(S))
  BY FS_StrictSubsetOrderingWellFounded
<1>3. FiniteSubsetsOf(S) = SUBSET S
  BY <1>1, FS_FiniteSubsetsOfFinite
<1>4. T \subseteq FiniteSubsetsOf(S) /\ T # {}
  <2>1. \A c \in S : Newer(c) \in SUBSET S
    OBVIOUS
  <2>2. PICK c \in S : TRUE
    OBVIOUS
  <2>3. Newer(c) \in T
    BY <2>2
  <2>4. T \subseteq SUBSET S
    BY <2>1
  <2>5. QED
    BY <1>3, <2>3, <2>4
<1> HIDE DEF T
<1>5. PICK U \in T : \A V \in T : <<V, U>> \notin StrictSubsetOrdering(S)
  BY <1>2, <1>4, WFMin
<1>6. PICK c \in S : U = Newer(c)
  BY <1>5 DEF T
<1>7. ASSUME NEW d \in S, born[c] < born[d] PROVE FALSE
  <2>1. Newer(d) \subseteq U /\ d \in U /\ d \notin Newer(d)
    BY <1>6, <1>7
  <2>2. Newer(d) \in T /\ Newer(d) \in SUBSET S /\ U \in SUBSET S /\ Newer(d) # U
    BY <1>6, <2>1 DEF T
  <2>3. <<Newer(d), U>> \in StrictSubsetOrdering(S)
    BY <2>1, <2>2 DEF StrictSubsetOrdering
  <2>4. QED
    BY <1>5, <2>2, <2>3
<1>8. \A d \in S : born[d] <= born[c]
  BY <1>7
<1>9. QED
  BY <1>8 DEF Newest

(* There are n numbers from 1 to n. *)
LEMMA Counting ==
    ASSUME NEW n \in Nat
    PROVE  IsFiniteSet(1..n) /\ Cardinality(1..n) = n
BY FS_Interval

(* What a set of checkpoints names is finite, ... *)
LEMMA NamedIsFinite ==
    ASSUME NEW S \in SUBSET Ckpts, NEW o \in Objects
    PROVE  IsFiniteSet(UNION {{c} \X (1..Occurrences[c][o]) : c \in S})
<1> DEFINE T == {{c} \X (1..Occurrences[c][o]) : c \in S}
           F == [c \in S |-> {c} \X (1..Occurrences[c][o])]
<1>1. IsFiniteSet(S)
  BY IndexAssumption, FS_Subset
<1>2. F \in Surjection(S, T)
  BY DEF Surjection
<1>3. IsFiniteSet(T)
  <2> HIDE DEF F, T
  <2>1. QED
    BY <1>1, <1>2, FS_Surjection
<1>4. ASSUME NEW c \in S PROVE IsFiniteSet({c} \X (1..Occurrences[c][o]))
  <2>1. Occurrences[c][o] \in Nat
    BY IndexAssumption
  <2>2. IsFiniteSet({c}) /\ IsFiniteSet(1..Occurrences[c][o])
    BY <2>1, FS_Singleton, Counting
  <2>3. QED
    BY <2>2, FS_Product
<1>5. \A t \in T : IsFiniteSet(t)
  BY <1>4
<1>6. QED
  <2> HIDE DEF T
  <2>1. IsFiniteSet(UNION T)
    BY <1>3, <1>5, FS_UNION
  <2>2. QED
    BY <2>1 DEF T

(* ... so a natural number counts it, ... *)
LEMMA RefsTyped ==
    ASSUME NEW S \in SUBSET Ckpts
    PROVE  RefsOf(S) \in [Objects -> Nat]
<1>1. ASSUME NEW o \in Objects
      PROVE  Cardinality(UNION {{c} \X (1..Occurrences[c][o]) : c \in S}) \in Nat
  BY NamedIsFinite, FS_CardinalityType
<1>2. QED
  BY <1>1 DEF RefsOf

(* ... which one more checkpoint raises by what it names itself. *)
LEMMA RefsAdded ==
    ASSUME NEW S \in SUBSET Ckpts, NEW c \in Ckpts, c \notin S
    PROVE  RefsOf(S \cup {c}) = [o \in Objects |-> RefsOf(S)[o] + Occurrences[c][o]]
<1> SUFFICES ASSUME NEW o \in Objects
             PROVE  RefsOf(S \cup {c})[o] = RefsOf(S)[o] + Occurrences[c][o]
  BY DEF RefsOf
<1> DEFINE Named(R) == UNION {{d} \X (1..Occurrences[d][o]) : d \in R}
           Own == {c} \X (1..Occurrences[c][o])
<1>1. Named(S \cup {c}) = Named(S) \cup Own
  OBVIOUS
<1>2. Named(S) \cap Own = {}
  OBVIOUS
<1>3. IsFiniteSet(Named(S)) /\ Cardinality(Named(S)) \in Nat
  BY NamedIsFinite, FS_CardinalityType
<1>4. IsFiniteSet(Own) /\ Cardinality(Own) = Occurrences[c][o]
  <2>1. Occurrences[c][o] \in Nat
    BY IndexAssumption
  <2>2. /\ IsFiniteSet({c}) /\ Cardinality({c}) = 1
        /\ IsFiniteSet(1..Occurrences[c][o])
        /\ Cardinality(1..Occurrences[c][o]) = Occurrences[c][o]
    BY <2>1, FS_Singleton, Counting
  <2>3. IsFiniteSet(Own) /\ Cardinality(Own) = Cardinality({c}) * Cardinality(1..Occurrences[c][o])
    BY <2>2, FS_Product
  <2>4. QED
    BY <2>1, <2>2, <2>3
<1>5. Occurrences[c][o] \in Nat
  BY IndexAssumption
<1>6. Cardinality(Named(S) \cup Own) = Cardinality(Named(S)) + Cardinality(Own)
  <2> HIDE DEF Named, Own
  <2>1. Cardinality(Named(S) \cup Own) =
          Cardinality(Named(S)) + Cardinality(Own) - Cardinality(Named(S) \cap Own)
    BY <1>3, <1>4, FS_Union
  <2>2. Cardinality(Named(S) \cap Own) = 0
    BY <1>2, FS_EmptySet
  <2>3. QED
    BY <2>1, <2>2, <1>3, <1>4, <1>5
<1>7. RefsOf(S \cup {c})[o] = Cardinality(Named(S \cup {c})) /\ RefsOf(S)[o] = Cardinality(Named(S))
  BY DEF RefsOf
<1>8. QED
  BY <1>1, <1>4, <1>6, <1>7

(* The number of checkpoints ever made is a natural number. *)
LEMMA CountedTyped == Cardinality({d \in Ckpts : born[d] # 0}) \in Nat
<1> DEFINE B == {d \in Ckpts : born[d] # 0}
<1>1. IsFiniteSet(B)
  BY IndexAssumption, FS_Subset
<1>2. QED
  BY <1>1, FS_CardinalityType

(* A deletion leaves refs/latest at a checkpoint, or at none. *)
LEMMA NewLatestTyped ==
    ASSUME TypeOK, NEW c \in Ckpts
    PROVE  NewLatest(c) \in Ckpts \cup {None}
<1>1. inventory \ {c} # {} => Newest(inventory \ {c}) \in Ckpts
  BY NewestIsOne DEF TypeOK
<1>2. CASE latest # c
  BY <1>2 DEF NewLatest, TypeOK
<1>3. CASE latest = c /\ inventory \ {c} = {}
  BY <1>3 DEF NewLatest
<1>4. CASE latest = c /\ inventory \ {c} # {}
  BY <1>1, <1>4 DEF NewLatest, TypeOK
<1>5. QED
  BY <1>2, <1>3, <1>4

(* The index reports itself as current when it can be read and carries the *)
(* id of the current inventory state.                                      *)
LEMMA StatusIsCurrent == (Status = "Current") <=> Current
<1>1. CASE db = Missing
  BY <1>1 DEF Status, Current, Valid
<1>2. CASE db # Missing /\ db = Unreadable
  BY <1>2 DEF Status, Current, Valid
<1>3. CASE db # Missing /\ db # Unreadable
  BY <1>3 DEF Status, Current, Valid
<1>4. QED
  BY <1>1, <1>2, <1>3

-----------------------------------------------------------------------------
(* Types. *)

Data ==
    /\ inventory \subseteq Ckpts /\ head \in Nat
    /\ born \in [Ckpts -> Nat]
    /\ parent \in [Ckpts -> Ckpts \cup {None}]
    /\ latest \in Ckpts \cup {None}
    /\ cj \in CreateJournal \cup {None}
    /\ dj \in [Ckpts -> DeleteJournal \cup {None}]
    /\ renamed \subseteq Ckpts
    /\ db \in Database \cup {Missing, Unreadable}
    /\ op \in {"none", "create", "delete", "rename", "rebuild"}
    /\ pc \in Steps /\ cur \in Ckpts \cup {None}
    /\ todo \subseteq Ckpts

Flags ==
    /\ readable \in BOOLEAN /\ unnamed \in BOOLEAN
    /\ recovered \in BOOLEAN /\ conn \in BOOLEAN /\ impaired \in BOOLEAN

Found ==
    /\ todo \subseteq Pending
    /\ pc \in CreateSteps => cj # None
    /\ pc \in CreateSteps \ {"commitCreate"} => cur \in Ckpts
    /\ pc \in CreateSteps \ {"commitCreate"} /\ conn => Valid
    /\ pc \in {"indexRows", "indexHead"} => conn
    /\ pc \in DeleteSteps => cur \in Pending
    /\ pc = "unindexHead" => Valid

(* The type invariant in three parts, one for each kind of reasoning. *)
LEMMA TypeParts == TypeInv <=> Data /\ Flags /\ Found
BY DEF TypeInv, TypeOK, Data, Flags, Found

(* The initial states have the types. *)
LEMMA TypeInit == Init => TypeInv
<1> SUFFICES ASSUME Init PROVE TypeInv
  OBVIOUS
<1>1. Rebuilt \in Database
  BY RefsTyped DEF Init, Rebuilt, Database
<1>2. Data
  BY <1>1 DEF Init, Data, Steps
<1>3. Flags
  BY Zenon DEF Init, Flags
<1>4. Found
  BY DEF Init, Found, CreateSteps, DeleteSteps
<1>5. QED
  BY <1>2, <1>3, <1>4, TypeParts

(* The create journal, its state advanced. *)
LEMMA CreateAdvanced ==
    ASSUME NEW j \in CreateJournal, NEW s \in CreateState, NEW k, k = [j EXCEPT !.state = s]
    PROVE  k \in CreateJournal /\ k # None /\ k.id = j.id /\ k.state = s
BY NoneAssumption DEF CreateJournal

(* A delete journal past the inventory transition. *)
LEMMA DeleteAdvanced ==
    ASSUME NEW D \in [Ckpts -> DeleteJournal \cup {None}], NEW c \in Ckpts, D[c] # None,
           NEW E, E = [D EXCEPT ![c].state = "InventoryUpdated"]
    PROVE  /\ E \in [Ckpts -> DeleteJournal \cup {None}] /\ E[c] # None
           /\ E[c].state = "InventoryUpdated" /\ E[c].update_index = D[c].update_index
           /\ \A d \in Ckpts : d # c => E[d] = D[d]
<1>1. D[c] \in DeleteJournal
  OBVIOUS
<1>2. E[c] = [D[c] EXCEPT !.state = "InventoryUpdated"]
  OBVIOUS
<1>3. [D[c] EXCEPT !.state = "InventoryUpdated"] \in DeleteJournal
  BY <1>1 DEF DeleteJournal, DeleteState
<1>4. E[c] \in DeleteJournal
  BY <1>2, <1>3
<1>5. E[c].state = "InventoryUpdated" /\ E[c].update_index = D[c].update_index
  BY <1>1, <1>2 DEF DeleteJournal
<1>6. QED
  BY <1>4, <1>5, NoneAssumption

(* The index with the rows and the counts of one more checkpoint, ... *)
LEMMA RowsAdded ==
    ASSUME NEW d \in Database, NEW c \in Ckpts, NEW e,
           e = [d EXCEPT !.rows = @ \cup {c},
                         !.refs = [o \in Objects |-> @[o] + Occurrences[c][o]]]
    PROVE  /\ e \in Database /\ e.rows = d.rows \cup {c} /\ e.head = d.head
           /\ e.refs = [o \in Objects |-> d.refs[o] + Occurrences[c][o]]
<1>1. [o \in Objects |-> d.refs[o] + Occurrences[c][o]] \in [Objects -> Nat]
  BY IndexAssumption DEF Database
<1>2. /\ e.rows = d.rows \cup {c} /\ e.head = d.head
      /\ e.refs = [o \in Objects |-> d.refs[o] + Occurrences[c][o]]
  BY DEF Database
<1>3. e = [rows |-> e.rows, refs |-> e.refs, head |-> e.head]
  BY DEF Database
<1>4. QED
  BY <1>1, <1>2, <1>3 DEF Database

(* ... of one less, ... *)
LEMMA RowsRemoved ==
    ASSUME NEW d \in Database, NEW c \in Ckpts, NEW e,
           \A o \in Objects : d.refs[o] >= Occurrences[c][o],
           e = [d EXCEPT !.rows = @ \ {c},
                         !.refs = [o \in Objects |-> @[o] - Occurrences[c][o]]]
    PROVE  /\ e \in Database /\ e.rows = d.rows \ {c} /\ e.head = d.head
           /\ e.refs = [o \in Objects |-> d.refs[o] - Occurrences[c][o]]
<1>1. [o \in Objects |-> d.refs[o] - Occurrences[c][o]] \in [Objects -> Nat]
  BY IndexAssumption DEF Database
<1>2. /\ e.rows = d.rows \ {c} /\ e.head = d.head
      /\ e.refs = [o \in Objects |-> d.refs[o] - Occurrences[c][o]]
  BY DEF Database
<1>3. e = [rows |-> e.rows, refs |-> e.refs, head |-> e.head]
  BY DEF Database
<1>4. QED
  BY <1>1, <1>2, <1>3 DEF Database

(* ... and with another head. *)
LEMMA HeadSet ==
    ASSUME NEW d \in Database, NEW h \in Nat, NEW e, e = [d EXCEPT !.head = h]
    PROVE  e \in Database /\ e.rows = d.rows /\ e.refs = d.refs /\ e.head = h
BY DEF Database

-----------------------------------------------------------------------------
(* What the steps that write a journal or the index do to it. *)

(* A creation begins with a journal and a number for its checkpoint. *)
LEMMA OpenDoes ==
    ASSUME Data, NEW c \in Ckpts, open_index_connection(c)
    PROVE  /\ cj' \in CreateJournal /\ cj' # None
           /\ cj'.id = c /\ cj'.state = "Prepared"
           /\ born' \in [Ckpts -> Nat] /\ born'[c] # 0
           /\ \A d \in Ckpts : d # c => born'[d] = born[d]
           /\ parent' \in [Ckpts -> Ckpts \cup {None}]
           /\ conn' => Current
<1>1. cj' \in CreateJournal /\ cj'.id = c /\ cj'.state = "Prepared"
  BY DEF open_index_connection, CreateJournal, CreateState
<1>2. cj' # None
  BY <1>1, NoneAssumption
<1>3. /\ born' \in [Ckpts -> Nat] /\ born'[c] # 0
      /\ \A d \in Ckpts : d # c => born'[d] = born[d]
  BY CountedTyped DEF Data, open_index_connection
<1>4. parent' \in [Ckpts -> Ckpts \cup {None}]
  BY DEF Data, open_index_connection
<1>5. conn' => Current
  BY StatusIsCurrent DEF open_index_connection
<1>6. QED
  BY <1>1, <1>2, <1>3, <1>4, <1>5

(* The journal follows the publication of the root, ... *)
LEMMA PublishRootDoes ==
    ASSUME Data, Found, PublishRoot
    PROVE  /\ cur \in Ckpts
           /\ cj' \in CreateJournal /\ cj' # None
           /\ cj'.id = cj.id /\ cj'.state = "RootPublished"
<1>1. cj \in CreateJournal /\ cur \in Ckpts
  BY DEF Data, Found, PublishRoot, CreateSteps
<1>2. QED
  BY <1>1, CreateAdvanced DEF PublishRoot, CreateState

(* ... the inventory transition, ... *)
LEMMA AddInventoryDoes ==
    ASSUME Data, Found, AddInventory
    PROVE  /\ cur \in Ckpts
           /\ cj' \in CreateJournal /\ cj' # None
           /\ cj'.id = cj.id /\ cj'.state = "InventoryUpdated"
<1>1. cj \in CreateJournal /\ cur \in Ckpts
  BY DEF Data, Found, AddInventory, CreateSteps
<1>2. QED
  BY <1>1, CreateAdvanced DEF AddInventory, CreateState

(* ... and the move of refs/latest. *)
LEMMA WriteLatestDoes ==
    ASSUME Data, Found, WriteLatest
    PROVE  /\ cur \in Ckpts
           /\ cj' \in CreateJournal /\ cj' # None
           /\ cj'.id = cj.id /\ cj'.state = "LatestUpdated"
<1>1. cj \in CreateJournal /\ cur \in Ckpts
  BY DEF Data, Found, WriteLatest, CreateSteps
<1>2. QED
  BY <1>1, CreateAdvanced DEF WriteLatest, CreateState

(* The rows of the new checkpoint are added, or nothing is. *)
LEMMA IndexRowsDoes ==
    ASSUME Data, Found, index_snapshot_with_connection
    PROVE  /\ cur \in Ckpts /\ db \in Database
           /\ db' \in Database /\ Valid' /\ db'.head = db.head
           /\ \/ /\ pc' = "commitCreate" /\ impaired' = TRUE /\ db' = db
              \/ /\ pc' = "indexHead" /\ impaired' = impaired
                 /\ cur \notin db.rows =>
                      /\ db'.rows = db.rows \cup {cur}
                      /\ db'.refs = [o \in Objects |-> db.refs[o] + Occurrences[cur][o]]
<1>1. db \in Database /\ cur \in Ckpts
  BY DEF Data, Found, Valid, index_snapshot_with_connection, CreateSteps
<1>2. CASE IndexFails("commitCreate")
  <2>1. pc' = "commitCreate" /\ impaired' = TRUE /\ db' = db
    BY <1>2 DEF IndexFails, Goto
  <2>2. QED
    BY <1>1, <2>1, NoneAssumption DEF Valid
<1>3. CASE ~IndexFails("commitCreate")
  <2>1. /\ pc' = "indexHead" /\ impaired' = impaired
        /\ db' = IF cur \in db.rows THEN db
                 ELSE [db EXCEPT !.rows = @ \cup {cur},
                                 !.refs = [o \in Objects |-> @[o] + Occurrences[cur][o]]]
    BY <1>3 DEF index_snapshot_with_connection, Goto
  <2>2. CASE cur \in db.rows
    BY <1>1, <2>1, <2>2, NoneAssumption DEF Valid
  <2>3. CASE cur \notin db.rows
    <3>1. db' = [db EXCEPT !.rows = @ \cup {cur},
                           !.refs = [o \in Objects |-> @[o] + Occurrences[cur][o]]]
      BY <2>1, <2>3
    <3>2. /\ db' \in Database /\ db'.rows = db.rows \cup {cur} /\ db'.head = db.head
          /\ db'.refs = [o \in Objects |-> db.refs[o] + Occurrences[cur][o]]
      <4>1. db'.rows = db.rows \cup {cur} /\ db'.head = db.head
        BY <1>1, <3>1 DEF Database
      <4>2. db' \in Database
        BY <1>1, <3>1, RowsAdded
      <4>3. db'.refs = [o \in Objects |-> db.refs[o] + Occurrences[cur][o]]
        BY <1>1, <3>1, RowsAdded
      <4>4. QED
        BY <4>1, <4>2, <4>3
    <3>3. QED
      BY <1>1, <2>1, <2>3, <3>2, NoneAssumption DEF Valid
  <2>4. QED
    BY <2>2, <2>3
<1>4. QED
  BY <1>2, <1>3

(* The head is written, or nothing is. *)
LEMMA HeadDoes ==
    ASSUME Data, Found, write_snapshot_inventory_head
    PROVE  /\ db \in Database
           /\ db' \in Database /\ Valid' /\ db'.rows = db.rows /\ db'.refs = db.refs
           /\ pc' = IF pc = "indexHead" THEN "commitCreate" ELSE "dropName"
           /\ \/ impaired' = TRUE /\ db' = db
              \/ impaired' = impaired /\ db'.head = head
<1>1. db \in Database
  BY DEF Data, Found, Valid, write_snapshot_inventory_head, CreateSteps
<1>2. pc' = IF pc = "indexHead" THEN "commitCreate" ELSE "dropName"
  BY DEF write_snapshot_inventory_head, IndexFails, Goto
<1>3. CASE HeadWritten
  <2>1. db' \in Database /\ db'.rows = db.rows /\ db'.refs = db.refs /\ db'.head = head
    BY <1>1, <1>3, HeadSet DEF HeadWritten, Data
  <2>2. impaired' = impaired
    BY <1>3 DEF HeadWritten
  <2>3. QED
    BY <1>1, <1>2, <2>1, <2>2, NoneAssumption DEF Valid
<1>4. CASE ~HeadWritten
  <2>1. impaired' = TRUE /\ db' = db
    BY <1>4 DEF write_snapshot_inventory_head, IndexFails
  <2>2. QED
    BY <1>1, <1>2, <2>1, NoneAssumption DEF Valid
<1>5. QED
  BY <1>3, <1>4

(* A deletion begins with a journal, or is refused. *)
LEMMA DeleteDoes ==
    ASSUME Data, Flags, NEW c \in Ckpts, delete_checkpoint(c)
    PROVE  /\ dj' \in [Ckpts -> DeleteJournal \cup {None}]
           /\ \/ UNCHANGED <<dj, cj>> /\ Finish
              \/ /\ c \in inventory /\ cj' = cj
                 /\ pc' = "removeInventory" /\ cur' = c
                 /\ todo' = todo /\ recovered' = recovered /\ conn' = conn
                 /\ dj'[c] # None /\ dj'[c].state = "Staged"
                 /\ dj'[c].update_index <=> Current
                 /\ \A d \in Ckpts : d # c => dj'[d] = dj[d]
<1> DEFINE J == [state |-> "Staged", update_index |-> UpdateIndex, new_latest |-> NewLatest(c)]
<1>1. NewLatest(c) \in Ckpts \cup {None}
  BY NewLatestTyped DEF Data, Flags, TypeOK
<1>2. J \in DeleteJournal
  <2>1. UpdateIndex \in BOOLEAN
    BY DEF UpdateIndex
  <2>2. QED
    BY <1>1, <2>1 DEF DeleteJournal, DeleteState
<1>3. CASE c \in inventory /\ readable
  <2>1. /\ dj' = [dj EXCEPT ![c] = J] /\ cj' = cj
        /\ pc' = "removeInventory" /\ cur' = c
        /\ todo' = todo /\ recovered' = recovered /\ conn' = conn
    BY <1>3 DEF delete_checkpoint
  <2>2. dj'[c] = J /\ \A d \in Ckpts : d # c => dj'[d] = dj[d]
    BY <2>1 DEF Data
  <2>3. dj' \in [Ckpts -> DeleteJournal \cup {None}]
    BY <2>1, <1>2 DEF Data
  <2>4. dj'[c] # None
    BY <2>2, <1>2, NoneAssumption
  <2>5. J.state = "Staged" /\ (J.update_index <=> Current)
    BY StatusIsCurrent DEF UpdateIndex
  <2>6. QED
    BY <1>3, <2>1, <2>2, <2>3, <2>4, <2>5
<1>4. CASE ~(c \in inventory /\ readable)
  BY <1>4 DEF delete_checkpoint, Data
<1>5. QED
  BY <1>3, <1>4

(* The journal follows the inventory transition. *)
LEMMA RemoveInventoryDoes ==
    ASSUME Data, Found, RemoveInventory
    PROVE  /\ cur \in Pending /\ Pending' = Pending
           /\ dj' \in [Ckpts -> DeleteJournal \cup {None}]
           /\ dj'[cur].state = "InventoryUpdated"
           /\ dj'[cur].update_index = dj[cur].update_index
           /\ \A d \in Ckpts : d # cur => dj'[d] = dj[d]
<1>1. cur \in Ckpts /\ dj[cur] # None
  BY DEF Found, Pending, RemoveInventory, DeleteSteps
<1>2. /\ dj' \in [Ckpts -> DeleteJournal \cup {None}] /\ dj'[cur] # None
      /\ dj'[cur].state = "InventoryUpdated"
      /\ dj'[cur].update_index = dj[cur].update_index
      /\ \A d \in Ckpts : d # cur => dj'[d] = dj[d]
  BY <1>1, DeleteAdvanced DEF Data, RemoveInventory
<1>3. QED
  BY <1>1, <1>2 DEF Pending

(* The rows of the deleted checkpoint are removed, or nothing is. *)
LEMMA UnindexDoes ==
    ASSUME Data, Found, delete_snapshot_from_index
    PROVE  /\ cur \in Pending
           /\ db' \in Database \cup {Missing, Unreadable}
           /\ \/ /\ pc' = "dropName" /\ db' = db
                 /\ (CanUnindex(cur) /\ impaired' = TRUE) \/ (~CanUnindex(cur) /\ impaired' = impaired)
              \/ /\ pc' = "unindexHead" /\ impaired' = impaired /\ CanUnindex(cur)
                 /\ db \in Database /\ db' \in Database /\ Valid'
                 /\ db'.rows = db.rows \ {cur} /\ db'.head = db.head
                 /\ db'.refs = [o \in Objects |-> db.refs[o] - Occurrences[cur][o]]
<1>1. cur \in Pending /\ cur \in Ckpts
  BY DEF Found, Pending, delete_snapshot_from_index, DeleteSteps
<1>2. CASE pc' = "dropName"
  <2>1. /\ db' = db
        /\ (CanUnindex(cur) /\ impaired' = TRUE) \/ (~CanUnindex(cur) /\ impaired' = impaired)
    BY <1>2 DEF delete_snapshot_from_index, IndexFails, Goto, index
  <2>2. QED
    BY <1>1, <1>2, <2>1 DEF Data
<1>3. CASE pc' # "dropName"
  <2>1. /\ pc' = "unindexHead" /\ impaired' = impaired /\ CanUnindex(cur)
        /\ db' = [db EXCEPT !.rows = @ \ {cur},
                            !.refs = [o \in Objects |-> @[o] - Occurrences[cur][o]]]
    BY <1>3 DEF delete_snapshot_from_index, IndexFails, Goto
  <2>2. db \in Database /\ \A o \in Objects : db.refs[o] >= Occurrences[cur][o]
    BY <2>1 DEF Data, CanUnindex
  <2>3. /\ db' \in Database /\ db'.rows = db.rows \ {cur} /\ db'.head = db.head
        /\ db'.refs = [o \in Objects |-> db.refs[o] - Occurrences[cur][o]]
    BY <1>1, <2>1, <2>2, RowsRemoved
  <2>4. Valid'
    BY <2>3, NoneAssumption DEF Valid
  <2>5. QED
    BY <1>1, <2>1, <2>2, <2>3, <2>4
<1>4. QED
  BY <1>2, <1>3

(* The journal goes, or stays. *)
LEMMA CommitDeleteDoes ==
    ASSUME Data, Found, CommitDelete
    PROVE  /\ cur \in Pending
           /\ dj' \in [Ckpts -> DeleteJournal \cup {None}]
           /\ \/ dj' = dj /\ Pending' = Pending
              \/ Pending' = Pending \ {cur} /\ \A d \in Ckpts : d # cur => dj'[d] = dj[d]
<1>1. cur \in Pending
  BY DEF Found, CommitDelete, DeleteSteps
<1>2. CASE dj' = dj
  BY <1>1, <1>2 DEF Data, Pending
<1>3. CASE dj' # dj
  <2>1. dj' = [dj EXCEPT ![cur] = None]
    BY <1>3 DEF CommitDelete
  <2>2. QED
    BY <1>1, <2>1 DEF Data, Pending
<1>4. QED
  BY <1>2, <1>3

(* Every step keeps the types, and finds what it writes. *)
LEMMA TypeStep == TypeInv /\ [Next]_vars => TypeInv'
<1> SUFFICES ASSUME Data, Flags, Found, [Next]_vars
             PROVE  Data' /\ Flags' /\ Found'
  BY DEF TypeInv, TypeOK, Data, Flags, Found
<1>1. CASE DamageIndex
  <2>1. Data'
    BY <1>1 DEF Data, DamageIndex, repository, journals, names, control
  <2>2. Flags'
    BY Zenon, <1>1 DEF Flags, DamageIndex, names, index, control
  <2>3. Found'
    BY <1>1 DEF Found, Pending, DamageIndex, journals, control, CreateSteps
  <2>4. QED
    BY <2>1, <2>2, <2>3
<1>2. CASE DamageNames
  <2>1. Data'
    BY <1>2 DEF Data, DamageNames, repository, journals, index, control
  <2>2. Flags'
    BY Zenon, <1>2 DEF Flags, DamageNames, names, index, control
  <2>3. Found'
    BY <1>2 DEF Found, Pending, Valid, DamageNames, journals, index, control
  <2>4. QED
    BY <2>1, <2>2, <2>3
<1>3. CASE \E o \in {"create", "delete", "rename", "rebuild"} : Acquire(o)
  <2>1. Data'
    BY <1>3 DEF Data, Acquire, repository, journals, names, index, control, Steps
  <2>2. Flags'
    BY Zenon, <1>3 DEF Flags, Acquire, names, index, control
  <2>3. Found'
    BY <1>3 DEF Found, Pending, Acquire, journals, control, CreateSteps, DeleteSteps
  <2>4. QED
    BY <2>1, <2>2, <2>3
<1>4. CASE Crash
  <2>1. Data'
    BY <1>4 DEF Data, Crash, Finish, repository, journals, names, index, control, Steps
  <2>2. Flags'
    BY Zenon, <1>4 DEF Flags, Crash, Finish, names, index, control
  <2>3. Found'
    BY <1>4 DEF Found, Crash, Finish, index, control, CreateSteps, DeleteSteps
  <2>4. QED
    BY <2>1, <2>2, <2>3
<1>5. CASE RecoverCreation
  <2>1. cj # None => cj.id \in Ckpts
    BY DEF Data, CreateJournal
  <2>2. Data'
    BY <1>5, <2>1 DEF Data, RecoverCreation, Goto, repository, journals, names, index,
       control, Steps
  <2>3. Flags'
    BY Zenon, <1>5 DEF Flags, RecoverCreation, Goto, journals, names, index, control
  <2>4. Found'
    BY <1>5, <2>1 DEF Found, Pending, RecoverCreation, Goto, control, CreateSteps, DeleteSteps
  <2>5. QED
    BY <2>2, <2>3, <2>4
<1>6. CASE RecoverDeletion
  <2>1. Data'
    BY <1>6 DEF Data, RecoverDeletion, Goto, repository, journals, names, index, control, Steps
  <2>2. Flags'
    BY Zenon, <1>6 DEF Flags, RecoverDeletion, Goto, names, index, control
  <2>3. Found'
    BY <1>6 DEF Found, Pending, RecoverDeletion, Goto, journals, control, CreateSteps,
       DeleteSteps
  <2>4. QED
    BY <2>1, <2>2, <2>3
<1>7. CASE AfterRecovery
  <2>1. Data'
    BY <1>7 DEF Data, AfterRecovery, Goto, Granted, repository, journals, names, index,
       control, Steps
  <2>2. Flags'
    BY Zenon, <1>7 DEF Flags, AfterRecovery, Goto, Granted, names, index, control
  <2>3. Found'
    BY <1>7 DEF Found, Pending, AfterRecovery, Goto, Granted, journals, control, CreateSteps,
       DeleteSteps
  <2>4. QED
    BY <2>1, <2>2, <2>3
<1>8. CASE build_snapshot_index
  <2>1. Data'
    BY <1>8 DEF Data, build_snapshot_index, Goto, EndRebuild, Granted, Finish, repository,
       journals, names, index, control, Steps
  <2>2. Flags'
    BY Zenon, <1>8 DEF Flags, build_snapshot_index, Goto, EndRebuild, Granted, Finish, names,
       index, control
  <2>3. Found'
    BY <1>8 DEF Found, Pending, build_snapshot_index, Goto, EndRebuild, Granted, Finish,
       journals, control, CreateSteps, DeleteSteps
  <2>4. QED
    BY <2>1, <2>2, <2>3
<1>9. CASE prune_checkpoint_name_overrides
  <2>1. Data'
    BY <1>9 DEF Data, prune_checkpoint_name_overrides, Goto, repository, journals, names,
       index, control, Steps
  <2>2. Flags'
    BY Zenon, <1>9 DEF Flags, prune_checkpoint_name_overrides, Goto, names, index, control
  <2>3. Found'
    BY <1>9 DEF Found, Pending, prune_checkpoint_name_overrides, Goto, journals, control,
       CreateSteps, DeleteSteps
  <2>4. QED
    BY <2>1, <2>2, <2>3
<1>10. CASE publish_snapshot_index
  <2>1. Rebuilt \in Database
    BY RefsTyped DEF Data, Rebuilt, Database
  <2>2. Data'
    BY <1>10, <2>1 DEF Data, publish_snapshot_index, Goto, EndRebuild, Granted, Finish,
       repository, journals, names, index, control, Steps
  <2>3. Flags'
    BY Zenon, <1>10 DEF Flags, publish_snapshot_index, Goto, EndRebuild, Granted, Finish,
       names, index, control
  <2>4. Found'
    BY <1>10, <2>1 DEF Found, Pending, publish_snapshot_index, Goto, EndRebuild, Granted,
       Finish, journals, index, control, CreateSteps, DeleteSteps
  <2>5. QED
    BY <2>2, <2>3, <2>4
<1>11. CASE StartRebuild
  <2>1. Data'
    BY <1>11 DEF Data, StartRebuild, Goto, repository, journals, names, index, control, Steps
  <2>2. Flags'
    BY Zenon, <1>11 DEF Flags, StartRebuild, Goto, names, index, control
  <2>3. Found'
    BY <1>11 DEF Found, Pending, StartRebuild, Goto, journals, control, CreateSteps, DeleteSteps
  <2>4. QED
    BY <2>1, <2>2, <2>3
<1>12. CASE \E c \in Ckpts : rename_checkpoint(c)
  <2>1. Data'
    BY <1>12 DEF Data, rename_checkpoint, Finish, repository, journals, names, index, control,
       Steps
  <2>2. Flags'
    BY Zenon, <1>12 DEF Flags, rename_checkpoint, Finish, names, index, control
  <2>3. Found'
    BY <1>12 DEF Found, rename_checkpoint, Finish, control, CreateSteps, DeleteSteps
  <2>4. QED
    BY <2>1, <2>2, <2>3
<1>13. CASE \E c \in Ckpts : open_index_connection(c)
  <2>1. Data'
    BY <1>13, OpenDoes DEF Data, open_index_connection, repository, journals, names, index,
       control, Steps
  <2>2. Flags'
    BY Zenon, <1>13 DEF Flags, open_index_connection, repository, journals, names, index,
       control
  <2>3. Found'
    BY <1>13, OpenDoes DEF Data, Found, Pending, Valid, Current, open_index_connection, index,
       control, CreateSteps, DeleteSteps
  <2>4. QED
    BY <2>1, <2>2, <2>3
<1>14. CASE \E c \in Ckpts : delete_checkpoint(c)
  <2>1. Data'
    BY <1>14, DeleteDoes DEF Data, delete_checkpoint, Finish, repository, journals, names,
       index, control, Steps
  <2>2. Flags'
    BY Zenon, <1>14 DEF Flags, delete_checkpoint, Finish, journals, names, index, control
  <2>3. Found'
    BY <1>14, DeleteDoes DEF Found, Pending, Finish, control, CreateSteps, DeleteSteps
  <2>4. QED
    BY <2>1, <2>2, <2>3
<1>15. CASE PublishRoot
  <2>1. Data'
    BY <1>15, PublishRootDoes DEF Data, PublishRoot, Goto, repository, journals, names, index,
       control, Steps
  <2>2. Flags'
    BY Zenon, <1>15 DEF Flags, PublishRoot, Goto, journals, names, index, control
  <2>3. Found'
    BY <1>15, PublishRootDoes DEF Found, Pending, Valid, PublishRoot, Goto, index, control,
       CreateSteps, DeleteSteps
  <2>4. QED
    BY <2>1, <2>2, <2>3
<1>16. CASE AddInventory
  <2>1. Data'
    BY <1>16, AddInventoryDoes DEF Data, AddInventory, Goto, repository, journals, names,
       index, control, Steps
  <2>2. Flags'
    BY Zenon, <1>16 DEF Flags, AddInventory, Goto, repository, journals, names, index, control
  <2>3. Found'
    BY <1>16, AddInventoryDoes DEF Found, Pending, Valid, AddInventory, Goto, index, control,
       CreateSteps, DeleteSteps
  <2>4. QED
    BY <2>1, <2>2, <2>3
<1>17. CASE WriteLatest
  <2>1. Data'
    BY <1>17, WriteLatestDoes DEF Data, WriteLatest, Goto, repository, journals, names, index,
       control, Steps
  <2>2. Flags'
    BY Zenon, <1>17 DEF Flags, WriteLatest, Goto, repository, journals, names, index, control
  <2>3. Found'
    BY <1>17, WriteLatestDoes DEF Found, Pending, Valid, WriteLatest, Goto, index, control,
       CreateSteps, DeleteSteps
  <2>4. QED
    BY <2>1, <2>2, <2>3
<1>18. CASE index_snapshot_with_connection
  <2>1. Data'
    BY <1>18, IndexRowsDoes DEF Data, index_snapshot_with_connection, Goto, IndexFails,
       repository, journals, names, index, control, Steps
  <2>2. Flags'
    BY Zenon, <1>18 DEF Flags, index_snapshot_with_connection, Goto, IndexFails, names, index,
       control
  <2>3. Found'
    BY <1>18, IndexRowsDoes DEF Found, Pending, index_snapshot_with_connection, Goto,
       IndexFails, journals, index, control, CreateSteps, DeleteSteps
  <2>4. QED
    BY <2>1, <2>2, <2>3
<1>19. CASE write_snapshot_inventory_head
  <2>1. Data'
    BY <1>19, HeadDoes DEF Data, write_snapshot_inventory_head, Goto, IndexFails, repository,
       journals, names, index, control, Steps
  <2>2. Flags'
    BY Zenon, <1>19 DEF Flags, write_snapshot_inventory_head, Goto, IndexFails, HeadWritten,
       names, index, control
  <2>3. Found'
    BY <1>19, HeadDoes DEF Found, Pending, write_snapshot_inventory_head, Goto, IndexFails,
       journals, index, control, CreateSteps, DeleteSteps
  <2>4. QED
    BY <2>1, <2>2, <2>3
<1>20. CASE CommitCreate
  <2>1. Data'
    BY <1>20 DEF Data, CommitCreate, Finish, repository, journals, names, index, control, Steps
  <2>2. Flags'
    BY Zenon, <1>20 DEF Flags, CommitCreate, Finish, journals, names, index, control
  <2>3. Found'
    BY <1>20 DEF Found, CommitCreate, Finish, control, CreateSteps, DeleteSteps
  <2>4. QED
    BY <2>1, <2>2, <2>3
<1>21. CASE RemoveInventory
  <2>1. Data'
    BY <1>21, RemoveInventoryDoes DEF Data, RemoveInventory, Goto, repository, journals,
       names, index, control, Steps
  <2>2. Flags'
    BY Zenon, <1>21 DEF Flags, RemoveInventory, Goto, repository, journals, names, index,
       control
  <2>3. Found'
    BY <1>21, RemoveInventoryDoes DEF Found, RemoveInventory, Goto, CreateSteps
  <2>4. QED
    BY <2>1, <2>2, <2>3
<1>22. CASE update_latest_for_checkpoint_deletion
  <2>1. cur \in Ckpts /\ dj[cur] # None
    BY <1>22 DEF Found, Pending, update_latest_for_checkpoint_deletion, DeleteSteps
  <2>2. dj[cur].new_latest \in Ckpts \cup {None}
    BY <2>1 DEF Data, DeleteJournal
  <2>3. Data'
    BY <1>22, <2>1, <2>2 DEF Data, update_latest_for_checkpoint_deletion, Goto, repository,
       journals, names, index, control, Steps
  <2>4. Flags'
    BY Zenon, <1>22 DEF Flags, update_latest_for_checkpoint_deletion, Goto, names, index,
       control
  <2>5. Found'
    BY <1>22, <2>1, <2>2 DEF Found, Pending, update_latest_for_checkpoint_deletion, Goto,
       journals, CreateSteps
  <2>6. QED
    BY <2>3, <2>4, <2>5
<1>23. CASE delete_snapshot_from_index
  <2>1. Data'
    BY <1>23, UnindexDoes DEF Data, delete_snapshot_from_index, Goto, IndexFails, repository,
       journals, names, control, Steps
  <2>2. Flags'
    BY Zenon, <1>23 DEF Flags, delete_snapshot_from_index, Goto, IndexFails, names, index,
       control
  <2>3. Found'
    BY <1>23, UnindexDoes DEF Found, Pending, delete_snapshot_from_index, Goto, IndexFails,
       journals, CreateSteps
  <2>4. QED
    BY <2>1, <2>2, <2>3
<1>24. CASE remove_checkpoint_name_override
  <2>1. Data'
    BY <1>24 DEF Data, remove_checkpoint_name_override, Goto, repository, journals, names,
       index, control, Steps
  <2>2. Flags'
    BY Zenon, <1>24 DEF Flags, remove_checkpoint_name_override, Goto, names, index, control
  <2>3. Found'
    BY <1>24 DEF Found, Pending, remove_checkpoint_name_override, Goto, journals, control,
       CreateSteps, DeleteSteps
  <2>4. QED
    BY <2>1, <2>2, <2>3
<1>25. CASE CommitDelete
  <2>1. Data'
    BY <1>25, CommitDeleteDoes DEF Data, CommitDelete, Finish, repository, journals, names,
       index, control, Steps
  <2>2. Flags'
    BY Zenon, <1>25 DEF Flags, CommitDelete, Finish, journals, names, index, control
  <2>3. Found'
    BY <1>25, CommitDeleteDoes DEF Found, CommitDelete, Finish, control, CreateSteps,
       DeleteSteps
  <2>4. QED
    BY <2>1, <2>2, <2>3
<1>26. CASE UNCHANGED vars
  BY <1>26 DEF Data, Flags, Found, Pending, Valid, vars, repository, journals, names, index,
     control
<1>27. QED
  BY <1>1, <1>2, <1>3, <1>4, <1>5, <1>6, <1>7, <1>8, <1>9, <1>10, <1>11, <1>12, <1>13, <1>14,
     <1>15, <1>16, <1>17, <1>18, <1>19, <1>20, <1>21, <1>22, <1>23, <1>24, <1>25, <1>26 DEF
     Next

(* Every state has its types: the steps find the journals they write, and  *)
(* write the index only where there is one.                                *)
THEOREM IndexTypeCorrect == Spec => []TypeOK
<1>1. TypeInv => TypeOK
  BY DEF TypeInv
<1>2. QED
  BY <1>1, TypeInit, TypeStep, PTL DEF Spec

-----------------------------------------------------------------------------
(* Names. *)

(* Each step keeps a name without a checkpoint within its deletion. *)
LEMMA NamesStep == TypeInv /\ NamesInv /\ [Next]_vars => NamesInv'
<1> SUFFICES ASSUME Data, Flags, Found, NamesInv, [Next]_vars
             PROVE  NamesInv'
  BY TypeParts
<1>1. CASE DamageIndex
  BY <1>1 DEF NamesInv, Pending, DamageIndex, repository, journals, names, index, control
<1>2. CASE DamageNames
  BY <1>2 DEF NamesInv, Pending, DamageNames, repository, journals, control
<1>3. CASE \E o \in {"create", "delete", "rename", "rebuild"} : Acquire(o)
  BY <1>3 DEF NamesInv, Pending, Acquire, repository, journals, names, control
<1>4. CASE Crash
  BY <1>4 DEF NamesInv, Pending, Crash, Finish, repository, journals, names, index, control
<1>5. CASE RecoverCreation
  BY <1>5 DEF NamesInv, Pending, RecoverCreation, Goto, repository, names, control
<1>6. CASE RecoverDeletion
  BY <1>6 DEF NamesInv, Pending, RecoverDeletion, Goto, repository, journals, names, control
<1>7. CASE AfterRecovery
  BY <1>7 DEF NamesInv, Pending, AfterRecovery, Goto, Granted, repository, journals, names,
     control
<1>8. CASE build_snapshot_index
  BY <1>8 DEF NamesInv, Pending, build_snapshot_index, Goto, EndRebuild, Granted, Finish,
     repository, journals, names, control
<1>9. CASE prune_checkpoint_name_overrides
  BY <1>9 DEF NamesInv, Pending, prune_checkpoint_name_overrides, Goto, repository, journals,
     control
<1>10. CASE publish_snapshot_index
  BY <1>10 DEF NamesInv, Pending, publish_snapshot_index, Goto, EndRebuild, Granted, Finish,
     repository, journals, names, index, control
<1>11. CASE StartRebuild
  BY <1>11 DEF NamesInv, Pending, StartRebuild, Goto, repository, journals, names, control
<1>12. CASE \E c \in Ckpts : rename_checkpoint(c)
  BY <1>12 DEF NamesInv, Pending, rename_checkpoint, Finish, repository, journals, control
<1>13. CASE \E c \in Ckpts : open_index_connection(c)
  BY <1>13 DEF NamesInv, Pending, open_index_connection, repository, journals, names, index,
     control
<1>14. CASE \E c \in Ckpts : delete_checkpoint(c)
  BY <1>14, DeleteDoes DEF Data, NamesInv, Pending, delete_checkpoint, Finish, repository,
     names, control
<1>15. CASE PublishRoot
  BY <1>15 DEF NamesInv, Pending, PublishRoot, Goto, repository, names, control
<1>16. CASE AddInventory
  BY <1>16 DEF NamesInv, Pending, AddInventory, Goto, names, control
<1>17. CASE WriteLatest
  BY <1>17 DEF NamesInv, Pending, WriteLatest, Goto, names, control
<1>18. CASE index_snapshot_with_connection
  BY <1>18 DEF NamesInv, Pending, index_snapshot_with_connection, Goto, IndexFails,
     repository, journals, names, index, control
<1>19. CASE write_snapshot_inventory_head
  BY <1>19 DEF NamesInv, Pending, write_snapshot_inventory_head, Goto, IndexFails, repository,
     journals, names, index, control
<1>20. CASE CommitCreate
  BY <1>20 DEF NamesInv, Pending, CommitCreate, Finish, repository, names, control
<1>21. CASE RemoveInventory
  BY <1>21, RemoveInventoryDoes DEF NamesInv, RemoveInventory, Goto, names, control
<1>22. CASE update_latest_for_checkpoint_deletion
  BY <1>22 DEF NamesInv, Pending, update_latest_for_checkpoint_deletion, Goto, journals,
     names, control
<1>23. CASE delete_snapshot_from_index
  BY <1>23 DEF NamesInv, Pending, delete_snapshot_from_index, Goto, IndexFails, repository,
     journals, names, control
<1>24. CASE remove_checkpoint_name_override
  BY <1>24 DEF NamesInv, Pending, remove_checkpoint_name_override, Goto, repository, journals,
     control
<1>25. CASE CommitDelete
  BY <1>25, CommitDeleteDoes DEF NamesInv, CommitDelete, Finish, repository, names, control
<1>26. CASE UNCHANGED vars
  BY <1>26 DEF NamesInv, Pending, vars, repository, journals, names, control
<1>27. QED
  BY <1>1, <1>2, <1>3, <1>4, <1>5, <1>6, <1>7, <1>8, <1>9, <1>10, <1>11, <1>12, <1>13, <1>14,
     <1>15, <1>16, <1>17, <1>18, <1>19, <1>20, <1>21, <1>22, <1>23, <1>24, <1>25, <1>26 DEF
     Next

(* A display name outlives its checkpoint only if the file could not be    *)
(* read or written when remove_checkpoint_name_override wanted to remove   *)
(* it, and no pruning succeeded since, whatever the crashes and failures   *)
(* before.                                                                 *)
THEOREM NamesBelongToCheckpoints == Spec => []NamesAreOfCheckpoints
<1>1. Init => NamesInv
  BY DEF Init, NamesInv
<1>2. NamesInv => NamesAreOfCheckpoints
  BY DEF NamesInv, NamesAreOfCheckpoints, AtRest, Pending
<1>3. QED
  BY <1>1, <1>2, TypeInit, TypeStep, NamesStep, PTL DEF Spec

-----------------------------------------------------------------------------
(* Control.  From here on the last journal write of a deletion does not    *)
(* fail in a recovery: the journal would be left behind while the          *)
(* operation goes on, and the next deletion would find it there.           *)

(* Every step keeps to one journal, in step with the inventory. *)
LEMMA ControlStep ==
    ASSUME RecoveryMayNotFinalize = FALSE, TypeInv, TypeInv', ControlInv, [Next]_vars
    PROVE  ControlInv'
<1>0. Data /\ Flags /\ Found
  BY TypeParts
<1>1. CASE DamageIndex
  <2>1. OneJournal' /\ Born' /\ CreationProgress'
    BY <1>1 DEF ControlInv, OneJournal, Born, CreationProgress, Pending, DamageIndex,
       repository, journals
  <2>2. Phase'
    BY <1>0, <1>1 DEF ControlInv, Phase, Granting, CreateSteps, DeleteSteps, BuildSteps,
       DamageIndex, index, control
  <2>3. CreateStep' /\ DeletionProgress'
    BY <1>0, <1>1 DEF ControlInv, CreateStep, DeletionProgress, Pending, DamageIndex,
       repository, journals, index, control
  <2>4. QED
    BY <2>1, <2>2, <2>3 DEF ControlInv
<1>2. CASE DamageNames
  <2>1. OneJournal' /\ Born' /\ CreationProgress'
    BY <1>2 DEF ControlInv, OneJournal, Born, CreationProgress, Pending, DamageNames,
       repository, journals
  <2>2. Phase'
    BY <1>0, <1>2 DEF ControlInv, Phase, Pending, DamageNames, journals, control
  <2>3. CreateStep' /\ DeletionProgress'
    BY <1>0, <1>2 DEF ControlInv, CreateStep, DeletionProgress, Pending, DamageNames,
       repository, journals, control
  <2>4. QED
    BY <2>1, <2>2, <2>3 DEF ControlInv
<1>3. CASE \E o \in {"create", "delete", "rename", "rebuild"} : Acquire(o)
  <2>1. OneJournal' /\ Born' /\ CreationProgress'
    BY <1>3 DEF ControlInv, OneJournal, Born, CreationProgress, Pending, Acquire, repository,
       journals, control
  <2>2. Phase'
    BY <1>0, <1>3 DEF Phase, Pending, Granting, CreateSteps, DeleteSteps, BuildSteps, Acquire,
       journals, control
  <2>3. CreateStep' /\ DeletionProgress'
    BY <1>0, <1>3 DEF ControlInv, CreateStep, DeletionProgress, Pending, CreateSteps,
       DeleteSteps, Acquire, repository, journals, control
  <2>4. QED
    BY <2>1, <2>2, <2>3 DEF ControlInv
<1>4. CASE Crash
  <2>1. OneJournal' /\ Born' /\ CreationProgress'
    BY <1>4 DEF ControlInv, OneJournal, Born, CreationProgress, Pending, Crash, repository,
       journals, index, control
  <2>2. Phase'
    BY <1>0, <1>4 DEF Phase, Granting, CreateSteps, DeleteSteps, BuildSteps, Crash, Finish,
       index, control
  <2>3. CreateStep' /\ DeletionProgress'
    BY <1>0, <1>4 DEF ControlInv, CreateStep, DeletionProgress, Pending, CreateSteps,
       DeleteSteps, Crash, Finish, repository, journals, index, control
  <2>4. QED
    BY <2>1, <2>2, <2>3 DEF ControlInv
<1>5. CASE RecoverCreation
  <2>1. OneJournal'
    BY <1>0, <1>5 DEF ControlInv, OneJournal, Pending, RecoverCreation, control
  <2>2. Phase'
    BY <1>0, <1>5 DEF ControlInv, Phase, Pending, Granting, CreateSteps, DeleteSteps,
       BuildSteps, RecoverCreation, Goto, control
  <2>3. CreateStep'
    BY <1>0, <1>5 DEF CreateStep, CreateSteps, RecoverCreation, Goto, control
  <2>4. Born'
    BY <1>0, <1>5 DEF ControlInv, Born, CreationProgress, RecoverCreation, repository, control
  <2>5. CreationProgress'
    BY <1>0, <1>5 DEF CreationProgress, RecoverCreation, control
  <2>6. DeletionProgress'
    BY <1>0, <1>5 DEF ControlInv, OneJournal, DeletionProgress, Pending, DeleteSteps,
       RecoverCreation, Goto, repository, control
  <2>7. QED
    BY <2>1, <2>2, <2>3, <2>4, <2>5, <2>6 DEF ControlInv
<1>6. CASE RecoverDeletion
  <2>1. OneJournal' /\ Born' /\ CreationProgress'
    BY <1>6 DEF ControlInv, OneJournal, Born, CreationProgress, Pending, RecoverDeletion,
       repository, journals, control
  <2>2. Phase'
    BY <1>0, <1>6 DEF ControlInv, Phase, Pending, Granting, CreateSteps, BuildSteps,
       RecoverDeletion, Goto, journals, control
  <2>3. CreateStep' /\ DeletionProgress'
    BY <1>0, <1>6 DEF ControlInv, CreateStep, DeletionProgress, Pending, CreateSteps,
       DeleteSteps, RecoverDeletion, Goto, repository, journals, control
  <2>4. QED
    BY <2>1, <2>2, <2>3 DEF ControlInv
<1>7. CASE AfterRecovery
  <2>1. OneJournal' /\ Born' /\ CreationProgress'
    BY <1>7 DEF ControlInv, OneJournal, Born, CreationProgress, Pending, AfterRecovery,
       repository, journals, control
  <2>2. Phase'
    BY <1>0, <1>7 DEF ControlInv, Phase, Pending, Granting, CreateSteps, AfterRecovery, Goto,
       Granted, journals, control
  <2>3. CreateStep' /\ DeletionProgress'
    BY <1>0, <1>7 DEF ControlInv, CreateStep, DeletionProgress, Pending, CreateSteps,
       DeleteSteps, AfterRecovery, Goto, Granted, repository, journals, control
  <2>4. QED
    BY <2>1, <2>2, <2>3 DEF ControlInv
<1>8. CASE build_snapshot_index
  <2>1. OneJournal' /\ Born' /\ CreationProgress'
    BY <1>8 DEF ControlInv, OneJournal, Born, CreationProgress, Pending, build_snapshot_index,
       repository, journals, control
  <2>2. Phase'
    BY <1>0, <1>8 DEF ControlInv, Phase, Pending, Granting, CreateSteps, DeleteSteps,
       BuildSteps, build_snapshot_index, Goto, EndRebuild, Granted, Finish, journals, control
  <2>3. CreateStep' /\ DeletionProgress'
    BY <1>0, <1>8 DEF ControlInv, CreateStep, DeletionProgress, Pending, CreateSteps,
       DeleteSteps, build_snapshot_index, Goto, EndRebuild, Granted, Finish, repository,
       journals, control
  <2>4. QED
    BY <2>1, <2>2, <2>3 DEF ControlInv
<1>9. CASE prune_checkpoint_name_overrides
  <2>1. OneJournal' /\ Born' /\ CreationProgress'
    BY <1>9 DEF ControlInv, OneJournal, Born, CreationProgress, Pending,
       prune_checkpoint_name_overrides, repository, journals, control
  <2>2. Phase'
    BY <1>0, <1>9 DEF ControlInv, Phase, Pending, Granting, CreateSteps, DeleteSteps,
       BuildSteps, prune_checkpoint_name_overrides, Goto, journals, control
  <2>3. CreateStep' /\ DeletionProgress'
    BY <1>0, <1>9 DEF ControlInv, CreateStep, DeletionProgress, Pending, CreateSteps,
       DeleteSteps, prune_checkpoint_name_overrides, Goto, repository, journals, control
  <2>4. QED
    BY <2>1, <2>2, <2>3 DEF ControlInv
<1>10. CASE publish_snapshot_index
  <2>1. OneJournal' /\ Born' /\ CreationProgress'
    BY <1>10 DEF ControlInv, OneJournal, Born, CreationProgress, Pending,
       publish_snapshot_index, repository, journals, index, control
  <2>2. Phase'
    BY <1>0, <1>10 DEF ControlInv, Phase, Pending, Granting, DeleteSteps, BuildSteps,
       publish_snapshot_index, Goto, EndRebuild, Granted, Finish, journals, index, control
  <2>3. CreateStep' /\ DeletionProgress'
    BY <1>0, <1>10 DEF ControlInv, CreateStep, DeletionProgress, Pending, CreateSteps,
       DeleteSteps, publish_snapshot_index, Goto, EndRebuild, Granted, Finish, repository,
       journals, index, control
  <2>4. QED
    BY <2>1, <2>2, <2>3 DEF ControlInv
<1>11. CASE StartRebuild
  <2>1. OneJournal' /\ Born' /\ CreationProgress'
    BY <1>11 DEF ControlInv, OneJournal, Born, CreationProgress, Pending, StartRebuild,
       repository, journals, control
  <2>2. Phase'
    BY <1>0, <1>11 DEF ControlInv, Phase, Pending, Granting, StartRebuild, Goto, journals,
       control
  <2>3. CreateStep' /\ DeletionProgress'
    BY <1>0, <1>11 DEF ControlInv, CreateStep, DeletionProgress, Pending, CreateSteps,
       DeleteSteps, StartRebuild, Goto, repository, journals, control
  <2>4. QED
    BY <2>1, <2>2, <2>3 DEF ControlInv
<1>12. CASE \E c \in Ckpts : rename_checkpoint(c)
  <2>1. OneJournal' /\ Born' /\ CreationProgress'
    BY <1>12 DEF ControlInv, OneJournal, Born, CreationProgress, Pending, rename_checkpoint,
       repository, journals, control
  <2>2. Phase'
    BY <1>0, <1>12 DEF Phase, Granting, CreateSteps, DeleteSteps, BuildSteps,
       rename_checkpoint, Finish, control
  <2>3. CreateStep' /\ DeletionProgress'
    BY <1>0, <1>12 DEF ControlInv, CreateStep, DeletionProgress, Pending, CreateSteps,
       DeleteSteps, rename_checkpoint, Finish, repository, journals, control
  <2>4. QED
    BY <2>1, <2>2, <2>3 DEF ControlInv
<1>13. CASE \E c \in Ckpts : open_index_connection(c)
  <2>1. OneJournal'
    BY <1>0, <1>13, OpenDoes DEF ControlInv, OneJournal, Phase, Pending, Granting,
       open_index_connection, index, control
  <2>2. Phase'
    BY <1>0, <1>13, OpenDoes DEF ControlInv, Phase, Pending, Granting, DeleteSteps,
       open_index_connection, index, control
  <2>3. CreateStep'
    BY <1>0, <1>13, OpenDoes DEF CreateStep, open_index_connection, index, control
  <2>4. Born'
    BY <1>0, <1>13, OpenDoes DEF ControlInv, Born, open_index_connection, index, control
  <2>5. CreationProgress'
    <3>1. PICK c \in Ckpts : open_index_connection(c)
      BY <1>13
    <3>2. c \notin inventory /\ inventory' = inventory
      BY <3>1 DEF ControlInv, Born, open_index_connection
    <3>3. QED
      BY <1>0, <3>1, <3>2, OpenDoes DEF CreationProgress
  <2>6. DeletionProgress'
    BY <1>0, <1>13, OpenDoes DEF ControlInv, DeletionProgress, Pending, DeleteSteps,
       open_index_connection, index, control
  <2>7. QED
    BY <2>1, <2>2, <2>3, <2>4, <2>5, <2>6 DEF ControlInv
<1>14. CASE \E c \in Ckpts : delete_checkpoint(c)
  <2>1. OneJournal'
    BY <1>0, <1>14, DeleteDoes DEF ControlInv, OneJournal, Phase, Pending, Granting,
       delete_checkpoint, control
  <2>2. Phase'
    BY <1>0, <1>14, DeleteDoes DEF ControlInv, Phase, Granting, CreateSteps, BuildSteps,
       delete_checkpoint, Finish, control
  <2>3. CreateStep'
    BY <1>0, <1>14, DeleteDoes DEF CreateStep, CreateSteps, Finish, control
  <2>4. Born'
    BY <1>0, <1>14, DeleteDoes DEF ControlInv, Born, delete_checkpoint, repository, control
  <2>5. CreationProgress'
    BY <1>0, <1>14, DeleteDoes DEF ControlInv, Phase, CreationProgress, delete_checkpoint,
       control
  <2>6. DeletionProgress'
    BY <1>0, <1>14, DeleteDoes DEF ControlInv, DeletionProgress, Data, Pending, DeleteSteps,
       delete_checkpoint, Finish, repository, control
  <2>7. QED
    BY <2>1, <2>2, <2>3, <2>4, <2>5, <2>6 DEF ControlInv
<1>15. CASE PublishRoot
  <2>1. OneJournal'
    BY <1>0, <1>15, PublishRootDoes DEF ControlInv, OneJournal, Found, Pending, CreateSteps,
       PublishRoot, control
  <2>2. Phase'
    BY <1>0, <1>15, PublishRootDoes DEF ControlInv, OneJournal, Phase, Found, Pending,
       CreateSteps, DeleteSteps, PublishRoot, Goto, control
  <2>3. CreateStep'
    BY <1>0, <1>15, PublishRootDoes DEF ControlInv, CreateStep, CreateSteps, PublishRoot,
       Goto, control
  <2>4. Born'
    BY <1>0, <1>15, PublishRootDoes DEF ControlInv, Born, PublishRoot, repository, control
  <2>5. CreationProgress'
    BY <1>0, <1>15, PublishRootDoes DEF ControlInv, CreateStep, CreationProgress, Found,
       CreateSteps, PublishRoot, repository, control
  <2>6. DeletionProgress'
    BY <1>0, <1>15, PublishRootDoes DEF ControlInv, OneJournal, DeletionProgress, Found,
       Pending, CreateSteps, DeleteSteps, PublishRoot, Goto, control
  <2>7. QED
    BY <2>1, <2>2, <2>3, <2>4, <2>5, <2>6 DEF ControlInv
<1>16. CASE AddInventory
  <2>1. OneJournal'
    BY <1>0, <1>16, AddInventoryDoes DEF ControlInv, OneJournal, Found, Pending, CreateSteps,
       AddInventory, control
  <2>2. Phase'
    BY <1>0, <1>16, AddInventoryDoes DEF ControlInv, OneJournal, Phase, Found, Pending,
       CreateSteps, DeleteSteps, AddInventory, Goto, control
  <2>3. CreateStep'
    BY <1>0, <1>16, AddInventoryDoes DEF ControlInv, CreateStep, CreateSteps, AddInventory,
       Goto, control
  <2>4. Born'
    BY <1>0, <1>16, AddInventoryDoes DEF ControlInv, CreateStep, Born, CreationProgress,
       Found, CreateSteps, AddInventory, control
  <2>5. CreationProgress'
    BY <1>0, <1>16, AddInventoryDoes DEF ControlInv, CreateStep, CreationProgress, Found,
       CreateSteps, AddInventory, control
  <2>6. DeletionProgress'
    BY <1>0, <1>16, AddInventoryDoes DEF ControlInv, OneJournal, DeletionProgress, Found,
       Pending, CreateSteps, DeleteSteps, AddInventory, Goto, control
  <2>7. QED
    BY <2>1, <2>2, <2>3, <2>4, <2>5, <2>6 DEF ControlInv
<1>17. CASE WriteLatest
  <2>1. OneJournal'
    BY <1>0, <1>17, WriteLatestDoes DEF ControlInv, OneJournal, Found, Pending, CreateSteps,
       WriteLatest, control
  <2>2. Phase'
    BY <1>0, <1>17, WriteLatestDoes DEF ControlInv, OneJournal, Phase, Found, Pending,
       CreateSteps, DeleteSteps, WriteLatest, Goto, control
  <2>3. CreateStep'
    BY <1>0, <1>17, WriteLatestDoes DEF ControlInv, CreateStep, CreateSteps, WriteLatest,
       Goto, control
  <2>4. Born'
    BY <1>0, <1>17, WriteLatestDoes DEF ControlInv, Born, WriteLatest, control
  <2>5. CreationProgress'
    BY <1>0, <1>17, WriteLatestDoes DEF ControlInv, CreateStep, CreationProgress, Found,
       CreateSteps, WriteLatest, control
  <2>6. DeletionProgress'
    BY <1>0, <1>17, WriteLatestDoes DEF ControlInv, DeletionProgress, Pending, DeleteSteps,
       WriteLatest, Goto, control
  <2>7. QED
    BY <2>1, <2>2, <2>3, <2>4, <2>5, <2>6 DEF ControlInv
<1>18. CASE index_snapshot_with_connection
  <2>0. /\ pc = "indexRows" /\ pc' \in {"indexHead", "commitCreate"}
        /\ UNCHANGED <<repository, journals, cur, todo, recovered>>
    BY <1>18 DEF index_snapshot_with_connection, IndexFails, Goto
  <2>1. OneJournal' /\ Born' /\ CreationProgress'
    BY <2>0 DEF ControlInv, OneJournal, Born, CreationProgress, Pending, repository, journals
  <2>2. Phase'
    BY <2>0 DEF ControlInv, Phase, Pending, Granting, CreateSteps, DeleteSteps, journals
  <2>3. CreateStep' /\ DeletionProgress'
    BY <2>0 DEF ControlInv, CreateStep, DeletionProgress, Pending, CreateSteps, DeleteSteps,
       repository, journals
  <2>4. QED
    BY <2>1, <2>2, <2>3 DEF ControlInv
<1>19. CASE write_snapshot_inventory_head
  <2>1. OneJournal' /\ Born' /\ CreationProgress'
    BY <1>19 DEF ControlInv, OneJournal, Born, CreationProgress, Pending,
       write_snapshot_inventory_head, repository, journals, index, control
  <2>2. Phase'
    BY <1>0, <1>19 DEF ControlInv, Phase, Pending, Granting, CreateSteps, DeleteSteps,
       BuildSteps, write_snapshot_inventory_head, Goto, IndexFails, journals, index, control
  <2>3. CreateStep' /\ DeletionProgress'
    BY <1>0, <1>19 DEF ControlInv, CreateStep, DeletionProgress, Pending, CreateSteps,
       DeleteSteps, write_snapshot_inventory_head, Goto, IndexFails, repository, journals,
       index, control
  <2>4. QED
    BY <2>1, <2>2, <2>3 DEF ControlInv
<1>20. CASE CommitCreate
  <2>1. OneJournal'
    BY <1>0, <1>20 DEF ControlInv, OneJournal, Pending, CommitCreate, control
  <2>2. Phase'
    BY <1>0, <1>20 DEF ControlInv, OneJournal, Phase, Found, Pending, CreateSteps,
       DeleteSteps, CommitCreate, Finish, control
  <2>3. CreateStep'
    BY <1>0, <1>20 DEF CreateStep, CreateSteps, CommitCreate, Finish, control
  <2>4. Born'
    BY <1>0, <1>20 DEF ControlInv, Born, CommitCreate, repository, control
  <2>5. CreationProgress'
    BY <1>0, <1>20 DEF ControlInv, CreationProgress, CommitCreate, repository, control
  <2>6. DeletionProgress'
    BY <1>0, <1>20 DEF ControlInv, OneJournal, DeletionProgress, Found, Pending, CreateSteps,
       DeleteSteps, CommitCreate, Finish, control
  <2>7. QED
    BY <2>1, <2>2, <2>3, <2>4, <2>5, <2>6 DEF ControlInv
<1>21. CASE RemoveInventory
  <2>1. OneJournal'
    BY <1>0, <1>21, RemoveInventoryDoes DEF ControlInv, OneJournal, RemoveInventory, control
  <2>2. Phase'
    BY <1>0, <1>21, RemoveInventoryDoes DEF ControlInv, Phase, Granting, CreateSteps,
       DeleteSteps, BuildSteps, RemoveInventory, Goto, control
  <2>3. CreateStep'
    BY <1>0, <1>21, RemoveInventoryDoes DEF CreateStep, CreateSteps, RemoveInventory, Goto,
       control
  <2>4. Born'
    BY <1>0, <1>21, RemoveInventoryDoes DEF ControlInv, Born, RemoveInventory, control
  <2>5. CreationProgress'
    BY <1>0, <1>21, RemoveInventoryDoes DEF ControlInv, OneJournal, CreationProgress,
       RemoveInventory, control
  <2>6. DeletionProgress'
    BY <1>0, <1>21, RemoveInventoryDoes DEF ControlInv, DeletionProgress, RemoveInventory,
       Goto, control
  <2>7. QED
    BY <2>1, <2>2, <2>3, <2>4, <2>5, <2>6 DEF ControlInv
<1>22. CASE update_latest_for_checkpoint_deletion
  <2>1. OneJournal' /\ Born' /\ CreationProgress'
    BY <1>22 DEF ControlInv, OneJournal, Born, CreationProgress, Pending,
       update_latest_for_checkpoint_deletion, journals, control
  <2>2. Phase'
    BY <1>0, <1>22 DEF ControlInv, Phase, Pending, Granting, CreateSteps, DeleteSteps,
       BuildSteps, update_latest_for_checkpoint_deletion, Goto, journals, control
  <2>3. CreateStep' /\ DeletionProgress'
    BY <1>0, <1>22 DEF ControlInv, CreateStep, DeletionProgress, Pending, CreateSteps,
       DeleteSteps, update_latest_for_checkpoint_deletion, Goto, journals, control
  <2>4. QED
    BY <2>1, <2>2, <2>3 DEF ControlInv
<1>23. CASE delete_snapshot_from_index
  <2>1. OneJournal' /\ Born' /\ CreationProgress'
    BY <1>23 DEF ControlInv, OneJournal, Born, CreationProgress, Pending,
       delete_snapshot_from_index, repository, journals, control
  <2>2. Phase'
    BY <1>0, <1>23 DEF ControlInv, Phase, Pending, Granting, CreateSteps, DeleteSteps,
       BuildSteps, delete_snapshot_from_index, Goto, IndexFails, journals, control
  <2>3. CreateStep' /\ DeletionProgress'
    BY <1>0, <1>23 DEF ControlInv, CreateStep, DeletionProgress, Pending, CreateSteps,
       DeleteSteps, delete_snapshot_from_index, Goto, IndexFails, repository, journals,
       control
  <2>4. QED
    BY <2>1, <2>2, <2>3 DEF ControlInv
<1>24. CASE remove_checkpoint_name_override
  <2>1. OneJournal' /\ Born' /\ CreationProgress'
    BY <1>24 DEF ControlInv, OneJournal, Born, CreationProgress, Pending,
       remove_checkpoint_name_override, repository, journals, control
  <2>2. Phase'
    BY <1>0, <1>24 DEF ControlInv, Phase, Pending, Granting, CreateSteps, DeleteSteps,
       BuildSteps, remove_checkpoint_name_override, Goto, journals, control
  <2>3. CreateStep' /\ DeletionProgress'
    BY <1>0, <1>24 DEF ControlInv, CreateStep, DeletionProgress, Pending, CreateSteps,
       DeleteSteps, remove_checkpoint_name_override, Goto, repository, journals, control
  <2>4. QED
    BY <2>1, <2>2, <2>3 DEF ControlInv
<1>25. CASE CommitDelete
  <2>1. OneJournal'
    BY <1>0, <1>25, CommitDeleteDoes DEF ControlInv, OneJournal, CommitDelete, control
  <2>2. Phase'
    BY <1>0, <1>25, CommitDeleteDoes DEF ControlInv, OneJournal, Phase, Data, Found, Pending,
       Granting, CreateSteps, DeleteSteps, BuildSteps, CommitDelete, Finish, control
  <2>3. CreateStep'
    BY <1>0, <1>25, CommitDeleteDoes DEF CreateStep, CreateSteps, CommitDelete, Finish, control
  <2>4. Born'
    BY <1>0, <1>25, CommitDeleteDoes DEF ControlInv, Born, CommitDelete, repository, control
  <2>5. CreationProgress'
    BY <1>0, <1>25, CommitDeleteDoes DEF ControlInv, OneJournal, CreationProgress,
       CommitDelete, control
  <2>6. DeletionProgress'
    BY <1>0, <1>25, CommitDeleteDoes DEF ControlInv, DeletionProgress, Pending, DeleteSteps,
       CommitDelete, Finish, repository, control
  <2>7. QED
    BY <2>1, <2>2, <2>3, <2>4, <2>5, <2>6 DEF ControlInv
<1>26. CASE UNCHANGED vars
  BY <1>26 DEF ControlInv, OneJournal, Phase, CreateStep, Born, CreationProgress,
     DeletionProgress, Pending, vars, repository, journals, control
<1>27. QED
  BY <1>1, <1>2, <1>3, <1>4, <1>5, <1>6, <1>7, <1>8, <1>9, <1>10, <1>11, <1>12, <1>13, <1>14,
     <1>15, <1>16, <1>17, <1>18, <1>19, <1>20, <1>21, <1>22, <1>23, <1>24, <1>25, <1>26 DEF
     Next

-----------------------------------------------------------------------------
(* The index. *)

(* Every step keeps what the index claims, and what an update relies on. *)
LEMMA IndexStep ==
    ASSUME TypeInv, TypeInv', ControlInv, ControlInv', IndexInv, [Next]_vars
    PROVE  IndexInv'
<1>0. Data /\ Flags /\ Found
  BY TypeParts
<1>1. CASE DamageIndex
  BY <1>0, <1>1 DEF IndexInv, Claims, Creating, Deleting, Current, Valid, DamageIndex, index,
     control
<1>2. CASE DamageNames
  BY <1>0, <1>2 DEF IndexInv, Claims, Creating, Deleting, Current, Exact, Valid, Pending,
     DamageNames, repository, journals, names, index, control
<1>3. CASE \E o \in {"create", "delete", "rename", "rebuild"} : Acquire(o)
  BY <1>0, <1>3 DEF IndexInv, Claims, Creating, Deleting, Current, Exact, Valid, Pending,
     Acquire, repository, journals, index, control
<1>4. CASE Crash
  BY <1>0, <1>4 DEF IndexInv, Claims, Creating, Deleting, Current, Exact, Valid, Pending,
     Crash, Finish, repository, journals, index, control
<1>5. CASE RecoverCreation
  <2>1. db' = db /\ dj' = dj /\ pc' = "recoverDelete" /\ pc = "recoverCreate"
    BY <1>5 DEF RecoverCreation, Goto, index
  <2>2. \/ inventory' = inventory /\ head' = head
        \/ cj # None /\ head' = head + 1
    BY <1>5 DEF RecoverCreation, repository
  <2>3. Claims'
    BY <1>0, <2>1, <2>2 DEF IndexInv, Claims, Current, Exact, Valid, Data, Database
  <2>4. Creating'
    BY <2>1 DEF Creating
  <2>5. Deleting'
    BY <2>1, <2>2 DEF ControlInv, OneJournal, IndexInv, Deleting, Pending, Exact, Valid
  <2>6. QED
    BY <2>3, <2>4, <2>5 DEF IndexInv
<1>6. CASE RecoverDeletion
  BY <1>0, <1>6 DEF IndexInv, Claims, Creating, Deleting, Current, Exact, Valid, Pending,
     RecoverDeletion, Goto, repository, journals, index, control
<1>7. CASE AfterRecovery
  BY <1>0, <1>7 DEF IndexInv, Claims, Creating, Deleting, Current, Exact, Valid, Pending,
     AfterRecovery, Goto, Granted, repository, journals, index, control
<1>8. CASE build_snapshot_index
  BY <1>0, <1>8 DEF IndexInv, Claims, Creating, Deleting, Current, Exact, Valid, Pending,
     build_snapshot_index, Goto, EndRebuild, Granted, Finish, repository, journals, index,
     control
<1>9. CASE prune_checkpoint_name_overrides
  BY <1>0, <1>9 DEF IndexInv, Claims, Creating, Deleting, Current, Exact, Valid, Pending,
     prune_checkpoint_name_overrides, Goto, repository, journals, names, index, control
<1>10. CASE publish_snapshot_index
  <2>1. /\ inventory' = inventory /\ head' = head /\ dj' = dj
        /\ pc' \notin {"publishRoot", "addInventory", "writeLatest", "indexRows", "indexHead",
                       "unindexRows", "unindexHead"}
    BY <1>10 DEF publish_snapshot_index, EndRebuild, Goto, Granted, Finish, repository, journals
  <2>2. Claims'
    <3>1. CASE db' = db
      BY <2>1, <3>1 DEF IndexInv, Claims, Current, Exact, Valid
    <3>2. CASE db' = Rebuilt
      <4>1. db'.head = head /\ db'.rows = inventory /\ db'.refs = RefsOf(inventory)
        BY <3>2 DEF Rebuilt
      <4>2. QED
        BY <1>0, <2>1, <4>1 DEF Claims, Current, Exact, Data
    <3>3. QED
      BY <1>10, <3>1, <3>2 DEF publish_snapshot_index
  <2>3. Creating'
    BY <2>1 DEF Creating
  <2>4. Pending' = {}
    BY <1>10, <2>1 DEF ControlInv, Phase, Granting, BuildSteps, Pending, publish_snapshot_index
  <2>5. Deleting'
    BY <2>1, <2>4 DEF Deleting
  <2>6. QED
    BY <2>2, <2>3, <2>5 DEF IndexInv
<1>11. CASE StartRebuild
  BY <1>0, <1>11 DEF IndexInv, Claims, Creating, Deleting, Current, Exact, Valid, Pending,
     StartRebuild, Goto, repository, journals, index, control
<1>12. CASE \E c \in Ckpts : rename_checkpoint(c)
  BY <1>0, <1>12 DEF IndexInv, Claims, Creating, Deleting, Current, Exact, Valid, Pending,
     rename_checkpoint, Finish, repository, journals, names, index, control
<1>13. CASE \E c \in Ckpts : open_index_connection(c)
  <2>1. PICK c \in Ckpts : open_index_connection(c)
    BY <1>13
  <2>2. /\ inventory' = inventory /\ head' = head /\ db' = db /\ dj' = dj
        /\ pc' = "publishRoot"
    BY <2>1 DEF open_index_connection
  <2>3. conn' => Current
    BY <1>0, <2>1, OpenDoes
  <2>4. Claims'
    BY <2>2 DEF IndexInv, Claims, Current, Exact, Valid
  <2>5. Creating'
    BY <2>2, <2>3 DEF IndexInv, Claims, Creating, Exact, Valid
  <2>6. Deleting'
    BY <2>2 DEF IndexInv, Deleting, Exact, Valid, Pending
  <2>7. QED
    BY <2>4, <2>5, <2>6 DEF IndexInv
<1>14. CASE \E c \in Ckpts : delete_checkpoint(c)
  <2>1. PICK c \in Ckpts : delete_checkpoint(c)
    BY <1>14
  <2>2. /\ inventory' = inventory /\ head' = head /\ db' = db
        /\ pc' \in {"idle", "removeInventory"}
    BY <2>1 DEF delete_checkpoint, Finish, repository, index
  <2>3. Claims'
    BY <2>2 DEF IndexInv, Claims, Current, Exact, Valid
  <2>4. Creating'
    BY <2>2 DEF Creating
  <2>5. Pending = {}
    BY <2>1 DEF ControlInv, Phase, Granting, delete_checkpoint
  <2>6. ASSUME NEW d \in Pending', dj'[d].update_index
        PROVE  dj'[d].state = "Staged" /\ Exact(inventory)
    <3>1. d = c /\ dj'[d].state = "Staged" /\ Current
      BY <1>0, <2>1, <2>5, <2>6, DeleteDoes DEF Pending
    <3>2. QED
      BY <3>1 DEF IndexInv, Claims
  <2>7. Deleting'
    BY <2>2, <2>6 DEF Deleting, Exact, Valid
  <2>8. QED
    BY <2>3, <2>4, <2>7 DEF IndexInv
<1>15. CASE PublishRoot
  BY <1>0, <1>15 DEF IndexInv, Claims, Creating, Deleting, Current, Exact, Valid, Pending,
     PublishRoot, Goto, repository, index, control
<1>16. CASE AddInventory
  <2>1. /\ inventory' = inventory \cup {cur} /\ head' = head + 1 /\ db' = db /\ dj' = dj
        /\ pc = "addInventory" /\ pc' = "writeLatest" /\ conn' = conn /\ cur' = cur
    BY <1>16 DEF AddInventory, Goto, index
  <2>2. cur \notin inventory
    BY <1>0, <2>1 DEF Found, ControlInv, CreateStep, CreationProgress, CreateSteps
  <2>3. inventory' \ {cur} = inventory
    BY <2>1, <2>2
  <2>4. Valid => db.head # head' /\ db.head <= head'
    BY <1>0, <2>1 DEF IndexInv, Claims, Valid, Data, Database
  <2>5. Claims'
    BY <2>1, <2>4 DEF Claims, Current, Valid
  <2>6. Creating'
    BY <2>1, <2>3, <2>4 DEF IndexInv, Creating, Exact, Valid
  <2>7. Pending' = {}
    BY <2>1 DEF ControlInv, Phase, Granting, CreateSteps
  <2>8. Deleting'
    BY <2>1, <2>7 DEF Deleting
  <2>9. QED
    BY <2>5, <2>6, <2>8 DEF IndexInv
<1>17. CASE WriteLatest
  BY <1>0, <1>17 DEF IndexInv, Claims, Creating, Deleting, Current, Exact, Valid, Pending,
     WriteLatest, Goto, index, control
<1>18. CASE index_snapshot_with_connection
  <2>1. /\ inventory' = inventory /\ head' = head /\ dj' = dj /\ conn' = conn /\ cur' = cur
        /\ pc = "indexRows" /\ pc' \in {"indexHead", "commitCreate"}
    BY <1>18 DEF index_snapshot_with_connection, IndexFails, Goto, repository, journals
  <2>2. Exact(inventory \ {cur}) /\ db.head # head /\ conn
    BY <1>0, <2>1 DEF IndexInv, Creating, Found
  <2>3. cur \in inventory
    BY <1>0, <2>1 DEF Found, ControlInv, CreateStep, CreationProgress, CreateSteps
  <2>4. Valid' /\ db'.head = db.head /\ db.head <= head
    BY <1>0, <1>18, <2>2, IndexRowsDoes DEF IndexInv, Claims, Exact
  <2>5. Claims'
    BY <2>1, <2>2, <2>4 DEF Claims, Current
  <2>6. pc' = "indexHead" => db'.rows = inventory /\ db'.refs = RefsOf(inventory)
    <3>1. PICK S \in SUBSET Ckpts : S = inventory \ {cur}
      BY <1>0 DEF Data
    <3>2. cur \notin S /\ cur \in Ckpts /\ S \cup {cur} = inventory
      BY <1>0, <2>3, <3>1 DEF Data
    <3>3. RefsOf(inventory) = [o \in Objects |-> RefsOf(S)[o] + Occurrences[cur][o]]
      BY <3>2, RefsAdded
    <3>4. db.rows = S /\ db.refs = RefsOf(S)
      BY <2>2, <3>1 DEF Exact
    <3>5. pc' = "indexHead" =>
            /\ db'.rows = db.rows \cup {cur}
            /\ db'.refs = [o \in Objects |-> db.refs[o] + Occurrences[cur][o]]
      BY <1>0, <1>18, <3>2, <3>4, IndexRowsDoes
    <3>6. QED
      BY <3>2, <3>3, <3>4, <3>5
  <2>7. Creating'
    BY <2>1, <2>4, <2>6 DEF Creating, Exact
  <2>8. Pending' = {}
    BY <2>1 DEF ControlInv, Phase, Granting, CreateSteps
  <2>9. Deleting'
    BY <2>1, <2>8 DEF Deleting
  <2>10. QED
    BY <2>5, <2>7, <2>9 DEF IndexInv
<1>19. CASE write_snapshot_inventory_head
  <2>1. /\ inventory' = inventory /\ head' = head /\ dj' = dj
        /\ pc \in {"indexHead", "unindexHead"} /\ pc' \in {"commitCreate", "dropName"}
    BY <1>19 DEF write_snapshot_inventory_head, IndexFails, Goto, repository, journals
  <2>2. Exact(inventory)
    BY <1>0, <2>1 DEF IndexInv, Creating, Deleting, Found
  <2>3. /\ Valid' /\ db'.rows = db.rows /\ db'.refs = db.refs
        /\ db' = db \/ db'.head = head
    BY <1>0, <1>19, HeadDoes
  <2>4. db'.rows = inventory' /\ db'.refs = RefsOf(inventory')
    BY <2>1, <2>2, <2>3 DEF Exact
  <2>5. Exact(inventory)'
    BY <2>3, <2>4 DEF Exact
  <2>6. Claims'
    BY <1>0, <2>1, <2>2, <2>3, <2>5 DEF IndexInv, Claims, Exact, Data
  <2>7. Creating'
    BY <2>1 DEF Creating
  <2>8. Deleting'
    BY <2>1, <2>5 DEF Deleting, Pending
  <2>9. QED
    BY <2>6, <2>7, <2>8 DEF IndexInv
<1>20. CASE CommitCreate
  BY <1>0, <1>20 DEF IndexInv, Claims, Creating, Deleting, Current, Exact, Valid, Pending,
     CommitCreate, Finish, repository, index, control
<1>21. CASE RemoveInventory
  <2>1. /\ inventory' = inventory \ {cur} /\ head' = head + 1 /\ db' = db
        /\ pc = "removeInventory" /\ pc' = "moveLatest"
    BY <1>21 DEF RemoveInventory, Goto, index
  <2>2. cur \in Pending /\ dj[cur].state = "Staged" /\ cur \in inventory
    BY <1>0, <1>21, <2>1, RemoveInventoryDoes DEF ControlInv, DeletionProgress, DeleteSteps
  <2>3. inventory' \cup {cur} = inventory
    BY <2>1, <2>2
  <2>4. Valid => db.head # head' /\ db.head <= head'
    BY <1>0, <2>1 DEF IndexInv, Claims, Valid, Data, Database
  <2>5. Claims'
    BY <2>1, <2>4 DEF Claims, Current, Valid
  <2>6. Creating'
    BY <2>1 DEF Creating
  <2>7. ASSUME NEW c \in Pending', dj'[c].update_index, Valid
        PROVE  c = cur /\ dj'[c].state = "InventoryUpdated" /\ Exact(inventory)
    <3>1. c = cur /\ dj'[c].state = "InventoryUpdated" /\ dj[cur].update_index
      BY <1>0, <1>21, <2>7, RemoveInventoryDoes DEF ControlInv, OneJournal
    <3>2. QED
      BY <2>2, <2>7, <3>1 DEF IndexInv, Deleting
  <2>8. ASSUME NEW c \in Pending', dj'[c].update_index, Valid'
        PROVE  dj'[c].state # "Staged" /\ Exact(inventory \cup {c})'
    <3>1. c = cur /\ dj'[c].state = "InventoryUpdated" /\ Exact(inventory)
      BY <2>1, <2>7, <2>8 DEF Valid
    <3>2. db'.rows = inventory' \cup {c} /\ db'.refs = RefsOf(inventory' \cup {c})
      BY <2>1, <2>3, <3>1 DEF Exact
    <3>3. QED
      BY <2>8, <3>1, <3>2 DEF Exact
  <2>9. Deleting'
    BY <2>1, <2>8 DEF Deleting
  <2>10. QED
    BY <2>5, <2>6, <2>9 DEF IndexInv
<1>22. CASE update_latest_for_checkpoint_deletion
  BY <1>0, <1>22 DEF IndexInv, Claims, Creating, Deleting, Current, Exact, Valid, Pending,
     update_latest_for_checkpoint_deletion, Goto, journals, index, control
<1>23. CASE delete_snapshot_from_index
  <2>1. /\ inventory' = inventory /\ head' = head /\ dj' = dj /\ cur' = cur
        /\ pc = "unindexRows" /\ pc' \in {"unindexHead", "dropName"}
    BY <1>23 DEF delete_snapshot_from_index, IndexFails, Goto, repository, journals
  <2>2. Creating'
    BY <2>1 DEF Creating
  <2>3. CASE db' = db /\ pc' = "dropName"
    <3>1. Claims'
      BY <2>1, <2>3 DEF IndexInv, Claims, Current, Exact, Valid
    <3>2. Deleting'
      BY <2>1, <2>3 DEF IndexInv, Deleting, Exact, Valid, Pending
    <3>3. QED
      BY <2>2, <3>1, <3>2 DEF IndexInv
  <2>4. CASE ~(db' = db /\ pc' = "dropName")
    <3>1. /\ cur \in Pending /\ CanUnindex(cur) /\ Valid'
          /\ db'.rows = db.rows \ {cur} /\ db'.head = db.head
          /\ db'.refs = [o \in Objects |-> db.refs[o] - Occurrences[cur][o]]
      BY <1>0, <1>23, <2>4, UnindexDoes
    <3>2. cur \in Ckpts /\ cur \notin inventory /\ dj[cur].update_index
      BY <2>1, <3>1 DEF Pending, ControlInv, DeletionProgress, DeleteSteps, IndexInv, Deleting
    <3>3. db.rows = inventory \cup {cur} /\ db.refs = RefsOf(inventory \cup {cur}) /\ Valid
      BY <2>1, <3>1, <3>2 DEF IndexInv, Deleting, Exact, CanUnindex, Valid, ControlInv,
         DeletionProgress
    <3>4. PICK S \in SUBSET Ckpts : S = inventory
      BY <1>0 DEF Data
    <3>5. RefsOf(S \cup {cur}) = [o \in Objects |-> RefsOf(S)[o] + Occurrences[cur][o]]
      BY <3>2, <3>4, RefsAdded
    <3>6. db'.refs = RefsOf(S)
      <4>1. RefsOf(S) \in [Objects -> Nat] /\ \A o \in Objects : Occurrences[cur][o] \in Nat
        BY <3>2, RefsTyped, IndexAssumption
      <4>2. db.refs = [o \in Objects |-> RefsOf(S)[o] + Occurrences[cur][o]]
        BY <3>3, <3>4, <3>5
      <4>3. QED
        BY <3>1, <4>1, <4>2
    <3>7. db'.rows = inventory
      BY <3>1, <3>2, <3>3
    <3>8. Exact(inventory)'
      BY <2>1, <3>1, <3>4, <3>6, <3>7 DEF Exact
    <3>9. Claims'
      BY <2>1, <3>1, <3>3, <3>8 DEF IndexInv, Claims, Current
    <3>10. Deleting'
      BY <2>1, <3>2, <3>8 DEF Deleting, Pending
    <3>11. QED
      BY <2>2, <3>9, <3>10 DEF IndexInv
  <2>5. QED
    BY <2>3, <2>4
<1>24. CASE remove_checkpoint_name_override
  BY <1>0, <1>24 DEF IndexInv, Claims, Creating, Deleting, Current, Exact, Valid, Pending,
     remove_checkpoint_name_override, Goto, repository, journals, names, index, control
<1>25. CASE CommitDelete
  <2>1. /\ inventory' = inventory /\ head' = head /\ db' = db
        /\ pc' \in {"recoverDelete", "idle"}
    BY <1>25 DEF CommitDelete, Finish, repository, index
  <2>2. Claims'
    BY <2>1 DEF IndexInv, Claims, Current, Exact, Valid
  <2>3. Creating'
    BY <2>1 DEF Creating
  <2>4. \A c \in Pending' : c \in Pending /\ dj'[c] = dj[c]
    BY <1>0, <1>25, CommitDeleteDoes DEF Pending
  <2>5. Deleting'
    BY <2>1, <2>4 DEF IndexInv, Deleting, Exact, Valid
  <2>6. QED
    BY <2>2, <2>3, <2>5 DEF IndexInv
<1>26. CASE UNCHANGED vars
  BY <1>26 DEF IndexInv, Claims, Creating, Deleting, Current, Exact, Valid, Pending, vars,
     repository, journals, index, control
<1>27. QED
  BY <1>1, <1>2, <1>3, <1>4, <1>5, <1>6, <1>7, <1>8, <1>9, <1>10, <1>11, <1>12, <1>13, <1>14,
     <1>15, <1>16, <1>17, <1>18, <1>19, <1>20, <1>21, <1>22, <1>23, <1>24, <1>25, <1>26 DEF
     Next

(* Initially there is no journal, and the index is built or absent. *)
LEMMA IndexInit == Init => ControlInv /\ IndexInv
<1> SUFFICES ASSUME Init PROVE ControlInv /\ IndexInv
  OBVIOUS
<1>1. Pending = {} /\ pc = "idle" /\ cj = None /\ inventory = {} /\ ~recovered
  BY DEF Init, Pending
<1>2. ControlInv
  BY <1>1 DEF Init, ControlInv, OneJournal, Phase, CreateStep, Born, CreationProgress,
     DeletionProgress, Granting, CreateSteps, DeleteSteps, BuildSteps
<1>3. Claims
  <2>1. CASE db = Missing
    BY <2>1 DEF Claims, Current, Valid
  <2>2. CASE db = Rebuilt
    BY <2>2 DEF Init, Claims, Current, Exact, Rebuilt
  <2>3. QED
    BY <2>1, <2>2 DEF Init
<1>4. Creating /\ Deleting
  BY <1>1 DEF Creating, Deleting
<1>5. QED
  BY <1>2, <1>3, <1>4 DEF IndexInv

(* An index that reports itself as current lists exactly the checkpoints   *)
(* there are, with exact counts: at every moment, whatever the crashes and *)
(* the failures of either transaction of an update.                        *)
THEOREM IndexStaysExact ==
    ASSUME RecoveryMayNotFinalize = FALSE
    PROVE  Spec => []CurrentIndexIsExact
<1>1. TypeInv /\ TypeInv' /\ ControlInv /\ [Next]_vars => ControlInv'
  BY ControlStep
<1>2. TypeInv /\ TypeInv' /\ ControlInv /\ ControlInv' /\ IndexInv /\ [Next]_vars => IndexInv'
  BY IndexStep
<1>3. IndexInv => CurrentIndexIsExact
  BY StatusIsCurrent DEF IndexInv, Claims, Exact, CurrentIndexIsExact
<1>4. QED
  BY <1>1, <1>2, <1>3, TypeInit, TypeStep, IndexInit, PTL DEF Spec

-----------------------------------------------------------------------------
(* Staleness. *)

(* An index with the rows of a checkpoint has the counts to remove them. *)
LEMMA ExactCanUnindex ==
    ASSUME Data, NEW c \in Ckpts, c \notin inventory, Exact(inventory \cup {c})
    PROVE  CanUnindex(c)
<1>1. PICK S \in SUBSET Ckpts : S = inventory
  BY DEF Data
<1>2. RefsOf(S \cup {c}) = [o \in Objects |-> RefsOf(S)[o] + Occurrences[c][o]]
  BY <1>1, RefsAdded
<1>3. RefsOf(S) \in [Objects -> Nat] /\ \A o \in Objects : Occurrences[c][o] \in Nat
  BY RefsTyped, IndexAssumption
<1>4. db.refs = [o \in Objects |-> RefsOf(S)[o] + Occurrences[c][o]]
  BY <1>1, <1>2 DEF Exact
<1>5. \A o \in Objects : db.refs[o] >= Occurrences[c][o]
  BY <1>3, <1>4
<1>6. QED
  BY <1>5 DEF CanUnindex, Exact, Valid

(* No step makes the index stale without a journal that tells of it. *)
LEMMA StaleStep ==
    ASSUME TypeInv, TypeInv', ControlInv, ControlInv', IndexInv, IndexInv', KnownStale,
           [Next]_vars
    PROVE  KnownStale'
<1>0. Data /\ Flags /\ Found
  BY TypeParts
<1>1. CASE DamageIndex
  BY <1>1 DEF DamageIndex, KnownStale
<1>2. CASE DamageNames
  BY <1>0, <1>2 DEF KnownStale, Current, Exact, Valid, Pending, DamageNames, repository,
     journals, names, index, control
<1>3. CASE \E o \in {"create", "delete", "rename", "rebuild"} : Acquire(o)
  BY <1>0, <1>3 DEF KnownStale, Current, Valid, Pending, ControlInv, Phase, DeleteSteps,
     Acquire, repository, journals, index, control
<1>4. CASE Crash
  BY <1>0, <1>4 DEF KnownStale, Current, Valid, Pending, DeleteSteps, Crash, Finish,
     repository, journals, index, control
<1>5. CASE RecoverCreation
  BY <1>0, <1>5 DEF KnownStale, Current, Valid, Pending, DeleteSteps, RecoverCreation, Goto,
     repository, index, control
<1>6. CASE RecoverDeletion
  BY <1>0, <1>6 DEF KnownStale, Current, Valid, ControlInv, Phase, DeleteSteps,
     RecoverDeletion, Goto, repository, index, control
<1>7. CASE AfterRecovery
  BY <1>0, <1>7, StatusIsCurrent DEF KnownStale, Current, Valid, Pending, DeleteSteps,
     AfterRecovery, Goto, Granted, repository, journals, index, control
<1>8. CASE build_snapshot_index
  BY <1>0, <1>8 DEF KnownStale, Current, Valid, Pending, DeleteSteps, build_snapshot_index,
     Goto, repository, journals, index, control
<1>9. CASE prune_checkpoint_name_overrides
  BY <1>0, <1>9 DEF KnownStale, Current, Valid, Pending, DeleteSteps,
     prune_checkpoint_name_overrides, Goto, repository, journals, names, index, control
<1>10. CASE publish_snapshot_index
  <2>1. /\ head' = head /\ dj' = dj /\ cj' = cj /\ pc' \in {"commitCreate", "start", "idle"}
        /\ impaired' \/ db' = Rebuilt
    BY <1>10 DEF publish_snapshot_index, EndRebuild, Goto, Granted, Finish, repository, journals
  <2>2. db' = Rebuilt => Current'
    <3>1. ASSUME db' = Rebuilt PROVE db' \in Database /\ db'.head = head
      BY <1>0, <3>1, RefsTyped DEF Rebuilt, Data, Database
    <3>2. QED
      BY <2>1, <3>1, NoneAssumption DEF Current, Valid
  <2>3. QED
    BY <2>1, <2>2 DEF KnownStale, DeleteSteps
<1>11. CASE StartRebuild
  BY <1>0, <1>11 DEF KnownStale, Current, Valid, Pending, DeleteSteps, StartRebuild, Goto,
     repository, journals, index, control
<1>12. CASE \E c \in Ckpts : rename_checkpoint(c)
  BY <1>0, <1>12 DEF KnownStale, Current, Valid, Pending, ControlInv, Phase, DeleteSteps,
     rename_checkpoint, Finish, repository, journals, names, index, control
<1>13. CASE \E c \in Ckpts : open_index_connection(c)
  <2>1. PICK c \in Ckpts : open_index_connection(c)
    BY <1>13
  <2>2. pc' = "publishRoot" /\ cj' # None
    BY <1>0, <2>1, OpenDoes DEF open_index_connection
  <2>3. ~impaired' => conn'
    <3>1. pc = "start" /\ ~recovered /\ cj = None /\ Pending = {}
      BY <2>1 DEF open_index_connection, ControlInv, Phase, Granting
    <3>2. ~impaired => Current
      BY <3>1 DEF KnownStale
    <3>3. QED
      BY <2>1, <3>2, StatusIsCurrent DEF open_index_connection
  <2>4. QED
    BY <2>2, <2>3 DEF KnownStale, DeleteSteps
<1>14. CASE \E c \in Ckpts : delete_checkpoint(c)
  <2>1. PICK c \in Ckpts : delete_checkpoint(c)
    BY <1>14
  <2>2. /\ inventory' = inventory /\ head' = head /\ db' = db /\ impaired' = impaired
        /\ cj' = cj
    BY <2>1 DEF delete_checkpoint, repository, index
  <2>3. pc = "start" /\ ~recovered /\ cj = None /\ Pending = {}
    BY <2>1 DEF delete_checkpoint, ControlInv, Phase, Granting
  <2>4. ~impaired => Current
    BY <2>3 DEF KnownStale
  <2>5. ~impaired => Current'
    BY <2>2, <2>4 DEF Current, Valid
  <2>6. ~impaired => Exact(inventory)'
    BY <2>2, <2>4 DEF IndexInv, Claims, Exact, Valid
  <2>7. CASE UNCHANGED dj /\ Finish
    BY <2>2, <2>5, <2>7 DEF KnownStale, Finish, DeleteSteps
  <2>8. CASE pc' = "removeInventory" /\ cur' = c /\ dj'[c] # None /\ (dj'[c].update_index <=> Current)
    <3>1. c \in Pending'
      BY <2>8 DEF Pending
    <3>2. QED
      BY <2>2, <2>4, <2>6, <2>8, <3>1 DEF KnownStale, DeleteSteps
  <2>9. QED
    BY <1>0, <2>1, <2>7, <2>8, DeleteDoes
<1>15. CASE PublishRoot
  BY <1>0, <1>15, PublishRootDoes DEF KnownStale, DeleteSteps, PublishRoot, Goto, index, control
<1>16. CASE AddInventory
  BY <1>0, <1>16, AddInventoryDoes DEF KnownStale, DeleteSteps, AddInventory, Goto, index,
     control
<1>17. CASE WriteLatest
  BY <1>0, <1>17, WriteLatestDoes DEF KnownStale, DeleteSteps, WriteLatest, Goto, index, control
<1>18. CASE index_snapshot_with_connection
  <2>1. cj' # None /\ (pc' = "indexHead" \/ impaired')
    BY <1>0, <1>18, IndexRowsDoes DEF Found, CreateSteps, index_snapshot_with_connection,
       journals
  <2>2. pc' \in {"indexHead", "commitCreate"}
    BY <1>0, <1>18, IndexRowsDoes
  <2>3. QED
    BY <2>1, <2>2 DEF KnownStale, DeleteSteps
<1>19. CASE write_snapshot_inventory_head
  <2>1. /\ head' = head /\ dj' = dj /\ cj' = cj /\ cur' = cur /\ recovered' = recovered
        /\ pc \in {"indexHead", "unindexHead"}
        /\ pc' = IF pc = "indexHead" THEN "commitCreate" ELSE "dropName"
    BY <1>19 DEF write_snapshot_inventory_head, IndexFails, Goto, repository, journals
  <2>2. impaired' \/ Current'
    <3>1. impaired' = TRUE \/ (Valid' /\ db'.head = head)
      BY <1>0, <1>19, HeadDoes
    <3>2. QED
      BY <2>1, <3>1 DEF Current
  <2>3. pc = "unindexHead" => dj[cur].update_index
    BY DEF IndexInv, Deleting
  <2>4. QED
    BY <2>1, <2>2, <2>3 DEF KnownStale, DeleteSteps
<1>20. CASE CommitCreate
  BY <1>0, <1>20 DEF KnownStale, Current, Valid, DeleteSteps, CommitCreate, Finish,
     repository, index, control
<1>21. CASE RemoveInventory
  <2>1. /\ inventory' = inventory \ {cur} /\ db' = db /\ cur' = cur
        /\ recovered' = recovered /\ impaired' = impaired
        /\ pc = "removeInventory" /\ pc' = "moveLatest"
    BY <1>21 DEF RemoveInventory, Goto, index
  <2>2. cur \in Pending' /\ cur \in inventory /\ dj'[cur].update_index = dj[cur].update_index
    BY <1>0, <1>21, <2>1, RemoveInventoryDoes DEF ControlInv, DeletionProgress, DeleteSteps
  <2>3. inventory' \cup {cur'} = inventory
    BY <2>1, <2>2
  <2>4. Exact(inventory) => Exact(inventory \cup {cur})'
    BY <2>1, <2>3 DEF Exact, Valid
  <2>5. QED
    BY <2>1, <2>2, <2>4 DEF KnownStale, DeleteSteps
<1>22. CASE update_latest_for_checkpoint_deletion
  BY <1>0, <1>22 DEF KnownStale, Current, Exact, Valid, Pending, DeleteSteps,
     update_latest_for_checkpoint_deletion, Goto, journals, index, control
<1>23. CASE delete_snapshot_from_index
  <2>1. /\ dj' = dj /\ cj' = cj /\ cur' = cur /\ recovered' = recovered
        /\ pc = "unindexRows" /\ pc' \in {"unindexHead", "dropName"}
    BY <1>23 DEF delete_snapshot_from_index, IndexFails, Goto, journals
  <2>2. cur \in Pending /\ cur \in Ckpts /\ cur \notin inventory
    BY <1>0, <2>1 DEF Found, Pending, ControlInv, DeletionProgress, DeleteSteps
  <2>3. Pending' # {}
    BY <2>1, <2>2 DEF Pending
  <2>4. ASSUME ~impaired', ~recovered PROVE pc' = "unindexHead" /\ dj[cur].update_index
    <3>1. CASE pc' = "unindexHead"
      BY <2>1, <3>1 DEF IndexInv, Deleting
    <3>2. CASE pc' = "dropName"
      <4>1. ~CanUnindex(cur) /\ ~impaired
        <5>1. impaired' = TRUE \/ (~CanUnindex(cur) /\ impaired' = impaired)
          BY <1>0, <1>23, <3>2, UnindexDoes
        <5>2. QED
          BY <2>4, <5>1
      <4>2. Exact(inventory \cup {cur})
        BY <2>1, <2>4, <4>1 DEF KnownStale, DeleteSteps
      <4>3. QED
        BY <1>0, <2>2, <4>1, <4>2, ExactCanUnindex
    <3>3. QED
      BY <2>1, <3>1, <3>2
  <2>5. QED
    BY <2>1, <2>3, <2>4 DEF KnownStale, DeleteSteps
<1>24. CASE remove_checkpoint_name_override
  BY <1>0, <1>24 DEF KnownStale, Current, Valid, DeleteSteps, remove_checkpoint_name_override,
     Goto, repository, journals, names, index, control
<1>25. CASE CommitDelete
  <2>1. /\ head' = head /\ db' = db /\ cj' = cj /\ impaired' = impaired
        /\ pc = "commitDelete" /\ pc' \in {"recoverDelete", "idle"}
    BY <1>25 DEF CommitDelete, Finish, repository, index
  <2>2. CASE recovered
    <3>1. Resolving(cur)
      BY <1>0, <2>1, <2>2 DEF ControlInv, Phase, Found, Resolving, DeleteSteps
    <3>2. recovered' = recovered
      BY <1>25, <3>1 DEF CommitDelete
    <3>3. QED
      BY <2>1, <2>2, <3>2 DEF KnownStale, DeleteSteps
  <2>3. CASE ~recovered
    <3>1. ~impaired => Current
      BY <2>1, <2>3 DEF KnownStale, DeleteSteps
    <3>2. Current => Current'
      BY <2>1 DEF Current, Valid
    <3>3. QED
      BY <2>1, <3>1, <3>2 DEF KnownStale, DeleteSteps
  <2>4. QED
    BY <2>2, <2>3
<1>26. CASE UNCHANGED vars
  BY <1>26 DEF KnownStale, Current, Exact, Valid, Pending, vars, repository, journals, index,
     control
<1>27. QED
  BY <1>1, <1>2, <1>3, <1>4, <1>5, <1>6, <1>7, <1>8, <1>9, <1>10, <1>11, <1>12, <1>13, <1>14,
     <1>15, <1>16, <1>17, <1>18, <1>19, <1>20, <1>21, <1>22, <1>23, <1>24, <1>25, <1>26 DEF
     Next

(* With every journal resolved the index is current, unless an index write *)
(* failed, the file was damaged, or a recovery was cut short: a crash      *)
(* alone, between any two steps of a creation or a deletion, never leaves  *)
(* a stale index behind.                                                   *)
THEOREM CrashesLeaveIndexCurrent ==
    ASSUME RecoveryMayNotFinalize = FALSE
    PROVE  Spec => []CrashLeavesIndexCurrent
<1>1. TypeInv /\ TypeInv' /\ ControlInv /\ [Next]_vars => ControlInv'
  BY ControlStep
<1>2. TypeInv /\ TypeInv' /\ ControlInv /\ ControlInv' /\ IndexInv /\ [Next]_vars => IndexInv'
  BY IndexStep
<1>3. TypeInv /\ TypeInv' /\ ControlInv /\ ControlInv' /\ IndexInv /\ IndexInv' /\ KnownStale
        /\ [Next]_vars => KnownStale'
  BY StaleStep
<1>4. Init => KnownStale
  <2>1. ASSUME Init, ~impaired PROVE Current /\ pc = "idle"
    <3>1. db = Rebuilt /\ pc = "idle"
      BY <2>1 DEF Init
    <3>2. db \in Database /\ db.head = head
      BY <2>1, <3>1, RefsTyped DEF Init, Rebuilt, Database
    <3>3. QED
      BY <3>1, <3>2, NoneAssumption DEF Current, Valid
  <2>2. QED
    BY <2>1 DEF KnownStale, DeleteSteps
<1>5. ControlInv /\ KnownStale => CrashLeavesIndexCurrent
  BY StatusIsCurrent
     DEF ControlInv, Phase, KnownStale, CrashLeavesIndexCurrent, AtRest, Pending
<1>6. QED
  BY <1>1, <1>2, <1>3, <1>4, <1>5, TypeInit, TypeStep, IndexInit, PTL DEF Spec
=============================================================================
