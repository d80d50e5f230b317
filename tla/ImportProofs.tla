---------------------------- MODULE ImportProofs ----------------------------
(***************************************************************************)
(* Proofs about Import, for every set of sources, UUIDs, names and         *)
(* policies.                                                               *)
(*                                                                         *)
(* That the catalog stays backed by NetworkManager is not inductive: a     *)
(* rollback deletes by UUID, so what it is about to delete (created, and   *)
(* the profile that import_profile is working on) must not be in the       *)
(* catalog; it is not because UUIDs that NetworkManager has are refused,   *)
(* and what the catalog lists is there.                                    *)
(***************************************************************************)
EXTENDS ImportProperties, FiniteSetTheorems, TLAPS

StagingSteps == {"stage", "confirm", "cleanup"}
CommitSteps  == {"stage", "confirm", "cleanup", "write_network", "write_catalog"}

\* One profile per UUID and one per name, and the import knows all names.
Keyed ==
  /\ \A p, q \in nm : p.uuid = q.uuid => p = q
  /\ NamesUnique
  /\ pc \in StagingSteps => IdsOf(nm) \subseteq identifiers

\* The catalog is what is on disk, and all of it is stored.
Backed ==
  /\ \A e \in diskCatalog : Profile(e) \in nm
  /\ pc # "dead" => catalog = diskCatalog

\* What the import has staged is stored, and none of it was there before.
Fresh ==
  /\ pc \in {"idle", "dead"} => created = {} /\ imported = {}
  /\ before.nm \subseteq nm
  /\ created \intersect (UuidsOf(diskCatalog) \union UuidsOf(before.nm)) = {}
  /\ pc \in CommitSteps => \A e \in imported : Profile(e) \in nm
  /\ pc \in {"confirm", "cleanup"} =>
       /\ staging \in Entries
       /\ staging.uuid \notin UuidsOf(diskCatalog) \union UuidsOf(before.nm)
  /\ pc = "confirm" => Profile(staging) \in nm

ImportInv == TypeOK /\ Keyed /\ Backed /\ Fresh

-----------------------------------------------------------------------------
(* Every step of an import, a crash or a restart preserves the invariant.  *)
LEMMA ImportStep == ImportInv /\ [Next]_vars => ImportInv'
<1> SUFFICES ASSUME ImportInv, [Next]_vars PROVE ImportInv'
  OBVIOUS
<1> USE DEF ImportInv, Keyed, Backed, Fresh, NamesUnique, TypeOK,
        StagingSteps, CommitSteps, Steps, Answers, Stored, Entries, Profile,
        UuidsOf, IdsOf, disk, request, memory, history
<1>1. ASSUME NEW batch \in SUBSET Sources, NEW policy \in Policies,
             Begin(batch, policy)
      PROVE  ImportInv'
  BY <1>1 DEF Begin, Taken
<1>2. CASE Stage
  <2>1. PICK s \in untried, u \in Uuids, i \in Names \ identifiers :
          /\ untried' = untried \ {s}
          /\ identifiers' = identifiers \union {i}
          /\ staging' = [source |-> s, uuid |-> u, id |-> i]
          /\ \/ /\ u \notin UuidsOf(nm) /\ nm' = nm \union {[uuid |-> u, id |-> i]}
                /\ pc' \in {"confirm", "cleanup"}
             \/ /\ u \notin UuidsOf(nm) /\ nm' = nm
                /\ pc' = "cleanup"
             \/ nm' = nm /\ pc' = "undo_network"
          /\ rollbackFailed' = rollbackFailed
    BY <1>2 DEF Stage, Fail
  <2>2. /\ staging' \in Entries /\ staging'.uuid = u
        /\ Profile(staging') = [uuid |-> u, id |-> i]
    BY <2>1
  <2>3. UuidsOf(diskCatalog) \union UuidsOf(before.nm) \subseteq UuidsOf(nm)
    <3>1. ASSUME NEW e \in diskCatalog PROVE e.uuid \in UuidsOf(nm)
      <4>1. Profile(e) \in nm /\ Profile(e).uuid = e.uuid
        OBVIOUS
      <4> QED
        BY <4>1
    <3> QED
      BY <3>1
  <2>4. TypeOK'
    BY <1>2, <2>1 DEF Stage
  <2>5. Keyed'
    <3>1. IdsOf(nm) \subseteq identifiers /\ i \notin IdsOf(nm)
      BY <1>2 DEF Stage
    <3>2. CASE nm' = nm
      BY <2>1, <3>1, <3>2
    <3>3. CASE nm' = nm \union {[uuid |-> u, id |-> i]} /\ u \notin UuidsOf(nm)
      BY <2>1, <3>1, <3>3
    <3> QED
      BY <2>1, <3>2, <3>3
  <2>6. Backed'
    BY <1>2, <2>1 DEF Stage
  <2>7. Fresh'
    BY <1>2, <2>1, <2>2, <2>3 DEF Stage
  <2> QED
    BY <2>4, <2>5, <2>6, <2>7
<1>3. CASE Confirm
  BY <1>3 DEF Confirm
<1>4. CASE Cleanup
  BY <1>4 DEF Cleanup, Fail
<1>5. CASE Staged
  BY <1>5 DEF Staged
<1>6. CASE WriteNetwork
  BY <1>6 DEF WriteNetwork, NetworkCommitted, Fail
<1>7. CASE WriteCatalog
  BY <1>7 DEF WriteCatalog, Unconfirmed, Fail, Reply, Forget
<1>8. CASE UndoNetwork
  BY <1>8 DEF UndoNetwork
<1>9. CASE UndoProfile
  <2>1. PICK u \in created :
          /\ created' = created \ {u}
          /\ nm' \in {nm, {p \in nm : p.uuid # u}}
          /\ rollbackFailed' \in BOOLEAN
    BY <1>9 DEF UndoProfile, WithoutUuid
  <2>2. u \notin UuidsOf(diskCatalog) \union UuidsOf(before.nm)
    BY <2>1
  <2>3. TypeOK' /\ Keyed'
    BY <1>9, <2>1 DEF UndoProfile
  <2>4. Backed'
    BY <1>9, <2>1, <2>2 DEF UndoProfile
  <2>5. Fresh'
    BY <1>9, <2>1, <2>2 DEF UndoProfile
  <2> QED
    BY <2>3, <2>4, <2>5
<1>10. CASE RolledBack
  BY <1>10 DEF RolledBack, Reply, Forget
<1>11. CASE SetIntent
  BY <1>11 DEF SetIntent
<1>12. CASE Crash
  BY <1>12 DEF Crash, Forget
<1>13. CASE Start
  BY <1>13 DEF Start
<1>14. CASE UNCHANGED vars
  BY <1>14 DEF vars
<1> QED
  BY <1>1, <1>2, <1>3, <1>4, <1>5, <1>6, <1>7, <1>8, <1>9, <1>10, <1>11,
     <1>12, <1>13, <1>14 DEF Next

(* The invariant of the import, from which its promises follow.            *)
THEOREM ImportCorrect == Spec => []ImportInv
<1>1. ASSUME Init PROVE ImportInv
  <2>1. TypeOK
    BY <1>1 DEF Init, TypeOK, Steps, Answers
  <2>2. Keyed /\ Backed /\ Fresh
    BY <1>1 DEF Init, Keyed, Backed, Fresh, NamesUnique, IdsOf, UuidsOf,
                StagingSteps, CommitSteps
  <2> QED
    BY <2>1, <2>2 DEF ImportInv
<1> QED
  BY <1>1, ImportStep, PTL DEF Spec

(* Whatever fails and whenever the daemon dies, every profile of the       *)
(* catalog, on disk and in memory, is stored in NetworkManager.            *)
THEOREM Spec_CatalogBacked == Spec => []CatalogBacked
<1>1. ImportInv => CatalogBacked
  BY DEF ImportInv, Backed, CatalogBacked
<1> QED
  BY <1>1, ImportCorrect, PTL

(* Managed profiles never share a name, orphans included.                  *)
THEOREM Spec_NamesUnique == Spec => []NamesUnique
<1>1. ImportInv => NamesUnique
  BY DEF ImportInv, Keyed
<1> QED
  BY <1>1, ImportCorrect, PTL

(* A rollback deletes only what its own import created.                    *)
THEOREM Spec_RollbackOnlyCreated == Spec => []RollbackOnlyCreated
<1>1. ImportInv => RollbackOnlyCreated
  BY DEF ImportInv, Fresh, RollbackOnlyCreated
<1> QED
  BY <1>1, ImportCorrect, PTL
-----------------------------------------------------------------------------
(* What the files are worth at each step of an import.                     *)

Importing == {"stage", "confirm", "cleanup", "write_network", "write_catalog",
              "undo_network", "undo_profiles"}

\* The batch of the import is what is tried, staged and to be tried, and none
\* of it was in the catalog before.
BatchKept ==
  /\ SourcesOf(diskCatalog) \ SourcesOf(before.catalog) \in {{}, before.batch}
  /\ pc \in Importing =>
       /\ before.catalog = diskCatalog
       /\ before.batch \intersect SourcesOf(diskCatalog) = {}
  /\ pc = "stage" => untried \union SourcesOf(imported) = before.batch
  /\ pc = "confirm" =>
       untried \union SourcesOf(imported) \union {staging.source} = before.batch
  /\ pc \in {"write_network", "write_catalog"} =>
       SourcesOf(imported) = before.batch

\* Where network.json and the policy in memory can differ.
PolicyKept ==
  /\ pc \in {"idle", "stage", "confirm", "cleanup", "write_network"} =>
       network = diskNetwork \/ told
  /\ pc = "write_catalog" =>
       \/ proposed = network /\ (network = diskNetwork \/ told)
       \/ proposed = diskNetwork /\ networkWritten
  /\ pc = "undo_network" => network = diskNetwork \/ told \/ networkWritten
  /\ pc = "undo_profiles" => network = diskNetwork \/ told \/ rollbackFailed

(* The sources of a catalog that a batch was added to.                     *)
LEMMA AddedSources ==
  ASSUME NEW S, NEW T
  PROVE  SourcesOf(S \union T) = SourcesOf(S) \union SourcesOf(T)
BY DEF SourcesOf

(* Every step keeps track of the batch.                                    *)
LEMMA BatchStep == ImportInv /\ BatchKept /\ [Next]_vars => BatchKept'
<1> SUFFICES ASSUME ImportInv, BatchKept, [Next]_vars PROVE BatchKept'
  OBVIOUS
<1> USE DEF BatchKept, Importing, disk, request, memory, history
<1>1. ASSUME NEW batch \in SUBSET Sources, NEW policy \in Policies,
             Begin(batch, policy)
      PROVE  BatchKept'
  <2>1. /\ catalog = diskCatalog /\ imported = {} /\ SourcesOf(imported) = {}
        /\ before'.catalog = catalog /\ before'.batch = batch
    BY <1>1 DEF Begin, ImportInv, Backed, Fresh, SourcesOf
  <2>2. /\ diskCatalog' = diskCatalog /\ SourcesOf(imported)' = {}
        /\ batch \intersect SourcesOf(diskCatalog) = {}
        /\ untried' = batch /\ pc' = "stage"
    BY <1>1, <2>1 DEF Begin
  <2> QED
    BY <2>1, <2>2 DEF SourcesOf
<1>2. CASE Stage
  <2>1. PICK s \in untried, u \in Uuids, i \in Names \ identifiers :
          /\ untried' = untried \ {s}
          /\ staging' = [source |-> s, uuid |-> u, id |-> i]
          /\ pc' \in {"confirm", "cleanup", "undo_network"}
    BY <1>2 DEF Stage, Fail
  <2>2. /\ pc = "stage" /\ staging'.source = s
        /\ UNCHANGED <<diskCatalog, imported, before>>
    BY <1>2, <2>1 DEF Stage
  <2> QED
    BY <2>1, <2>2 DEF SourcesOf
<1>3. CASE Confirm
  <2>1. /\ pc = "confirm" /\ UNCHANGED <<diskCatalog, untried, before>>
        /\ \/ pc' = "stage" /\ imported' = imported \union {staging}
           \/ pc' = "cleanup" /\ imported' = imported
    BY <1>3 DEF Confirm
  <2>2. SourcesOf(imported \union {staging})
          = SourcesOf(imported) \union {staging.source}
    BY DEF SourcesOf
  <2> QED
    BY <2>1, <2>2 DEF SourcesOf
<1>4. CASE Cleanup
  BY <1>4 DEF Cleanup, Fail, SourcesOf
<1>5. CASE Staged
  BY <1>5 DEF Staged, SourcesOf
<1>6. CASE WriteNetwork
  BY <1>6 DEF WriteNetwork, NetworkCommitted, Fail, SourcesOf
<1>7. CASE WriteCatalog
  <2>1. /\ pc = "write_catalog" /\ catalog = diskCatalog
        /\ before.catalog = diskCatalog /\ SourcesOf(imported) = before.batch
        /\ before' = before
    BY <1>7 DEF WriteCatalog, ImportInv, Backed
  <2>2. CASE diskCatalog' = catalog \union imported /\ pc' = "idle"
    <3>1. SourcesOf(diskCatalog') = SourcesOf(diskCatalog) \union before.batch
      BY <2>1, <2>2, AddedSources
    <3>2. SourcesOf(diskCatalog)' \ SourcesOf(before.catalog)' = before'.batch
      BY <2>1, <3>1 DEF SourcesOf
    <3> QED
      BY <2>2, <3>2
  <2>3. CASE diskCatalog' = diskCatalog /\ pc' = "undo_network"
    BY <2>1, <2>3 DEF SourcesOf
  <2> QED
    BY <1>7, <2>2, <2>3 DEF WriteCatalog, Unconfirmed, Reply, Fail
<1>8. CASE UndoNetwork
  BY <1>8 DEF UndoNetwork, SourcesOf
<1>9. CASE UndoProfile
  BY <1>9 DEF UndoProfile, SourcesOf
<1>10. CASE RolledBack
  BY <1>10 DEF RolledBack, Reply, Forget, SourcesOf
<1>11. CASE SetIntent
  BY <1>11 DEF SetIntent, SourcesOf
<1>12. CASE Crash
  BY <1>12 DEF Crash, Forget, SourcesOf
<1>13. CASE Start
  BY <1>13 DEF Start, SourcesOf
<1>14. CASE UNCHANGED vars
  BY <1>14 DEF vars, SourcesOf
<1> QED
  BY <1>1, <1>2, <1>3, <1>4, <1>5, <1>6, <1>7, <1>8, <1>9, <1>10, <1>11,
     <1>12, <1>13, <1>14 DEF Next

(* Every step accounts for the policy on disk.                             *)
LEMMA PolicyStep == ImportInv /\ PolicyKept /\ [Next]_vars => PolicyKept'
<1> SUFFICES ASSUME ImportInv, PolicyKept, [Next]_vars PROVE PolicyKept'
  OBVIOUS
<1> USE DEF PolicyKept, disk, request, memory, history
<1>1. ASSUME NEW batch \in SUBSET Sources, NEW policy \in Policies,
             Begin(batch, policy)
      PROVE  PolicyKept'
  BY <1>1 DEF Begin
<1>2. CASE Stage
  <2>1. /\ pc = "stage" /\ pc' \in {"confirm", "cleanup", "undo_network"}
        /\ UNCHANGED <<diskNetwork, network, told>>
    BY <1>2 DEF Stage, Fail
  <2> QED
    BY <2>1
<1>3. CASE Confirm
  BY <1>3 DEF Confirm
<1>4. CASE Cleanup
  BY <1>4 DEF Cleanup, Fail
<1>5. CASE Staged
  BY <1>5 DEF Staged
<1>6. CASE WriteNetwork
  BY <1>6 DEF WriteNetwork, NetworkCommitted, Fail
<1>7. CASE WriteCatalog
  BY <1>7 DEF WriteCatalog, Unconfirmed, Reply, Fail
<1>8. CASE UndoNetwork
  BY <1>8 DEF UndoNetwork
<1>9. CASE UndoProfile
  BY <1>9 DEF UndoProfile
<1>10. CASE RolledBack
  BY <1>10 DEF RolledBack, Reply, Forget
<1>11. CASE SetIntent
  BY <1>11 DEF SetIntent
<1>12. CASE Crash
  BY <1>12 DEF Crash
<1>13. CASE Start
  BY <1>13 DEF Start
<1>14. CASE UNCHANGED vars
  BY <1>14 DEF vars
<1> QED
  BY <1>1, <1>2, <1>3, <1>4, <1>5, <1>6, <1>7, <1>8, <1>9, <1>10, <1>11,
     <1>12, <1>13, <1>14 DEF Next

(* A batch enters the catalog as a whole or not at all, whatever fails and *)
(* whenever the daemon dies.                                               *)
THEOREM Spec_AllOrNothing == Spec => []AllOrNothing
<1>1. Init => BatchKept
  BY DEF Init, BatchKept, Importing, SourcesOf
<1>2. BatchKept => AllOrNothing
  BY DEF BatchKept, AllOrNothing
<1> QED
  BY <1>1, <1>2, BatchStep, ImportCorrect, PTL DEF Spec

(* Between imports catalog and policy are those that the next start would  *)
(* read, unless an incomplete rollback was reported.                       *)
THEOREM Spec_FilesAsUsed == Spec => []FilesAsUsed
<1>1. Init => PolicyKept
  BY DEF Init, PolicyKept
<1>2. ImportInv /\ PolicyKept => FilesAsUsed
  BY DEF ImportInv, Backed, PolicyKept, FilesAsUsed
<1> QED
  BY <1>1, <1>2, PolicyStep, ImportCorrect, PTL DEF Spec

-----------------------------------------------------------------------------
(* How long an import can take.                                            *)

\* Steps the import has before it, at most: a file that is still to be staged
\* costs its staging, its confirmation and, in a rollback, its deletion.
StepsLeft ==
  LET n == Cardinality(untried)
      c == Cardinality(created)
  IN  CASE pc = "stage"         -> 3 * n + c + 5
        [] pc = "confirm"       -> 3 * n + c + 7
        [] pc = "cleanup"       -> 3 * n + c + 6
        [] pc = "write_network" -> c + 4
        [] pc = "write_catalog" -> c + 3
        [] pc = "undo_network"  -> c + 2
        [] pc = "undo_profiles" -> c + 1
        [] OTHER                -> 0

\* Every step in an import that does not end it.
Descent == pc \in Importing /\ pc' \in Importing => StepsLeft' < StepsLeft

\* No more profiles are created than the batch has files.
Counted ==
  /\ IsFiniteSet(created) /\ IsFiniteSet(untried)
  /\ pc \in Importing =>
       /\ IsFiniteSet(before.batch)
       /\ Cardinality(untried) + Cardinality(created)
            + (IF pc \in {"confirm", "cleanup"} THEN 1 ELSE 0)
          <= Cardinality(before.batch)

\* 3 steps for each file and 5 for the batch.
Bounded == pc \in Importing => StepsLeft \in 1..(3 * Cardinality(before.batch) + 5)

(* One element more or less.                                               *)
LEMMA Counting ==
  ASSUME NEW S, IsFiniteSet(S)
  PROVE  /\ Cardinality(S) \in Nat
         /\ \A x \in S : /\ IsFiniteSet(S \ {x})
                        /\ Cardinality(S \ {x}) = Cardinality(S) - 1
         /\ \A x : /\ IsFiniteSet(S \union {x})
                   /\ Cardinality(S \union {x}) <= Cardinality(S) + 1
                   /\ Cardinality(S \union {x}) \in Nat
<1>1. Cardinality(S) \in Nat
  BY FS_CardinalityType
<1>2. \A x \in S : IsFiniteSet(S \ {x}) /\ Cardinality(S \ {x}) = Cardinality(S) - 1
  BY FS_RemoveElement
<1>3. ASSUME NEW x
      PROVE  /\ IsFiniteSet(S \union {x})
             /\ Cardinality(S \union {x}) <= Cardinality(S) + 1
             /\ Cardinality(S \union {x}) \in Nat
  BY <1>1, FS_AddElement
<1> QED
  BY <1>1, <1>2, <1>3

(* Every step of an import counts its files and brings its end nearer.     *)
LEMMA DescentStep == ImportInv /\ Counted /\ [Next]_vars => Counted' /\ [Descent]_vars
<1> SUFFICES ASSUME ImportInv, Counted, [Next]_vars
             PROVE  Counted' /\ [Descent]_vars
  OBVIOUS
<1>1. /\ Cardinality(untried) \in Nat /\ Cardinality(created) \in Nat
      /\ pc \in Importing => Cardinality(before.batch) \in Nat
  BY FS_CardinalityType DEF Counted
<1>2. Cardinality({}) = 0 /\ IsFiniteSet({})
  BY FS_EmptySet
<1> USE <1>1 DEF Counted, Importing, Descent, disk, request, memory, history
<1>3. ASSUME NEW batch \in SUBSET Sources, NEW policy \in Policies,
             Begin(batch, policy)
      PROVE  Counted' /\ Descent
  <2>1. IsFiniteSet(batch) /\ Cardinality(batch) \in Nat
    BY SourcesAreFinite, FS_Subset, FS_CardinalityType
  <2>2. /\ pc = "idle" /\ pc' = "stage" /\ untried' = batch
        /\ before'.batch = batch /\ created' = {}
    BY <1>3 DEF Begin, ImportInv, Fresh
  <2> QED
    BY <1>2, <2>1, <2>2
<1>4. CASE Stage
  <2>1. PICK s \in untried : untried' = untried \ {s}
    BY <1>4 DEF Stage
  <2>2. /\ pc = "stage" /\ pc' \in {"confirm", "cleanup", "undo_network"}
        /\ UNCHANGED <<created, before>>
    BY <1>4 DEF Stage, Fail
  <2>3. IsFiniteSet(untried') /\ Cardinality(untried') = Cardinality(untried) - 1
    BY <2>1, Counting
  <2> QED
    BY <2>2, <2>3 DEF StepsLeft
<1>5. CASE Confirm
  <2>1. pc = "confirm" /\ UNCHANGED <<untried, before>>
    BY <1>5 DEF Confirm
  <2>2. CASE pc' = "stage" /\ created' = created \union {staging.uuid}
    <3>1. /\ IsFiniteSet(created') /\ Cardinality(created') \in Nat
          /\ Cardinality(created') <= Cardinality(created) + 1
      BY <2>2, Counting
    <3> QED
      BY <2>1, <2>2, <3>1 DEF StepsLeft
  <2>3. CASE pc' = "cleanup" /\ created' = created
    BY <2>1, <2>3 DEF StepsLeft
  <2> QED
    BY <1>5, <2>2, <2>3 DEF Confirm
<1>6. CASE Cleanup
  BY <1>6 DEF Cleanup, Fail, StepsLeft
<1>7. CASE Staged
  <2>1. pc = "stage" /\ pc' \in {"write_network", "write_catalog"}
    BY <1>7 DEF Staged
  <2>2. UNCHANGED <<untried, created, before>>
    BY <1>7 DEF Staged
  <2> QED
    BY <2>1, <2>2 DEF StepsLeft
<1>8. CASE WriteNetwork
  BY <1>8 DEF WriteNetwork, NetworkCommitted, Fail, StepsLeft
<1>9. CASE WriteCatalog
  <2>1. pc = "write_catalog" /\ before' = before
    BY <1>9 DEF WriteCatalog
  <2>2. CASE pc' = "idle" /\ untried' = {} /\ created' = {}
    BY <1>2, <2>1, <2>2
  <2>3. CASE pc' = "undo_network" /\ UNCHANGED <<untried, created>>
    BY <2>1, <2>3 DEF StepsLeft
  <2> QED
    BY <1>9, <2>2, <2>3 DEF WriteCatalog, Unconfirmed, Reply, Forget, Fail
<1>10. CASE UndoNetwork
  BY <1>10 DEF UndoNetwork, StepsLeft
<1>11. CASE UndoProfile
  <2>1. PICK u \in created : created' = created \ {u}
    BY <1>11 DEF UndoProfile
  <2>2. IsFiniteSet(created') /\ Cardinality(created') = Cardinality(created) - 1
    BY <2>1, Counting
  <2>3. pc = "undo_profiles" /\ UNCHANGED <<pc, untried, before>>
    BY <1>11 DEF UndoProfile
  <2> QED
    BY <2>2, <2>3 DEF StepsLeft
<1>12. CASE RolledBack
  BY <1>2, <1>12 DEF RolledBack, Reply, Forget
<1>13. CASE SetIntent
  BY <1>13 DEF SetIntent
<1>14. CASE Crash
  BY <1>2, <1>14 DEF Crash, Forget
<1>15. CASE Start
  BY <1>15 DEF Start
<1>16. CASE UNCHANGED vars
  BY <1>16 DEF vars
<1> QED
  BY <1>3, <1>4, <1>5, <1>6, <1>7, <1>8, <1>9, <1>10, <1>11, <1>12, <1>13,
     <1>14, <1>15, <1>16 DEF Next

(* An import ends, whatever fails in it: after at most three steps for     *)
(* each of its files and five for the batch it is answered or the daemon   *)
(* has died.  No step in between leaves as many as there were.             *)
THEOREM Spec_ImportsEnd == Spec => []Bounded /\ [][Descent]_vars
<1>1. Init => Counted
  BY FS_EmptySet DEF Init, Counted, Importing
<1>2. Counted => Bounded
  <2> SUFFICES ASSUME Counted, pc \in Importing
               PROVE  StepsLeft \in 1..(3 * Cardinality(before.batch) + 5)
    BY DEF Bounded
  <2>1. /\ Cardinality(untried) \in Nat /\ Cardinality(created) \in Nat
        /\ Cardinality(before.batch) \in Nat
    BY FS_CardinalityType DEF Counted
  <2>2. /\ Cardinality(untried) + Cardinality(created) <= Cardinality(before.batch)
        /\ pc \in {"confirm", "cleanup"} =>
             Cardinality(untried) + Cardinality(created) + 1 <= Cardinality(before.batch)
    BY <2>1 DEF Counted
  <2> QED
    BY <2>1, <2>2 DEF StepsLeft, Importing
<1> QED
  BY <1>1, <1>2, DescentStep, ImportCorrect, PTL DEF Spec
=============================================================================
