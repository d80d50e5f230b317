------------------------------- MODULE Import -------------------------------
(***************************************************************************)
(* The import of profiles: controller.py's import_profiles with the        *)
(* NetworkManager commands of system.py's import_profile and the two files *)
(* it commits to, profiles.json and network.json.                          *)
(*                                                                         *)
(* A batch is staged profile by profile in NetworkManager, then the        *)
(* network policy and the catalog are written, then both are published in  *)
(* memory.  What fails before the catalog is committed is rolled back.     *)
(* The daemon is one thread, but it can die between any two steps.         *)
(*                                                                         *)
(* "before" is a history variable: what an import started from.  "told" is *)
(* another: an incomplete rollback was reported, and network.json has not  *)
(* been committed or read since.  No action depends on either.             *)
(***************************************************************************)
EXTENDS FiniteSets

CONSTANTS
  Sources,    \* file names of configurations
  Uuids,      \* what uuid4() can return
  Names,      \* identifiers of managed profiles (the index in se-stockholm-1)
  Policies    \* network policies

\* File names have a bounded length.
ASSUME SourcesAreFinite == IsFiniteSet(Sources)

VARIABLES
  nm,             \* managed profiles NetworkManager has stored
  diskCatalog,    \* profiles.json
  diskNetwork,    \* network.json
  enabled,        \* the intent, in memory and in state.json
  catalog,        \* the catalog in memory
  network,        \* the network policy in memory
  pc,
  untried,        \* sources of the batch that are still to be staged
  proposed,       \* the policy of the request
  identifiers,    \* names the import considers taken
  staging,        \* the profile import_profile() is working on
  imported,       \* entries staged so far
  created,        \* their UUIDs, minus those the rollback has dealt with
  networkWritten, rollbackFailed,
  answer,         \* what the last import was answered
  before, told    \* history

disk    == <<nm, diskCatalog, diskNetwork>>
request == <<untried, proposed, identifiers, staging, imported, created,
             networkWritten, rollbackFailed>>
memory  == <<catalog, network>>
history == <<before, told>>
vars    == <<disk, enabled, memory, pc, request, answer, history>>

-----------------------------------------------------------------------------
Stored  == [uuid : Uuids, id : Names]
Entries == [source : Sources, uuid : Uuids, id : Names]

\* The NetworkManager profile that a catalog entry stands for.
Profile(e) == [uuid |-> e.uuid, id |-> e.id]

UuidsOf(set) == {x.uuid : x \in set}
IdsOf(set)   == {x.id : x \in set}
SourcesOf(set) == {x.source : x \in set}

NoStaging == [source |-> "none"]

Answers == {"none", "imported", "unconfirmed", "failed", "incomplete"}

Steps == {"dead", "idle", "stage", "confirm", "cleanup", "write_network",
          "write_catalog", "undo_network", "undo_profiles"}

TypeOK ==
  /\ nm \subseteq Stored
  /\ diskCatalog \subseteq Entries
  /\ diskNetwork \in Policies
  /\ enabled \in BOOLEAN
  /\ catalog \subseteq Entries
  /\ network \in Policies
  /\ pc \in Steps
  /\ untried \subseteq Sources
  /\ proposed \in Policies
  /\ identifiers \subseteq Names
  /\ staging \in Entries \union {NoStaging}
  /\ imported \subseteq Entries
  /\ created \subseteq Uuids
  /\ networkWritten \in BOOLEAN
  /\ rollbackFailed \in BOOLEAN
  /\ answer \in Answers

-----------------------------------------------------------------------------
\* The locals of import_profiles go with their frame.
Forget ==
  /\ untried' = {} /\ identifiers' = {} /\ staging' = NoStaging
  /\ imported' = {} /\ created' = {}
  /\ networkWritten' = FALSE /\ rollbackFailed' = FALSE
  /\ UNCHANGED proposed

Reply(a) == answer' = a /\ pc' = "idle" /\ Forget

\* Mutant: only the catalog is asked for names.
TakenInCatalog == IdsOf(catalog)

\* Names of the catalog and of everything NetworkManager calls managed.
Taken == IdsOf(catalog) \union IdsOf(nm)

\* A request that passed every validation: unambiguous, no duplicate file
\* name, and no change of the network policy while an intent is enabled.
Begin(batch, policy) ==
  /\ pc = "idle"
  /\ batch # {} /\ batch \intersect SourcesOf(catalog) = {}
  /\ policy = network \/ ~enabled
  /\ untried' = batch /\ proposed' = policy
  /\ identifiers' = Taken
  /\ pc' = "stage"
  /\ before' = [nm |-> nm, catalog |-> catalog, network |-> network,
                batch |-> batch]
  /\ UNCHANGED <<disk, enabled, memory, staging, imported, created,
                 networkWritten, rollbackFailed, answer, told>>

\* Mutant: the files that failed are left out and the others imported.
FailSkipping == pc' = "stage" /\ UNCHANGED rollbackFailed

\* An exception before the commit of the catalog.
Fail == pc' = "undo_network" /\ UNCHANGED rollbackFailed

(* import_profile() for one more file.  A UUID that NetworkManager already *)
(* has is refused; otherwise the profile is added, or it is not, or it is  *)
(* although the reply was lost.                                            *)
Stage ==
  /\ pc = "stage"
  /\ \E s \in untried, u \in Uuids, i \in Names \ identifiers :
       /\ untried' = untried \ {s}
       /\ identifiers' = identifiers \union {i}
       /\ staging' = [source |-> s, uuid |-> u, id |-> i]
       /\ \/ u \notin UuidsOf(nm) /\ nm' = nm \union {[uuid |-> u, id |-> i]}
             /\ pc' \in {"confirm", "cleanup"} /\ UNCHANGED rollbackFailed
          \/ u \notin UuidsOf(nm) /\ nm' = nm
             /\ pc' = "cleanup" /\ UNCHANGED rollbackFailed
          \/ nm' = nm /\ Fail
  /\ UNCHANGED <<diskCatalog, diskNetwork, enabled, memory, proposed,
                 imported, created, networkWritten, answer, history>>

\* The identity NetworkManager reports is the one that was asked for.
Confirm ==
  /\ pc = "confirm"
  /\ \/ /\ imported' = imported \union {staging}
        /\ created' = created \union {staging.uuid}
        /\ pc' = "stage"
     \/ pc' = "cleanup" /\ UNCHANGED <<imported, created>>
  /\ UNCHANGED <<disk, enabled, memory, untried, proposed, identifiers,
                 staging, networkWritten, rollbackFailed, answer, history>>

\* import_profile()'s own except clause: the profile is deleted if it is
\* there with this identity; that this fails is ignored.
Cleanup ==
  /\ pc = "cleanup"
  /\ nm' \in {nm, nm \ {Profile(staging)}}
  /\ Fail
  /\ UNCHANGED <<diskCatalog, diskNetwork, enabled, memory, untried, proposed,
                 identifiers, staging, imported, created, networkWritten,
                 answer, history>>

Staged ==
  /\ pc = "stage" /\ untried = {}
  /\ pc' = IF proposed # network THEN "write_network" ELSE "write_catalog"
  /\ UNCHANGED <<disk, enabled, memory, request, answer, history>>

\* Mutant: a write that is not confirmed is taken for one that failed.
NetworkUnwritten == networkWritten' = FALSE

\* After the rename, confirmed or not, the old policy has to be restored.
NetworkCommitted == networkWritten' = TRUE

WriteNetwork ==
  /\ pc = "write_network"
  /\ \/ diskNetwork' = proposed /\ networkWritten' = TRUE
        /\ pc' = "write_catalog" /\ UNCHANGED rollbackFailed
     \/ diskNetwork' = proposed /\ NetworkCommitted /\ Fail
     \/ diskNetwork' = diskNetwork /\ UNCHANGED networkWritten /\ Fail
  /\ UNCHANGED <<nm, diskCatalog, enabled, memory, untried, proposed,
                 identifiers, staging, imported, created, answer, history>>

\* Mutant: a catalog that is committed but not confirmed is rolled back.
UnconfirmedFails == Fail /\ UNCHANGED <<memory, answer, told, untried,
  identifiers, staging, imported, created, networkWritten, proposed>>

\* The catalog refers to the new profiles now: publish and say so.
Unconfirmed ==
  /\ catalog' = catalog \union imported /\ network' = proposed
  /\ told' = (told /\ proposed = network)
  /\ Reply("unconfirmed")

WriteCatalog ==
  /\ pc = "write_catalog"
  /\ \/ /\ diskCatalog' = catalog \union imported
        /\ catalog' = catalog \union imported /\ network' = proposed
        /\ told' = (told /\ proposed = network)
        /\ Reply("imported")
     \/ diskCatalog' = catalog \union imported /\ Unconfirmed
     \/ /\ diskCatalog' = diskCatalog /\ Fail
        /\ UNCHANGED <<memory, answer, told, untried, identifiers, staging,
                       imported, created, networkWritten, proposed>>
  /\ UNCHANGED <<nm, diskNetwork, enabled, before>>

-----------------------------------------------------------------------------
\* Rollback: first the network policy, then every profile of "created".

\* Mutant: everything the catalog does not list is taken for ours.
OnlyCatalogued(u) == {p \in nm : p.uuid \in UuidsOf(catalog)}

\* delete_profile() names one UUID.
WithoutUuid(u) == {p \in nm : p.uuid # u}

UndoNetwork ==
  /\ pc = "undo_network"
  /\ \/ ~networkWritten /\ UNCHANGED <<diskNetwork, rollbackFailed>>
     \/ networkWritten /\ diskNetwork' = network /\ UNCHANGED rollbackFailed
     \/ /\ networkWritten
        /\ diskNetwork' \in {network, diskNetwork}
        /\ rollbackFailed' = TRUE
  /\ pc' = "undo_profiles"
  /\ UNCHANGED <<nm, diskCatalog, enabled, memory, untried, proposed,
                 identifiers, staging, imported, created, networkWritten,
                 answer, history>>

UndoProfile ==
  /\ pc = "undo_profiles"
  /\ \E u \in created :
       /\ created' = created \ {u}
       /\ \/ nm' = WithoutUuid(u) /\ UNCHANGED rollbackFailed
          \/ nm' \in {nm, WithoutUuid(u)} /\ rollbackFailed' = TRUE
  /\ UNCHANGED <<diskCatalog, diskNetwork, enabled, memory, pc, untried,
                 proposed, identifiers, staging, imported, networkWritten,
                 answer, history>>

RolledBack ==
  /\ pc = "undo_profiles" /\ created = {}
  /\ Reply(IF rollbackFailed THEN "incomplete" ELSE "failed")
  /\ told' = (told \/ rollbackFailed)
  /\ UNCHANGED <<disk, enabled, memory, before>>

-----------------------------------------------------------------------------
\* connect and disconnect, as far as the import depends on them.
SetIntent ==
  /\ pc = "idle"
  /\ enabled' = ~enabled
  /\ UNCHANGED <<disk, memory, pc, request, answer, history>>

Crash ==
  /\ pc # "dead"
  /\ pc' = "dead"
  /\ answer' = "none" /\ told' = FALSE
  /\ Forget
  /\ UNCHANGED <<disk, enabled, memory, before>>

\* __init__() reads both files.
Start ==
  /\ pc = "dead"
  /\ pc' = "idle"
  /\ catalog' = diskCatalog /\ network' = diskNetwork
  /\ UNCHANGED <<disk, enabled, request, answer, history>>

-----------------------------------------------------------------------------
Init ==
  /\ nm = {} /\ diskCatalog = {} /\ diskNetwork \in Policies
  /\ enabled = FALSE
  /\ catalog = {} /\ network = diskNetwork
  /\ pc = "dead"
  /\ untried = {} /\ proposed = network /\ identifiers = {}
  /\ staging = NoStaging /\ imported = {} /\ created = {}
  /\ networkWritten = FALSE /\ rollbackFailed = FALSE
  /\ answer = "none"
  /\ before = [nm |-> {}, catalog |-> {}, network |-> network, batch |-> {}]
  /\ told = FALSE

Next ==
  \/ \E batch \in SUBSET Sources, policy \in Policies : Begin(batch, policy)
  \/ Stage \/ Confirm \/ Cleanup \/ Staged \/ WriteNetwork \/ WriteCatalog
  \/ UndoNetwork \/ UndoProfile \/ RolledBack
  \/ SetIntent \/ Crash \/ Start

Spec == Init /\ [][Next]_vars
=============================================================================
