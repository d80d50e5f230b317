-------------------------- MODULE ImportProperties --------------------------
(* What an import promises, as properties of Import.                       *)
EXTENDS Import

(* Every profile the catalog lists, on disk or in memory, is stored in     *)
(* NetworkManager under the name and the UUID the catalog has for it: no   *)
(* rollback, however it was reached, deletes what the catalog refers to.   *)
CatalogBacked ==
  \A e \in diskCatalog \union (IF pc = "dead" THEN {} ELSE catalog) :
    Profile(e) \in nm

(* Two managed profiles never share a name, orphans of interrupted imports *)
(* and of failed cleanups included.                                        *)
NamesUnique == \A p, q \in nm : p.id = q.id => p = q

(* A batch enters the catalog as a whole or not at all.                    *)
AllOrNothing ==
  pc # "dead" =>
    SourcesOf(diskCatalog) \ SourcesOf(before.catalog) \in {{}, before.batch}

(* The daemon works with what its next start would read: the catalog       *)
(* always, the network policy unless an incomplete rollback was reported.  *)
(* In particular a restart never changes the policy of an enabled intent   *)
(* without notice.                                                         *)
FilesAsUsed ==
  pc = "idle" => catalog = diskCatalog /\ (network = diskNetwork \/ told)

(* "Failures before catalog commit trigger cleanup of only newly created   *)
(* profiles, with incomplete rollback reported explicitly."  The cleanup   *)
(* inside import_profile can fail silently.                                *)
RollbackReported ==
  pc = "idle" /\ answer = "failed" =>
    nm \subseteq before.nm /\ diskNetwork = before.network

(* A rollback deletes nothing but what its own import created.             *)
RollbackOnlyCreated == before.nm \subseteq nm
=============================================================================
