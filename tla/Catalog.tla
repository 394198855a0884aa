------------------------------ MODULE Catalog ------------------------------
(***************************************************************************)
(* The catalog: every column family is part of one map from keys           *)
(* <<family, ...>> to values, written only in atomic batches.  An alias    *)
(* may be bound again only to the same content, and while a rebuild of the *)
(* object locations is in progress no batch is taken and no location read. *)
(* The in-memory catalog and the RocksDB one are both given.               *)
(***************************************************************************)
EXTENDS Integers, Sequences, FiniteSets, SequencesExt

CONSTANTS Key,      \* the keys in use, the rebuild marker's among them
          Value,    \* the values in use
          MaxBatch, \* bound on the operations of a batch
          None      \* a key without a value

VARIABLE db

OBJECT_LOCATION_REBUILD_META_KEY == <<"meta", "object_location_rebuild_v1">>
CURRENT_GENERATION_META_KEY == <<"meta", "current_generation">>
IsLocation(k) == k[1] = "location"
IsAlias(k) == k[1] = "alias"

\* One operation of a batch writes one key, or deletes it.
Operation(k, v) == [key |-> k, value |-> v]
Batches == UNION {[1 .. n -> [key : Key, value : Value \cup {None}]] : n \in 1 .. MaxBatch}
\* No builder of CatalogBatch deletes an alias, a location or metadata.
Buildable(b) == \A i \in DOMAIN b :
  b[i].value = None => b[i].key[1] \in {"repository", "snapshot", "workspace_pin", "gc_pin"}

ObjectLocationRebuildState(d) ==
  IF d[OBJECT_LOCATION_REBUILD_META_KEY] = None THEN "Idle" ELSE "InProgress"

RejectDirectRebuildMarkerMutation(b) ==
  \E i \in DOMAIN b : b[i].key = OBJECT_LOCATION_REBUILD_META_KEY

Written(d, b) == [k \in DOMAIN d |->
  LET writes == {i \in DOMAIN b : b[i].key = k} IN
  IF writes = {} THEN d[k] ELSE b[CHOOSE i \in writes : \A j \in writes : j <= i].value]

\* Fault: a batch's own earlier aliases are not looked at.
AliasConflictStored(d, b) ==
  \E i \in DOMAIN b : IsAlias(b[i].key) /\ d[b[i].key] \notin {None, b[i].value}

\* An earlier alias of the batch hides the stored one.
AliasConflict(d, b) ==
  \E i \in DOMAIN b :
    LET earlier == {j \in 1 .. i - 1 : b[j].key = b[i].key}
        existing == IF earlier = {} THEN d[b[i].key]
                    ELSE b[CHOOSE j \in earlier : \A h \in earlier : h <= j].value
    IN IsAlias(b[i].key) /\ existing \notin {None, b[i].value}

Result(d, error) == [db |-> d, error |-> error]

\* RocksDbCatalog::apply
RocksDbApply(d, b) ==
  IF ObjectLocationRebuildState(d) = "InProgress" THEN Result(d, "ObjectLocationRebuildInProgress")
  ELSE IF RejectDirectRebuildMarkerMutation(b) THEN Result(d, "UnsupportedOperation")
  ELSE IF AliasConflict(d, b) THEN Result(d, "AliasConflict")
  ELSE Result(Written(d, b), None)

\* InMemoryCatalog::apply works on a clone, operation by operation.
Staged(s, op) ==
  IF s.error = None /\ IsAlias(op.key) /\ s.db[op.key] \notin {None, op.value}
  THEN [s EXCEPT !.error = "AliasConflict"]
  ELSE IF s.error # None THEN s ELSE [s EXCEPT !.db[op.key] = op.value]

InMemoryApply(d, b) ==
  IF ObjectLocationRebuildState(d) = "InProgress" THEN Result(d, "ObjectLocationRebuildInProgress")
  ELSE IF RejectDirectRebuildMarkerMutation(b) THEN Result(d, "UnsupportedOperation")
  ELSE LET staged == FoldLeft(Staged, Result(d, None), b) IN
       IF staged.error = None THEN staged ELSE Result(d, staged.error)

-----------------------------------------------------------------------------
\* Reads.  A location is not read while it is being rebuilt, an alias is.
ObjectLocation(d, x) ==
  IF ObjectLocationRebuildState(d) # "Idle" THEN None ELSE d[<<"location", x>>]
VisitObjectLocations(d) ==
  IF ObjectLocationRebuildState(d) = "InProgress" THEN None
  ELSE {k \in DOMAIN d : IsLocation(k) /\ d[k] # None}
VisitOidAliases(d) == {k \in DOMAIN d : IsAlias(k) /\ d[k] # None}
CurrentGeneration(d) == d[CURRENT_GENERATION_META_KEY]
RepositorySnapshots(d) == {k \in DOMAIN d : k[1] = "snapshot" /\ d[k] # None}
WorkspacePins(d) == {k \in DOMAIN d : k[1] = "workspace_pin" /\ d[k] # None}
GcPins(d) == {k \in DOMAIN d : k[1] = "gc_pin" /\ d[k] # None}

GcRoots(d) == {k \in RepositorySnapshots(d) : d[k] = "Ready"} \cup WorkspacePins(d) \cup GcPins(d)

-----------------------------------------------------------------------------
\* The rebuild protocol.
\* Fault: the aliases are cleared with the locations.
ClearedAliases(d) == [k \in DOMAIN d |->
  IF IsLocation(k) \/ IsAlias(k) THEN None ELSE IF k = OBJECT_LOCATION_REBUILD_META_KEY THEN 1 ELSE d[k]]

\* clear_locations_and_mark
Cleared(d) == [k \in DOMAIN d |->
  IF IsLocation(k) THEN None ELSE IF k = OBJECT_LOCATION_REBUILD_META_KEY THEN 1 ELSE d[k]]

BeginObjectLocationRebuild(d) ==
  IF ObjectLocationRebuildState(d) = "InProgress" THEN Result(d, "ObjectLocationRebuildInProgress")
  ELSE Result(Cleared(d), None)

RestartObjectLocationRebuild(d) ==
  IF ObjectLocationRebuildState(d) # "InProgress" THEN Result(d, "ObjectLocationRebuildNotInProgress")
  ELSE Result(Cleared(d), None)

\* entries: operations on location keys
AppendRebuiltObjectLocations(d, entries) ==
  IF ObjectLocationRebuildState(d) # "InProgress" THEN Result(d, "ObjectLocationRebuildNotInProgress")
  ELSE IF \/ \E i \in DOMAIN entries : d[entries[i].key] # None
          \/ \E i, j \in DOMAIN entries : i # j /\ entries[i].key = entries[j].key
       THEN Result(d, "DuplicateRebuiltObjectLocation")
       ELSE Result(Written(d, entries), None)

FinishObjectLocationRebuild(d) ==
  IF ObjectLocationRebuildState(d) # "InProgress" THEN Result(d, "ObjectLocationRebuildNotInProgress")
  ELSE Result([d EXCEPT ![OBJECT_LOCATION_REBUILD_META_KEY] = None], None)

\* Fault: a snapshot that is not Ready is left.
DeleteRepositoryReady(d, r) ==
  SetToSeq({Operation(k, None) :
              k \in {s \in RepositorySnapshots(d) : s[2] = r /\ d[s] = "Ready"} \cup {<<"repository", r>>}})

\* delete_repository: its record and all its snapshots go in one batch.
DeleteRepositoryBatch(d, r) ==
  SetToSeq({Operation(k, None) : k \in {s \in RepositorySnapshots(d) : s[2] = r} \cup {<<"repository", r>>}})

-----------------------------------------------------------------------------
\* A catalog whose single writer may make any call.
Init == db = [k \in Key |-> None]

Apply == \E b \in Batches : Buildable(b) /\ db' = RocksDbApply(db, b).db
Rebuild == \/ db' = BeginObjectLocationRebuild(db).db
           \/ db' = RestartObjectLocationRebuild(db).db
           \/ db' = FinishObjectLocationRebuild(db).db
           \/ \E b \in Batches : /\ \A i \in DOMAIN b : IsLocation(b[i].key) /\ b[i].value # None
                                 /\ db' = AppendRebuiltObjectLocations(db, b).db
DeleteRepository(r) == db' = RocksDbApply(db, DeleteRepositoryBatch(db, r)).db

Next == Apply \/ Rebuild \/ \E k \in Key : k[1] = "repository" /\ DeleteRepository(k[2])
Spec == Init /\ [][Next]_db

-----------------------------------------------------------------------------
\* Both catalogs do the same with every batch, and give the same error: the
\* conflicts RocksDB looks for before its write are those the in-memory
\* catalog meets while it applies the batch.
BackendsAgree == \A b \in Batches : RocksDbApply(db, b) = InMemoryApply(db, b)

\* An alias is never bound to other content while it is bound, whatever batches,
\* rebuilds and repository deletions come, and a rebuild touches nothing but
\* locations.
AliasesKept == [][
  /\ \A k \in VisitOidAliases(db) : db'[k] \in {db[k], None}
  /\ "InProgress" \in {ObjectLocationRebuildState(db), ObjectLocationRebuildState(db)'} =>
       \A k \in DOMAIN db : db'[k] # db[k] => IsLocation(k) \/ k = OBJECT_LOCATION_REBUILD_META_KEY]_db

\* Deleting a repository outside a rebuild takes all its snapshots, finished
\* or not, and no other root: none of them can turn into a root again.
DeletionComplete ==
  ObjectLocationRebuildState(db) = "Idle" =>
    \A k \in DOMAIN db : k[1] = "repository" =>
      LET after == RocksDbApply(db, DeleteRepositoryBatch(db, k[2])).db IN
      /\ \A s \in RepositorySnapshots(after) : s[2] # k[2]
      /\ GcRoots(after) = {s \in GcRoots(db) : s[1] # "snapshot" \/ s[2] # k[2]}

\* What docs/operations.md and section 15.4 of description.md say: a deleted
\* repository has no aliases.  delete_repository leaves them all.
DeletionTakesAliases ==
  ObjectLocationRebuildState(db) = "Idle" =>
    \A k \in DOMAIN db : k[1] = "repository" =>
      \A a \in VisitOidAliases(RocksDbApply(db, DeleteRepositoryBatch(db, k[2])).db) : a[2] # k[2]
=============================================================================
