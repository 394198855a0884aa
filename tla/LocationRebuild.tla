-------------------------- MODULE LocationRebuild --------------------------
(***************************************************************************)
(* rebuild_object_locations: with the writers frozen, the supplied chunk   *)
(* files are scanned and the preserved aliases verified; only then are the *)
(* catalog's locations cleared and written again, in batches, behind a     *)
(* durable marker.  The rebuild can stop anywhere and be run again, with   *)
(* other files.  Imports and compactions run between rebuilds.             *)
(***************************************************************************)
EXTENDS Integers, Sequences, FiniteSets, SequencesExt

CONSTANTS Content,   \* objects; a content also names its own Git OID
          FileOrder, \* the chunk files, in lexical order
          Identity,  \* the generation and chunk ID in each file's header
          Stray,     \* the files that are copies, and of which file
          MaxRecords, \* bound on the records written to all files
          MaxFaults,  \* bound on the faults
          MaximumBatchEntries, None

File == ToSet(FileOrder)
Location(f, i) == [generation |-> Identity[f].generation, chunk_id |-> Identity[f].chunk_id, offset |-> i]
LocationKey(x) == <<"location", x>>
AliasKey(x) == <<"alias", "r", x>>

VARIABLES
  db,      \* the catalog
  store,   \* each chunk file: class, records in order, undamaged or not
  pc, paths, entries, \* the rebuild: next step, files supplied, locations to write
  vetted,  \* has a preflight succeeded since the last rebuild ended?
  faults

vars == <<db, store, pc, paths, entries, vetted, faults>>

Keys == {LocationKey(x) : x \in Content} \cup {AliasKey(x) : x \in Content}
          \cup {<<"meta", "object_location_rebuild_v1">>, <<"meta", "current_generation">>}
Catalog == INSTANCE Catalog WITH Key <- Keys, Value <- {}, MaxBatch <- 0
InProgress == Catalog!ObjectLocationRebuildState(db) = "InProgress"

\* Every variable has its type.
TypeOK ==
  /\ DOMAIN db = Keys /\ DOMAIN store = File
  /\ \A f \in File : store[f] # None =>
       store[f].class \in {"open", "footer", "sealed"} /\ Len(store[f].records) <= MaxRecords
  /\ pc \in {"idle", "preflight", "begin", "append"} /\ paths \subseteq File
  /\ vetted \in BOOLEAN /\ faults \in 0 .. MaxFaults

Init ==
  /\ db = [k \in Keys |-> IF k[2] = "current_generation" THEN 1 ELSE None]
  /\ store = [f \in File |-> IF f \in DOMAIN Stray THEN None
                             ELSE [class |-> "open", records |-> << >>, sound |-> TRUE]]
  /\ pc = "idle" /\ paths = {} /\ entries = << >> /\ vetted = FALSE /\ faults = 0

Holds(l, x) == \E f \in File, i \in 1 .. MaxRecords :
  store[f] # None /\ i \in DOMAIN store[f].records /\ l = Location(f, i) /\ store[f].records[i] = x

-----------------------------------------------------------------------------
\* Work between rebuilds (ChunkStore and GenerationGC have it in full).
rebuild == <<pc, paths, entries, vetted>>
Records == LET Count(f) == Len(store[f].records) IN MapThenSumSet(Count, File \ DOMAIN Stray)
Writable(f) == /\ pc = "idle" /\ ~InProgress /\ f \notin DOMAIN Stray /\ store[f].sound
               /\ store[f].class = "open" /\ Records < MaxRecords
Appended(f, x) == store' = [store EXCEPT ![f].records = Append(@, x)]

\* An import appends a new object; the catalog batch may not be reached.
Import(f, x) ==
  /\ Writable(f) /\ Identity[f].generation = Catalog!CurrentGeneration(db)
  /\ Catalog!ObjectLocation(db, x) = None /\ Appended(f, x)
  /\ \/ UNCHANGED db
     \/ db' = Catalog!RocksDbApply(db, <<
          Catalog!Operation(LocationKey(x), Location(f, Len(store[f].records) + 1)),
          Catalog!Operation(AliasKey(x), x)>>).db
  /\ UNCHANGED <<rebuild, faults>>

\* A compaction copies an object into the next generation's chunk.
Copy(f, x) ==
  /\ Writable(f) /\ Catalog!ObjectLocation(db, x) # None
  /\ Identity[f].generation > Catalog!CurrentGeneration(db) /\ x \notin ToSet(store[f].records)
  /\ Appended(f, x) /\ UNCHANGED <<db, rebuild, faults>>

\* It publishes the generation once every object is there.
Switch(f) ==
  /\ pc = "idle" /\ ~InProgress /\ f \notin DOMAIN Stray
  /\ Identity[f].generation > Catalog!CurrentGeneration(db)
  /\ LET live == {x \in Content : Catalog!ObjectLocation(db, x) # None} IN
     /\ live # {} /\ live \subseteq ToSet(store[f].records)
     /\ db' = Catalog!RocksDbApply(db, SetToSeq(
          {Catalog!Operation(LocationKey(x),
             Location(f, CHOOSE i \in DOMAIN store[f].records : store[f].records[i] = x)) : x \in live})
          \o <<Catalog!Operation(<<"meta", "current_generation">>, Identity[f].generation)>>).db
  /\ UNCHANGED <<store, rebuild, faults>>

\* A chunk is sealed; a crash may leave the footer under the open name.
Seal(f) ==
  /\ pc = "idle" /\ f \notin DOMAIN Stray /\ store[f].class # "sealed" /\ store[f].records # << >>
  /\ store' = [store EXCEPT ![f].class = IF @ = "open" THEN "footer" ELSE "sealed"]
  /\ UNCHANGED <<db, rebuild, faults>>

\* A file is damaged or torn, copied by hand, or an alias is damaged.
Damage ==
  /\ pc = "idle" /\ faults < MaxFaults /\ faults' = faults + 1
  /\ \/ \E f \in File : /\ store[f] # None /\ store[f].sound
                        /\ store' = [store EXCEPT ![f].sound = FALSE] /\ UNCHANGED db
     \/ \E f \in DOMAIN Stray : /\ store[f] = None
                                /\ store' = [store EXCEPT ![f] = store[Stray[f]]] /\ UNCHANGED db
     \/ \E x, y \in Content : /\ x # y /\ db[AliasKey(x)] = x /\ Catalog!ObjectLocation(db, y) # None
                              /\ db' = [db EXCEPT ![AliasKey(x)] = y] /\ UNCHANGED store
  /\ UNCHANGED rebuild

-----------------------------------------------------------------------------
\* scan_chunk_for_location_rebuild accepts these files.
ScanChunkForLocationRebuild(f) == store[f] # None /\ store[f].sound /\ store[f].class # "footer"

Candidates(f) == [i \in DOMAIN store[f].records |->
                    [content_id |-> store[f].records[i], location |-> Location(f, i)]]

RebuildLocationOrder(l, m) ==
  \/ l.generation < m.generation
  \/ l.generation = m.generation /\ l.chunk_id < m.chunk_id
  \/ l.generation = m.generation /\ l.chunk_id = m.chunk_id /\ l.offset < m.offset

\* Fault: among locations of the same standing, the one met first stays.
PrecedesFirstMet(candidate, existing, current) ==
  current # None /\ candidate.generation = current /\ existing.generation # current

RebuildLocationPrecedes(candidate, existing, current) ==
  IF current # None /\ (candidate.generation = current) # (existing.generation = current)
  THEN candidate.generation = current ELSE RebuildLocationOrder(candidate, existing)

\* The locations chosen by the loop over the sorted paths.
Selected(chosen) ==
  LET current == Catalog!CurrentGeneration(db)
      scan(selected, c) ==
        IF \/ selected[c.content_id] = None
           \/ RebuildLocationPrecedes(c.location, selected[c.content_id], current)
        THEN [selected EXCEPT ![c.content_id] = c.location] ELSE selected
      files == SelectSeq(FileOrder, LAMBDA f : f \in chosen)
  IN FoldLeft(scan, [x \in Content |-> None],
              FlattenSeq([i \in DOMAIN files |-> Candidates(files[i])]))

\* What they make the rebuild write.
SelectedEntries(chosen) ==
  LET selected == Selected(chosen)
  IN SetToSeq({Catalog!Operation(LocationKey(x), selected[x]) : x \in {y \in Content : selected[y] # None}})

VerifyPreservedAlias(k, selected) == selected[db[k]] # None /\ AliasKey(db[k]) = k

DuplicateRebuildChunkIdentity(chosen) == \E f, g \in chosen : f # g /\ Identity[f] = Identity[g]

\* preflight_object_location_rebuild succeeds.
PreflightAccepts(chosen) ==
  /\ \A f \in chosen : ScanChunkForLocationRebuild(f)
  /\ ~DuplicateRebuildChunkIdentity(chosen)
  /\ LET selected == Selected(chosen)
     IN \A k \in Catalog!VisitOidAliases(db) : VerifyPreservedAlias(k, selected)

-----------------------------------------------------------------------------
\* Fault: an idle catalog is cleared before the preflight.
StartBeginning(chosen) ==
  /\ pc = "idle" /\ pc' = "preflight" /\ paths' = chosen
  /\ db' = IF InProgress THEN Catalog!RestartObjectLocationRebuild(db).db
           ELSE Catalog!BeginObjectLocationRebuild(db).db
  /\ UNCHANGED <<store, entries, vetted, faults>>

\* rebuild_object_locations: what an interrupted rebuild left is discarded.
Start(chosen) ==
  /\ pc = "idle" /\ pc' = "preflight" /\ paths' = chosen
  /\ db' = IF InProgress THEN Catalog!RestartObjectLocationRebuild(db).db ELSE db
  /\ UNCHANGED <<store, entries, vetted, faults>>

\* Fault: the aliases are not verified.
PreflightScanning ==
  /\ pc = "preflight"
  /\ \A f \in paths : ScanChunkForLocationRebuild(f)
  /\ ~DuplicateRebuildChunkIdentity(paths)
  /\ entries' = SelectedEntries(paths)
  /\ vetted' = TRUE /\ pc' = IF InProgress THEN "append" ELSE "begin"
  /\ UNCHANGED <<db, store, paths, faults>>

Preflight ==
  /\ pc = "preflight" /\ PreflightAccepts(paths)
  /\ entries' = SelectedEntries(paths)
  /\ vetted' = TRUE /\ pc' = IF InProgress THEN "append" ELSE "begin"
  /\ UNCHANGED <<db, store, paths, faults>>

\* The call ends with an error; what was durable stays.
Ended == pc' = "idle" /\ paths' = {} /\ entries' = << >>
PreflightRefuses ==
  /\ pc = "preflight" /\ ~PreflightAccepts(paths) /\ Ended /\ UNCHANGED <<db, store, vetted, faults>>

Begin ==
  /\ pc = "begin" /\ pc' = "append" /\ db' = Catalog!BeginObjectLocationRebuild(db).db
  /\ UNCHANGED <<store, paths, entries, vetted, faults>>

\* One bounded batch.
AppendBatch ==
  /\ pc = "append" /\ entries # << >>
  /\ LET n == IF Len(entries) < MaximumBatchEntries THEN Len(entries) ELSE MaximumBatchEntries IN
     /\ db' = Catalog!AppendRebuiltObjectLocations(db, SubSeq(entries, 1, n)).db
     /\ entries' = SubSeq(entries, n + 1, Len(entries))
  /\ UNCHANGED <<store, pc, paths, vetted, faults>>

Finish ==
  /\ pc = "append" /\ entries = << >> /\ db' = Catalog!FinishObjectLocationRebuild(db).db
  /\ Ended /\ vetted' = FALSE /\ UNCHANGED <<store, faults>>

\* A kill, or an error of the catalog, at any step.
Stop == pc # "idle" /\ Ended /\ UNCHANGED <<db, store, vetted, faults>>

Next ==
  \/ \E f \in File : Seal(f) \/ Switch(f) \/ \E x \in Content : Import(f, x) \/ Copy(f, x)
  \/ Damage
  \/ \E chosen \in SUBSET File : Start(chosen)
  \/ Preflight \/ PreflightRefuses \/ Begin \/ AppendBatch \/ Finish \/ Stop

Spec == Init /\ [][Next]_vars

-----------------------------------------------------------------------------
\* Whatever was interrupted, and whichever files a rebuild was given: when
\* locations can be read, every alias leads to a record of its content.
Resolvable ==
  /\ \A x \in Content : Catalog!ObjectLocation(db, x) # None => Holds(db[LocationKey(x)], x)
  /\ ~InProgress => \A k \in Catalog!VisitOidAliases(db) : Catalog!ObjectLocation(db, db[k]) # None

\* The locations of a content in the supplied files.
Copies(x) ==
  {Location(p[1], p[2]) : p \in {q \in paths \X (1 .. MaxRecords) :
     q[2] <= Len(store[q[1]].records) /\ store[q[1]].records[q[2]] = x}}
Lowest(locations) == CHOOSE l \in locations : \A m \in locations \ {l} : RebuildLocationOrder(l, m)

\* A finished rebuild has one location for each content of the supplied
\* files: the lowest one of the current generation, or else the lowest of all,
\* in whatever order the files were scanned and after whatever restarts.  (The
\* comment of preflight_object_location_rebuild has no exception for the current
\* generation: LowestSelected below.)
RebuiltBest == [][InProgress /\ ~InProgress' =>
  \A x \in Content :
    LET mine == {l \in Copies(x) : l.generation = Catalog!CurrentGeneration(db)} IN
    db'[LocationKey(x)] = IF Copies(x) = {} THEN None
                          ELSE Lowest(IF mine = {} THEN Copies(x) ELSE mine)]_vars

\* Locations are only cleared when a preflight has succeeded: a rebuild that
\* refuses its files leaves a readable catalog readable.
ClearedVetted == InProgress => vetted

\* What the comment of preflight_object_location_rebuild says: of several records of
\* one content, the one with the lowest generation, chunk ID and offset is
\* selected.  The code prefers the current generation.
LowestSelected == pc \in {"begin", "append"} =>
  \A i \in DOMAIN entries : entries[i].value = Lowest(Copies(entries[i].key[2]))
=============================================================================
