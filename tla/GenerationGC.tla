---------------------------- MODULE GenerationGC ----------------------------
(***************************************************************************)
(* Generations of the cold tier: imports and snapshot publication (crate   *)
(* reflink-forest-import), mark, compaction and retirement (crate          *)
(* reflink-forest-maintenance, driven by the daemon's                      *)
(* OperationalMaintenanceCoordinator), reader leases and workspace pins    *)
(* (crate reflink-forest-workspace).                                       *)
(*                                                                         *)
(* Chunks are abstracted to the set of objects a generation's directory    *)
(* holds: ChunkStore shows that an indexed record is complete and durable. *)
(* Operations that change the catalog hold it for their whole duration and *)
(* do not overlap; readers, which only look a location up and then hold a  *)
(* lease, run at any time.  Calls are split where a crash, a failure or a  *)
(* reader can make a difference.                                           *)
(***************************************************************************)
EXTENDS Integers, FiniteSets

CONSTANTS Repo,        \* repositories, each with one snapshot
          Object,      \* Git objects, by content
          Refs,        \* Refs[x]: the objects x refers to
          Roots,       \* Roots[r]: the targets of the refs of r's snapshot
          Reader,      \* concurrent cold reads
          MaxGen,      \* bound: generations
          MaxPins,     \* bound: pinned workspaces at a time
          MaxCrashes,  \* bound: restarts
          StaleDedupe  \* may an import find the location of a collected object?

ASSUME GraphAssumption == Refs \in [Object -> SUBSET Object] /\ Roots \in [Repo -> SUBSET Object]
ASSUME BoundAssumption == MaxGen \in Nat \ {0} /\ MaxPins \in Nat /\ MaxCrashes \in Nat
ASSUME DedupeAssumption == StaleDedupe \in BOOLEAN

VARIABLES
  job,       \* the import job of each repository
  named,     \* catalog: oid_aliases, as (repository, object) pairs
  loc,       \* catalog: the generation of each object's location, 0 for none
  snap,      \* catalog: visibility of each repository's snapshot
  current,   \* catalog: current_generation
  pins,      \* catalog: workspace pins, as (generation, repository) pairs
  manifest,  \* repositories whose snapshot manifest is on disk
  bytes,     \* the objects with a verified record in each generation
  pointer,   \* the derived active-generation file
  retiring,  \* generations with a retiring marker
  trashed,   \* generations moved to the trash
  listed, listing,   \* has a GC job listed the retained objects, and which
  late,      \* the repositories that named objects after the listing
  overtaken, \* those whose names a mark went without for that reason
  pc, live, victim,  \* the GC cycle: next step, marked objects, generation to retire
  rgen, robj, held,  \* readers: generation and object looked up, who holds a lease
  leaked,    \* generations with a lease file that no reader owns
  plan,      \* the generation a caller put into its workspace manifest, 0 for none
  crashes    \* restarts so far

importVars == <<job, named, snap, manifest>>
gcVars == <<pc, live, victim>>
retireVars == <<retiring, trashed>>
readerVars == <<rgen, robj, held, leaked>>
listVars == <<listed, listing, late, overtaken>>
vars == <<importVars, loc, bytes, current, pointer, pins, gcVars, retireVars, readerVars, listVars, plan, crashes>>

Gen == 1 .. MaxGen
Steps == {"idle", "copy", "publish", "pointer", "retire", "move"}

ImportOK ==
  /\ job \in [Repo -> {"new", "importing", "imported", "done"}]
  /\ named \subseteq Repo \X Object
  /\ snap \in [Repo -> {"none", "Incomplete", "Ready"}]
  /\ manifest \subseteq Repo

StoreOK ==
  /\ loc \in [Object -> 0 .. MaxGen]
  /\ bytes \in [Gen -> SUBSET Object]
  /\ current \in Gen /\ pointer \in Gen
  /\ pins \subseteq Gen \X Repo
  /\ retiring \subseteq Gen /\ trashed \subseteq Gen
  /\ plan \in 0 .. MaxGen

ProcessOK ==
  /\ pc \in Steps
  /\ pc \in {"copy", "publish"} => current < MaxGen
  /\ live \subseteq Object
  /\ listed \in BOOLEAN /\ listing \subseteq Repo \X Object
  /\ late \subseteq Repo /\ overtaken \subseteq Repo
  /\ victim \in 0 .. MaxGen
  /\ rgen \in [Reader -> 0 .. MaxGen]
  /\ robj \in [Reader -> SUBSET Object]
  /\ held \subseteq Reader
  /\ leaked \subseteq Gen
  /\ crashes \in 0 .. MaxCrashes

\* Imports, the store and the processes; a generation that is compacted,
\* retired, leased or pinned is one of the bounded set.
TypeOK == ImportOK /\ StoreOK /\ ProcessOK

\* The first generation is active and empty.
Init ==
  /\ job = [r \in Repo |-> "new"]
  /\ named = {}
  /\ snap = [r \in Repo |-> "none"]
  /\ manifest = {}
  /\ loc = [x \in Object |-> 0]
  /\ bytes = [g \in Gen |-> {}]
  /\ current = 1 /\ pointer = 1
  /\ pins = {}
  /\ listed = FALSE /\ listing = {} /\ late = {} /\ overtaken = {}
  /\ pc = "idle" /\ live = {} /\ victim = 0
  /\ retiring = {} /\ trashed = {}
  /\ rgen = [p \in Reader |-> 0] /\ robj = [p \in Reader |-> {}]
  /\ held = {} /\ leaked = {}
  /\ plan = 0
  /\ crashes = 0

-----------------------------------------------------------------------------
(* The object graph.                                                       *)

Closed(S) == \A x \in S : Refs[x] \subseteq S

\* The objects reachable from those in S.
Reachable(S) == {x \in Object : \A T \in SUBSET Object : S \subseteq T /\ Closed(T) => x \in T}

\* read_record_at at the object's catalog location finds its record.
Readable(x) == loc[x] # 0 /\ loc[x] \notin trashed /\ x \in bytes[loc[x]]

-----------------------------------------------------------------------------
(* Import and snapshot publication.                                        *)

\* import_local_refs: the objects T, all of them unless the call fails, are
\* appended to the current generation, or found in the catalog, and named.
Import(r, T) ==
  /\ pc = "idle"
  /\ job[r] \in {"new", "importing", "imported"}
  /\ T \subseteq Reachable(Roots[r])
  /\ StaleDedupe \/ \A x \in T : loc[x] \in {0, current}
  /\ named' = named \cup ({r} \X T)
  /\ bytes' = [bytes EXCEPT ![current] = @ \cup {x \in T : loc[x] = 0}]
  /\ loc' = [x \in Object |-> IF x \in T /\ loc[x] = 0 THEN current ELSE loc[x]]
  /\ job' = [job EXCEPT ![r] = IF T = Reachable(Roots[r]) THEN "imported" ELSE "importing"]
  /\ late' = late \cup {q \in {r} : listed /\ ~({r} \X T \subseteq named)}
  /\ UNCHANGED <<snap, manifest, current, pointer, pins, gcVars, retireVars, readerVars, plan, listed, listing,
                 overtaken, crashes>>

\* publish_snapshot_manifest: record Incomplete, write the manifest, record
\* Ready; a failure or a crash stops it after any of the three.
PublishSnapshot(r) ==
  /\ pc = "idle"
  /\ job[r] = "imported"
  /\ snap[r] # "Ready"
  /\ \/ /\ snap' = [snap EXCEPT ![r] = "Incomplete"]
        /\ manifest' \in {manifest, manifest \cup {r}}
        /\ UNCHANGED job
     \/ /\ snap' = [snap EXCEPT ![r] = "Ready"]
        /\ manifest' = manifest \cup {r}
        /\ job' = [job EXCEPT ![r] = "done"]
  /\ UNCHANGED <<named, loc, bytes, current, pointer, pins, gcVars, retireVars, readerVars, plan, listVars, crashes>>

\* reconcile_snapshot_publication: only an Incomplete marker is promoted.
ReconcileSnapshot(r) ==
  /\ pc = "idle"
  /\ r \in manifest
  /\ snap[r] = "Incomplete"
  /\ snap' = [snap EXCEPT ![r] = "Ready"]
  /\ job' = [job EXCEPT ![r] = "done"]
  /\ UNCHANGED <<named, manifest, loc, bytes, current, pointer, pins, gcVars, retireVars, readerVars, plan, listVars, crashes>>

\* Catalog::delete_repository.  Aliases, locations and the manifest stay.
DeleteRepository(r) ==
  /\ pc = "idle"
  /\ snap[r] # "none"
  /\ snap' = [snap EXCEPT ![r] = "none"]
  /\ UNCHANGED <<job, named, manifest, loc, bytes, current, pointer, pins, gcVars, retireVars, readerVars, plan, listVars, crashes>>

-----------------------------------------------------------------------------
(* Workspace pins.                                                         *)

\* A caller reads current_generation for the manifest of its next workspace.
PlanWorkspace ==
  /\ pc = "idle" /\ plan = 0 /\ Cardinality(pins) < MaxPins
  /\ plan' = current
  /\ UNCHANGED <<importVars, loc, bytes, current, pointer, pins, gcVars, retireVars, readerVars, listVars, crashes>>

\* checkout_cold_commit_and_persist reads the commit through the catalog and
\* pins the generation of the manifest it was given.
PersistWorkspace(r) ==
  /\ pc = "idle" /\ plan # 0 /\ Cardinality(pins) < MaxPins
  /\ \A x \in Reachable(Roots[r]) : <<r, x>> \in named /\ Readable(x)
  /\ pins' = pins \cup {<<plan, r>>}
  /\ plan' = 0
  /\ UNCHANGED <<importVars, loc, bytes, current, pointer, gcVars, retireVars, readerVars, listVars, crashes>>

\* delete_persisted_workspace
DeleteWorkspace(pin) ==
  /\ pc = "idle"
  /\ pin \in pins
  /\ pins' = pins \ {pin}
  /\ UNCHANGED <<importVars, loc, bytes, current, pointer, gcVars, retireVars, readerVars, plan, listVars, crashes>>

-----------------------------------------------------------------------------
(* The GC job lists what is retained and then, in run_gc_once, takes the   *)
(* catalog to mark, copy, publish and retire.                              *)

Finish == pc' = "idle" /\ live' = {} /\ victim' = 0

\* RetainedObjectSource: the objects active import jobs have named.
Retained == {e \in named : job[e[1]] \in {"importing", "imported"}}

\* retained_objects(), before the catalog is locked: other operations may get
\* the lock first.
GcList ==
  /\ pc = "idle" /\ ~listed /\ current < MaxGen
  /\ listed' = TRUE /\ listing' = Retained
  /\ UNCHANGED <<late, overtaken, gcVars, importVars, loc, bytes, current, pointer, pins, retireVars, readerVars, plan, crashes>>

Unlist == listed' = FALSE /\ listing' = {} /\ late' = {}

\* The roots are those of the Ready snapshots now, and what was retained then.
MarkRoots == {e \in Repo \X Object : snap[e[1]] = "Ready" /\ e[2] \in Roots[e[1]]} \cup listing

\* The references completed_mark_set visits: every root, and what an object
\* refers to under the name of one repository that reached it.
Walks(visited) ==
  /\ MarkRoots \subseteq visited
  /\ \A e \in visited : \E r \in Repo :
       <<r, e[2]>> \in visited /\ \A y \in Refs[e[2]] : <<r, y>> \in visited

Marked(visited) == {e[2] : e \in visited}

\* The mark fails as a whole unless every visited name has an alias and a
\* readable record in the current generation.
GcMark ==
  /\ pc = "idle" /\ listed /\ current < MaxGen
  /\ \A e \in MarkRoots : snap[e[1]] = "Ready" => e[1] \in manifest
  /\ \E visited \in SUBSET named :
       /\ Walks(visited)
       /\ Marked(visited) = Reachable(Marked(MarkRoots))
       /\ \A x \in Marked(visited) : loc[x] = current /\ x \in bytes[current]
       /\ live' = Marked(visited)
  /\ pc' = "copy"
  /\ Unlist
  /\ overtaken' = overtaken \cup late
  /\ UNCHANGED <<victim, importVars, loc, bytes, current, pointer, pins, retireVars, readerVars, plan, crashes>>

\* The job fails with its mark, and the next one lists again.
GcMarkFails ==
  /\ pc = "idle" /\ listed
  /\ Unlist
  /\ UNCHANGED <<overtaken, gcVars, importVars, loc, bytes, current, pointer, pins, retireVars, readerVars, plan, crashes>>

\* compact_completed_mark_set copies, synchronizes and verifies; a failure
\* leaves some copies behind.
GcCopy ==
  /\ pc = "copy"
  /\ \E copied \in SUBSET live :
       /\ bytes' = [bytes EXCEPT ![current + 1] = @ \cup copied]
       /\ \/ copied = live /\ pc' = "publish" /\ UNCHANGED <<live, victim>>
          \/ Finish
  /\ UNCHANGED <<importVars, loc, current, pointer, pins, retireVars, readerVars, plan, listVars, crashes>>

\* Fault: the batch switches the generation without the shadow locations.
GcPublishWithoutLocations ==
  /\ pc = "publish"
  /\ current' = current + 1
  /\ pc' = "pointer" /\ UNCHANGED <<live, victim>>
  /\ UNCHANGED <<importVars, loc, bytes, pointer, pins, retireVars, readerVars, plan, listVars, crashes>>

\* publish_generation: one batch moves all locations and the generation.
GcPublish ==
  /\ pc = "publish"
  /\ \/ /\ loc' = [x \in Object |-> IF x \in live THEN current + 1 ELSE loc[x]]
        /\ current' = current + 1
        /\ pc' = "pointer" /\ UNCHANGED <<live, victim>>
     \/ Finish /\ UNCHANGED <<loc, current>>
  /\ UNCHANGED <<importVars, bytes, pointer, pins, retireVars, readerVars, plan, listVars, crashes>>

\* publish_active; when it fails the cycle ends without a retirement.
GcPointer ==
  /\ pc = "pointer"
  /\ \/ pointer' = current /\ pc' = "retire" /\ live' = {} /\ victim' = current - 1
     \/ Finish /\ UNCHANGED pointer
  /\ UNCHANGED <<importVars, loc, bytes, current, pins, retireVars, readerVars, plan, listVars, crashes>>

Pinned(g) == \E r \in Repo : <<g, r>> \in pins

\* Fault: a pinned generation is retired.
RetireIgnoringPins(g) ==
  /\ pc = "idle" \/ (pc = "retire" /\ victim = g)
  /\ g < current
  /\ pointer' = current
  /\ retiring' = retiring \cup {g}
  /\ pc' = "move" /\ victim' = g /\ live' = {}
  /\ UNCHANGED <<trashed, importVars, loc, bytes, current, pins, readerVars, plan, listVars, crashes>>

\* Fault: new leases are still admitted.
RetireWithoutMarker(g) ==
  /\ pc = "idle" \/ (pc = "retire" /\ victim = g)
  /\ g < current /\ ~Pinned(g)
  /\ pointer' = current
  /\ UNCHANGED retiring
  /\ pc' = "move" /\ victim' = g /\ live' = {}
  /\ UNCHANGED <<trashed, importVars, loc, bytes, current, pins, readerVars, plan, listVars, crashes>>

\* retire_compacted_generation, by the GC cycle or by
\* retry_generation_retirement: no pin, repair the pointer, stop leases.
RetireMark(g) ==
  /\ pc = "idle" \/ (pc = "retire" /\ victim = g)
  /\ g < current /\ ~Pinned(g)
  /\ pointer' = current
  /\ pointer' # g
  /\ retiring' = retiring \cup {g}
  /\ pc' = "move" /\ victim' = g /\ live' = {}
  /\ UNCHANGED <<trashed, importVars, loc, bytes, current, pins, readerVars, plan, listVars, crashes>>

\* A pin or a failure ends it early, maybe with the pointer repaired.
RetireDeferred(g) ==
  /\ pc = "idle" \/ (pc = "retire" /\ victim = g)
  /\ g < current
  /\ pointer' = pointer \/ (~Pinned(g) /\ pointer' = current)
  /\ Finish
  /\ UNCHANGED <<importVars, loc, bytes, current, pins, retireVars, readerVars, plan, listVars, crashes>>

Leased(g) == g \in leaked \/ \E p \in held : rgen[p] = g

\* may_reclaim and the rename, with the state lock held since RetireMark.
MoveToTrash(g) ==
  /\ pc = "move" /\ victim = g
  /\ ~Leased(g) /\ g \notin trashed
  /\ trashed' = trashed \cup {g}
  /\ Finish
  /\ UNCHANGED <<retiring, importVars, loc, bytes, current, pointer, pins, readerVars, plan, listVars, crashes>>

\* Active readers, an existing destination or a failing rename: the marker stays.
MoveRefused ==
  /\ pc = "move"
  /\ Finish
  /\ UNCHANGED <<retireVars, importVars, loc, bytes, current, pointer, pins, readerVars, plan, listVars, crashes>>

-----------------------------------------------------------------------------
(* ColdWorkspaceSource::record_for: look up, lease, read, release.         *)

\* The alias and the location, read from the catalog before the lease.
Locate(p, x) ==
  /\ rgen[p] = 0
  /\ loc[x] # 0 /\ \E r \in Repo : <<r, x>> \in named
  /\ rgen' = [rgen EXCEPT ![p] = loc[x]]
  /\ robj' = [robj EXCEPT ![p] = {x}]
  /\ UNCHANGED <<held, leaked, importVars, loc, bytes, current, pointer, pins, gcVars, retireVars, plan, listVars, crashes>>

\* Fault: the retiring marker is not looked at.
LeaseIgnoringMarker(p) ==
  /\ rgen[p] # 0 /\ p \notin held
  /\ pc # "move"
  /\ held' = held \cup {p}
  /\ UNCHANGED <<rgen, robj, leaked, importVars, loc, bytes, current, pointer, pins, gcVars, retireVars, plan, listVars, crashes>>

\* GenerationManager::lease, under the state lock.
Lease(p) ==
  /\ rgen[p] # 0 /\ p \notin held
  /\ rgen[p] \notin retiring
  /\ pc # "move"
  /\ held' = held \cup {p}
  /\ UNCHANGED <<rgen, robj, leaked, importVars, loc, bytes, current, pointer, pins, gcVars, retireVars, plan, listVars, crashes>>

Forget(p) == rgen' = [rgen EXCEPT ![p] = 0] /\ robj' = [robj EXCEPT ![p] = {}]

\* A retiring generation is refused; an I/O failure may leave the lease file.
LeaseFails(p) ==
  /\ rgen[p] # 0 /\ p \notin held
  /\ pc # "move"
  /\ leaked' = leaked \/ (rgen[p] \notin retiring /\ leaked' = leaked \cup {rgen[p]})
  /\ Forget(p)
  /\ UNCHANGED <<held, importVars, loc, bytes, current, pointer, pins, gcVars, retireVars, plan, listVars, crashes>>

\* The record was read and the lease is dropped.
Release(p) ==
  /\ p \in held
  /\ held' = held \ {p}
  /\ Forget(p)
  /\ UNCHANGED <<leaked, importVars, loc, bytes, current, pointer, pins, gcVars, retireVars, plan, listVars, crashes>>

-----------------------------------------------------------------------------
\* The daemon dies and starts again: GenerationManager::open removes every
\* lease, reconcile_active_generation repairs the pointer, and the import jobs
\* in progress have to run again.
Restart ==
  /\ crashes < MaxCrashes
  /\ crashes' = crashes + 1
  /\ Finish /\ Unlist
  /\ rgen' = [p \in Reader |-> 0] /\ robj' = [p \in Reader |-> {}]
  /\ held' = {} /\ leaked' = {}
  /\ pointer' = current
  /\ plan' = 0
  /\ job' = [r \in Repo |-> IF job[r] = "imported" THEN "importing" ELSE job[r]]
  /\ UNCHANGED <<overtaken, named, snap, manifest, loc, bytes, current, pins, retireVars>>

GcStep ==
  \/ GcList \/ GcMark \/ GcMarkFails \/ GcCopy \/ GcPublish \/ GcPointer
  \/ \E g \in Gen : RetireDeferred(g)
  \/ MoveRefused

Next ==
  \/ \E r \in Repo, T \in SUBSET Object : Import(r, T)
  \/ \E r \in Repo : PublishSnapshot(r) \/ ReconcileSnapshot(r) \/ DeleteRepository(r)
  \/ PlanWorkspace
  \/ \E r \in Repo : PersistWorkspace(r)
  \/ \E pin \in Gen \X Repo : DeleteWorkspace(pin)
  \/ GcStep
  \/ \E g \in Gen : RetireMark(g) \/ MoveToTrash(g)
  \/ \E p \in Reader, x \in Object : Locate(p, x)
  \/ \E p \in Reader : Lease(p) \/ LeaseFails(p) \/ Release(p)
  \/ Restart

\* A GC cycle that has begun goes on, and a reader finishes its read.  Nothing
\* in the daemon retries a retirement.
Fairness ==
  /\ WF_vars(pc # "idle" /\ GcStep)
  /\ \A p \in Reader : WF_vars(Release(p))

Spec == Init /\ [][Next]_vars

FairSpec == Spec /\ Fairness

-----------------------------------------------------------------------------
(* Properties.                                                             *)

\* Every object of a Ready snapshot has its name and a readable record,
\* whatever imports, deletions, collections, retirements and restarts came
\* before: completed_mark_set and publish_generation lose nothing reachable.
\* The exception is a repository overtaken by a collection: it named objects
\* after the GC job listed the retained ones and before it locked the catalog.
ReadyReadable ==
  \A r \in Repo \ overtaken : snap[r] = "Ready" =>
    \A x \in Reachable(Roots[r]) : <<r, x>> \in named /\ Readable(x)

\* The generation a reader holds a lease on stays in place and has the record
\* the reader looked up, even if the location was read before a compaction:
\* retire_generation and lease() agree through the marker and the lease files.
LeaseProtects ==
  \A p \in held : rgen[p] \notin trashed /\ robj[p] \subseteq bytes[rgen[p]]

\* The derived pointer never names a generation that went to the trash, even
\* when publish_active failed after the catalog batch.
PointerInPlace == pointer \notin trashed

\* A step moves a generation to the trash only when the catalog is past it and
\* nobody pins or leases it: the checks of retire_compacted_generation still
\* hold when retire_generation renames the directory.
RetiresUnused ==
  [][\A g \in trashed' \ trashed :
       g < current /\ ~Pinned(g) /\ \A p \in held : rgen[p] # g]_vars

\* A superseded generation whose retirement is tried again and again, with a
\* rename that does not fail for ever, is eventually trashed, unless a workspace
\* pins it or a lease file without an owner remains: readers that hold it
\* finish, and the marker of an earlier try admits no new ones.
RetryRetires ==
  \A g \in Gen :
    []<><<RetireMark(g)>>_vars /\ SF_vars(MoveToTrash(g))
      => ((g < current) ~> (g \in trashed \/ Pinned(g) \/ g \in leaked))

-----------------------------------------------------------------------------
(* The inductive invariant behind the safety properties.                   *)

Active(r) == job[r] \in {"importing", "imported"}

\* What the collector must not lose: snapshots that are Ready and imports that
\* may become Ready.
Protected(r) == Active(r) \/ snap[r] = "Ready"

\* What it does not lose.
Spared(r) == Protected(r) /\ r \notin overtaken

\* A manifest is written only when all objects of its snapshot have names, and
\* an Incomplete snapshot has an active job.
ImportInv ==
  /\ \A e \in named : job[e[1]] # "new" /\ e[2] \in Reachable(Roots[e[1]])
  /\ \A r \in Repo :
       /\ job[r] = "imported" \/ r \in manifest => {r} \X Reachable(Roots[r]) \subseteq named
       /\ snap[r] = "Incomplete" => Active(r)
       /\ snap[r] = "Ready" => r \in manifest

\* The listing has the names of every active import that named none since.
ListInv ==
  listed => \A e \in named : Active(e[1]) /\ e[1] \notin late => e \in listing

\* Locations lead to records, those of protected objects into the current generation.
StoreInv ==
  /\ \A x \in Object : loc[x] # 0 => loc[x] <= current /\ x \in bytes[loc[x]]
  /\ ~StaleDedupe => \A e \in named : Spared(e[1]) => loc[e[2]] = current

\* What the GC cycle has established before each of its steps.
GcInv ==
  /\ pc \in {"copy", "publish"} => \A e \in named : Spared(e[1]) => e[2] \in live
  /\ pc = "publish" => live \subseteq bytes[current + 1]
  /\ pc = "pointer" => current > 1
  /\ pc \in {"retire", "move"} => victim \in Gen /\ victim < current
  /\ pc = "move" => victim \in retiring /\ ~Pinned(victim)

\* Retired generations are behind the pointer, which is not ahead of the catalog.
RetireInv ==
  /\ trashed \subseteq retiring
  /\ \A g \in retiring : g < pointer
  /\ pointer <= current

\* A reader knows a record, and its lease keeps the record's generation.
ReaderInv ==
  /\ \A p \in Reader : rgen[p] # 0 => robj[p] \subseteq bytes[rgen[p]]
  /\ \A p \in held : rgen[p] # 0 /\ rgen[p] \notin trashed

\* Every step of imports, the collector, readers and restarts preserves this:
\* the collector marks what is protected, and copies it before it publishes the
\* locations.
IInv == ImportInv /\ ListInv /\ StoreInv /\ GcInv /\ RetireInv /\ ReaderInv

-----------------------------------------------------------------------------
(* Statements of the repository that the code does not keep.               *)

\* "All Ready repository snapshots, workspace pins, [...], and active jobs are GC
\* roots" (docs/operations.md): what an import named stays readable when its
\* snapshot becomes Ready, and what a workspace was made from.
ActiveJobIsRoot ==
  \A r \in Repo : snap[r] = "Ready" => \A x \in Reachable(Roots[r]) : Readable(x)
PinIsRoot == \A pin \in pins : \A x \in Reachable(Roots[pin[2]]) : Readable(x)

\* "It stops admitting new leases for N, waits for current N leases to drain,
\* marks N retired, and only then removes N's chunks." (docs/operations.md): a
\* retirement that meets readers goes on when they have finished.
WaitsForReaders ==
  \A g \in Gen : (pc = "move" /\ victim = g /\ Leased(g)) ~> (g \in trashed \/ Pinned(g) \/ g \in leaked)
=============================================================================
