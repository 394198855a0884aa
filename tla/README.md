# Reflink Forest: specifications, checks and proofs

TLA+ models of Reflink Forest, a local content-addressed store for Git objects.
The modules are translated from the Rust sources under `src/crates/`; this file
says what is modelled, what TLC checks on small instances, what TLAPS proves for
every instance, and what is left out. `PROJECT.json` maps every definition to the
source lines it stands for.

## The system

| Part | Source | Modules |
|---|---|---|
| chunk files, object locations | `reflink-forest-store`, `-index` | `ChunkStore`, `DurableMap` (proved) |
| rotation, catalog, location rebuild | `-store`, `-index` | `RotatingWriter` (proved), `Catalog`, `LocationRebuild` |
| generations, GC, leases | `-maintenance`, `-daemon` (coordinator) | `GenerationGC` (proved) |
| object walks of import and mark | `-git`, `-import`, `-maintenance` | `ObjectGraph` |
| snapshot publication | `-import` | `SnapshotPublication` (proved) |
| derived cache | `-cache` | `CacheHydration`, `CacheAdmission` (both proved) |
| checkout, workspaces | `-checkout`, `-workspace` | `CheckoutPlan`, `WorkspaceReplace`, `Workspaces` (both proved) |
| job store, its catalog mirror, workers | `-daemon` | `JobStore` (proved), `JobMirror`, `DaemonWorkers` |
| scrub schedule, migration | `-daemon` | `ScrubSchedule`, `MigrationJournal` (both proved) |
| processes, control socket, log | `-daemon`, `-daemon/production` | `DaemonLifecycle`, `ControlSocket`, `StructuredLog` (all proved) |
| checkpoint, backup, restore | `-backup`, `-daemon/production`, `-store` (gate) | `ColdTier`, `ColdCheckpoint`, `ColdRestore` (both proved), `AuthorityDigest` |
| loopback image, diagnostics, clone probe | `-btrfs` | `LoopbackImage`, `CloneProbe` (both proved), `Diagnostics` |
| persistent formats | `-format`, `-index`, and the crates above | `RecordFormat`, `ManifestFormat`, `Encodings` |

An import reads the objects reachable from a repository's refs, appends each as a
record to the open chunk of the current generation and indexes it in the catalog:
a location for the content, an alias for the repository's name of it. A snapshot
manifest then makes the repository Ready. Checkouts resolve names to contents and
contents to records, hydrate the derived cache from the records, clone files from
it into a staged tree, publish the tree under its name and pin the generation they
were made from. A collection marks what Ready snapshots and active jobs reach,
copies it to the next generation, switches the catalog in one batch, and retires
the old generation once no pin and no reader lease needs it. The daemon runs
imports, checkouts and maintenance as jobs of a durable queue that a local socket
fills, and holds the writers still while a checkpoint copies the cold tier.

## Modules

### `DurableMap`
What the cold tier promises: a map from names to contents in which a name is bound
once and stays bound.

### `ChunkStore`
One generation: chunk files and the catalog.

*State.* For each chunk what the kernel shows (`name`, `header`, `recs`, `footer`,
`junk`) and what survives a power loss (`dname`, the persistence of header and
footer, `synced`); the catalog tables `loc`, `alias`, `cstate`, `ccount`; the live
`writer`; the call in progress (`pc`, `cur`, `id`, `key`). Record contents are
model values and an offset is the ordinal of the record, since a chunk is
append-only. `junk` counts the bytes after the last record or footer, because a
torn write that is longer than what is written over it stays visible.

*Actions.* `create_and_publish` is `Create`, `CreateSync`, `CreateDirSync`,
`CreatePublish`; `append_and_index` is `IndexAlias` (deduplicated) or
`AppendRecord`, `AppendSync`, `AppendApply`; `seal_and_publish` is `Seal`,
`SealFooter`, `SealSync`, `Rename`, `DirSync`, `PublishSealed`; recovery is
`OpenRecovered` and `reconcile_chunk` by the three things it can find. Calls borrow
the catalog mutably and do not overlap; they are split at every system call that
can fail or be interrupted. `Kill` stops the process. `PowerLoss` also drops any
part of what was not synchronized.

*Environment.* Three constants say what the operating system does:
`ShortWrites` (a failing write leaves some bytes), `SyncErrorDropsPages` (a failed
fdatasync loses dirty pages), `SyncPersistsEntry` (fdatasync of a new file persists
its directory entry). `Oversize` holds the contents longer than
`MAX_RECOVERY_RECORD_BYTES`.

### `GenerationGC`
All generations: imports, snapshot visibility, the collection cycle, leases, pins.

*State.* The catalog (`named`, `loc`, `snap`, `current`, `pins`), files
(`manifest`, `bytes`, `pointer`, `retiring`, `trashed`, lease files as `held` and
`leaked`), the GC job (`listed`, `listing`) and its cycle (`pc`, `live`, `victim`), readers
(`rgen`, `robj`). Two variables only observe: `late` are the repositories that named
objects since the listing, `overtaken` those that were late when a mark used it.
The objects of a chunk are a set: `ChunkStore` shows that an indexed record is
complete and durable. The Git graph is a constant `Refs`; reachability is defined as
membership in every closed set, so that it can be reasoned about without recursion.

*Actions.* The handler of a GC job calls `retained_objects()` (`GcList`) before `run_gc_once`
locks the catalog, so imports, publications and deletions may come in between. From then on
the catalog is held for the whole cycle, which is split into `GcMark`, `GcCopy`, `GcPublish`, `GcPointer`, `RetireMark`, `MoveToTrash`, each of
which may fail; `RetireMark` is also `retry_generation_retirement`. The mark fails as
a whole when one name, location or record is missing or in another generation
(`GcMarkFails`, or any other error of the job), and the next job lists again.
Readers look a location up (`Locate`), take a lease (`Lease`, which the marker
refuses) and release it, at any time and without the catalog lock. `Restart` is a
crash followed by `OperationalMaintenanceCoordinator::open`.

*Environment.* `Retained` stands for the injected `RetainedObjectSource`: it lists the
objects named by import jobs that have not published yet, as docs/operations.md
requires ("active jobs are GC roots"), at the moment it is called. Imports write into the current generation.
`StaleDedupe` says whether an import may meet the location of an object that an
earlier collection left behind.

### `JobStore`
The daemon's durable queue, one file per job.

*State.* `disk` is the visible version of each file and `past` the older versions a power
loss may still bring back; `leftover` says whether a temporary file was left behind;
`phase` and `work` are the daemon's and its workers' volatile state. `ran`, `acked` and
`reported` record what handlers and callers were given.

*Actions.* Every mutation runs under one mutex, so `enqueue`, `start`, `retry`, `succeed`,
`fail` and `claim_next_matching` are one step each, which ends in `write_record_locked`:
`Publish` when the directory fsync succeeded (it also settles earlier renames), or
`WriteFails`, before the rename or after it. A handler runs between `Claim` and `Settle`,
outside the mutex, and clients may move its job meanwhile: `Settle` goes by the
identifier alone. `Kill` and `PowerLoss` end the process; `RemoveTemporaries`,
`RecoverRunning` and `Open` are the steps of `open_with_recovery`, which may be
interrupted and starts over. A write that a kill interrupts after its rename is
`WriteFails` followed by `Kill`. Payloads and the limit on a
record's size are in `ManifestFormat`.

### `RotatingWriter`, `Catalog`, `LocationRebuild`
`RotatingWriter` is `RotatingChunkWriter`: `AppendAndIndex` decides whether the record fits
with its footer, then `SealCurrent` and `CreateNext` rotate; each may fail, which leaves the
writer without an active chunk, and the next call is `Panic`. A file has an identity and an
ending: an `.open` file of the next identity stops `CreateNext`, a `.sealed` one does not, so
a chunk may get a second file; the catalog's metadata may refuse it afterwards. The records
of a file carry their offsets, and the file its length. The first identity of a writer is
the caller's choice, and `behind` keeps the choices that were not past every file. `Catalog` has every column
family in one map and applies batches the way each backend does. `LocationRebuild` starts
from any subset of the chunk files, scans and vets them (`Preflight`), clears the locations
behind a durable marker (`Begin`) and writes them in batches; `Stop` may come anywhere.
Imports and compactions run between rebuilds.

### `ObjectGraph`, `SnapshotPublication`
`ObjectGraph` has the two walks over Git objects. The import takes the refs, reads what they
reach one object at a time while refs move and objects are pruned, stores the objects and
publishes. The mark walk queues the refs of every Ready snapshot and the retained references,
each as often as it is named, and follows them through aliases and records, with the `MarkLimits`. An object is its kind and
its header lines, so malformed objects, headers in a message and gitlinks occur.
`SnapshotPublication` is begin, rename, directory sync and finish of a manifest at a path the
caller gives, which may be that of another snapshot's manifest; the
reconciliation of the configured paths at startup, and deletion.

### `CacheHydration`, `CacheAdmission`
`CacheHydration` follows a call through join or lead, the cold read, publication by hard
link, and the discard of an invalid entry with its re-inspection in quarantine, on handles
that share files but no locks. `CacheAdmission` follows an admission through measurement,
eviction in content-ID order, the second measurement and the allocation under the
coordinator's lock; others allocate without admission.

### `CheckoutPlan`, `WorkspaceReplace`, `Workspaces`
`CheckoutPlan` parses and plans paths or trees byte by byte (a pure algorithm, checked
against reference definitions) and creates the plan in a staging directory.
`WorkspaceReplace` is `publish_workspace` for one name by several callers: looks, renames,
exchanges and the move of the old tree. `Workspaces` is the durable protocol (directory,
manifest, pin and record), deletion, and startup reconciliation; `Step` advances the one
operation in progress or lets it fail.

### `DaemonWorkers`, `JobMirror`
`DaemonWorkers` has the five fixed-purpose workers above the queue of `JobStore`: what the
daemon and clients enqueue, which worker claims it, how its payload is decoded, the
registration of trusted jobs after the enqueue, and the order list, lock, run of a
collection. `JobMirror` extends `JobStore` by the catalog's copy of the records.

### `ScrubSchedule`, `MigrationJournal`
Both keep one record, in memory and in a file that is replaced by rename and has the versions
a power loss may bring back (`Versions`). A claim or a transition changes memory first, and
a failed write leaves it changed. The migration's handler is external.

### `DaemonLifecycle`, `ControlSocket`, `StructuredLog`
`DaemonLifecycle`: processes that may share a state root or a runtime directory take the
instance lock, recover, check the catalog, open it, bind the socket and serve; they stop in
the order in which the service is dropped, or are killed. `ControlSocket`: one thread
accepts, checks the peer, reads a line that comes in pieces, executes it and answers.
`StructuredLog`: one line per event, written and synchronized by a handle that does not
look at what an earlier one left.

### `ColdTier`, `ColdCheckpoint`, `ColdRestore`, `AuthorityDigest`
`ColdTier` has what a backup holds and the checks on it. `ColdCheckpoint` composes gated
writers of chunks and catalog, writers of pins outside the gate, and a native or generic
checkpoint, step by step. `ColdRestore` has several restorers of one destination and a
backup that may be damaged. Only the top directory of what it publishes is synchronized, so a
power loss may take any of its files away and tear the catalog's directory. `AuthorityDigest` is the stream a directory is digested from.

### `LoopbackImage`, `Diagnostics`, `CloneProbe`
`LoopbackImage` is the privileged helper's init, mount and grow as one action per command,
while an administrator attaches, replaces, unmounts and reboots. `Diagnostics` has the
parsers of `btrfs qgroup show` and `fstrim`. `CloneProbe` is the startup check that a clone
is isolated, by probes whose names may coincide; the error of a removal is dropped and the
file stays (`stuck`).

### `Encodings` and the formats
Every persistent record is a sequence of fields: a fixed-width number is one field and
variable data one field per byte. `Encodings` writes a value in one of 21 formats,
overwrites, cuts or extends it, with or without matching checksums, and reads it back.
CRC-32C and SHA-256 are a checksum over the fields, compression is reversible.

## Runs

`MCChunkStore`, `MCGenerationGC`, `MCCache`, `MCWorkspaces`, `MCDaemon` and `MCStorage` are menus: a behaviour is one of one
part, chosen in the initial state, so that the parts' state spaces add up. The parts of the first
two are two instances of one component. A property of the others
gathers what one component promises, its type invariant included; the conjuncts are stated
with the component. A menu extends the components that have theorems, whose names are distinct
for this, so that what TLC checks is the very definition that is proved and the components'
assumptions are evaluated by the run; it instantiates the others. Most properties of a menu have several mutants, one for each conjunct.

| Run | Instance | Shows |
|---|---|---|
| `chunk_store` | 2 chunks, 2 contents, 2 names, 2 records, 1 crash; or 1 chunk, 3 records, 3 crashes, torn writes | durability, completeness and immutability of sealed chunks, refinement of `DurableMap` |
| `gc` | 2 repositories with a common object, 3 generations; or 1 repository, 1 reader, 1 collection, 1 pin, 1 restart | Ready snapshots stay readable unless their import overtook a listing; leases protect; only unused generations retire, and those that are tried again do |
| `job_queue` | 2 jobs, 2 workers of one kind, 1 kind without a worker, 2 I/O errors, 1 crash, 2 attempts | acknowledged work stays, no attempt runs twice, queued jobs run |
| `cache` | 3 threads on 2 handles and 1 entry, 1 fault; 2 clients of 1 coordinator, 2 entries | single flight, valid entries survive, calls return; admissions exclude each other and keep the reserves, eviction is minimal |
| `workspaces` | trees of 2 nested objects, paths of up to 4 bytes; 3 callers of one name; 3 workspace IDs, 3 operations, 2 faults | plans are trees and are created as planned; no tree is lost; manifest, pin, record and directory agree after every crash |
| `daemon` | 2 workers, 3 times, 3 formats, 3 failed writes, 2 crashes; 1 job of every kind; 3 clients; 4 events, 3 faults | scrubs run one at a time and on time, migrations switch forward and complete, jobs finish, commands run once, acknowledged events are logged |
| `storage` | see below | checkpoints, restores, rotation, catalog, rebuild, image, formats, diagnostics, processes, mirror, walks, snapshots, digests, probes |

`storage` has 14 parts: a checkpoint of one chunk with a gated writer, a pinner and one
failure, in both kinds; two restorers with one fault; three objects and three chunks of the
rotating writer; batches of up to two writes on a catalog of seven keys; rebuilds over two records in three
files, one of a later generation and one a copy; an image with two loop devices, three sizes
and two faults; 21 formats; command outputs around the number limits; two processes over two
state roots and two runtime directories; one job with a mirror; two repositories with a shared
history of seven objects, in seven versions of which some are malformed or name a submodule, a
ref that is named twice and a retained list; two snapshots on two paths with two faults; pairs
of directories of two levels; two probes with two faults.

*Bounds.* Two chunks let a record be in a chunk other than the writer's, and let one
chunk be sealed while another is written. Three crashes let a recovery be interrupted
and recovered again. A record is more than twice as long as the footer, as in the
format (at least 152 and 64 bytes), so that a torn record outlasts a footer. Three
generations let a location be left two collections behind. Two attempts let a job be failed and retried while its first
worker still runs it, and then reach the attempt limit (`u32::MAX` in the code); two I/O
errors let two renames be unsynchronized at once. Two handles let an entry be replaced
between its inspection and its move, a third thread lets a flight have a follower meanwhile.
Three callers let a name be exchanged while another caller retires the tree it replaced.
Two faults let an operation fail and its retry, or the startup after it, be interrupted.
Three times let a scrub be due, claimed and due again. Three formats let a migration follow
another. Two state roots and two runtime directories let processes share either, both or
none. Two snapshots let the directory synchronization of one publication keep the rename of
another, and two paths let a manifest be replaced. Three files let a chunk have a second file
and the rotation go on. Two faults let a probe and its removal fail. Two records in the files
of a rebuild let a content have two locations in one chunk, in two chunks or in two generations.
Chunks, contents and names are symmetric in `chunk_store`; that run checks no liveness.

*Deadlock* is not checked: every bound on operations, faults and crashes lets the model stop.

*Fairness.* `gc`: a cycle that has begun goes on (it runs on one thread). A reader
releases its lease (a lease lives for one record read). Nothing is assumed of retirement: a
cycle retires the generation it superseded once, and `retry_generation_retirement` has no
caller in the daemon, so a retirement that readers deferred stays deferred (`WaitsForReaders`
below). `RetryRetires` therefore has the retries, and a rename that does not fail for ever, as
its hypothesis: it says that trying again is enough, because the marker of an earlier try
admits no new readers. `job_queue`: workers poll,
handlers return, and a daemon that is down is started again. `QueuedRuns` promises nothing
while a temporary file is left over, or while a queued job has no attempts left (`Blocked`):
both make `claim_next_matching` return an error. `cache`: each thread goes on (weak fairness of
its steps; a mutex is given up after a bounded number of its holder's steps). `daemon`: workers
poll and handlers return (weak fairness), a daemon with a partial migration is started again,
a migration callback that is called again and again succeeds at last and its transition is
written at last (strong fairness: the store does not fail for ever), the catalog mutex is
not withheld for ever from a collection that waits for it (strong fairness of `GcLock`), and the
socket's thread takes the step it can (weak fairness of `Accept`, `Handle` and `Respond`; nothing
is assumed of the clients).

### What the code does not keep

Each of these runs checks one sentence of the repository and TLC finds it violated; the
findings in `PROJECT.json` quote the sentence.

| Run | Sentence | Behaviour |
|---|---|---|
| `gc_late_import` | active jobs are GC roots | a GC job lists what is retained; an import names objects; the mark goes without them, the generation is retired, and the import's snapshot becomes Ready |
| `gc_reimport` | Ready snapshots are GC roots | import, delete, collect, import again: deduplicated against a retired generation |
| `sealed_checkpoint` | sealed chunks are part of the backup set | the footer of a sealed chunk is scanned as a record, so an exact plan is refused |
| `gitlinks` | a gitlink is not a missing local object | an import of a repository with a submodule reads the submodule's commit and fails |
| `rebuild_choice` | duplicate records select the lowest location (`store` 816) | a rebuild after a compaction selects the copy in the current generation |

TLC also finds the following, with a configuration of a passing run that is given the change
and checks only the property:

| Configuration | Change | Property | Sentence | Behaviour |
|---|---|---|---|---|
| `ChunkStore` | | `SealedFileKeepsFooter` | a footer in an `.open` file was synchronized (`store` 684) | fdatasync of the footer fails, `reconcile_chunk` renames and publishes, power loss |
| `ChunkStore` | | `SealedEndsWithFooter` | a sealed chunk ends with its footer (format-v1.md 81) | a torn append is longer than the footer written over it |
| `ChunkStore` | `Oversize = {x1}`, no symmetry | `IndexedDurable` | recovery truncates to the last complete record (implementation-plan.md 58) | a record above the recovery ceiling is indexed, then cut off |
| `ChunkStore` | `SyncErrorDropsPages = TRUE` | `IndexedDurable` | the catalog never references unsynchronized bytes (format-v1.md 106) | fdatasync fails, the writer is used again |
| `GenerationGC` | `Part = {"all"}` | `PinIsRoot` | workspace pins are GC roots (operations.md 79) | a collection leaves objects behind, a checkout reads them there and pins the new generation, the old one is retired |
| `GenerationGC` | | `WaitsForReaders` | retirement waits for the leases to drain (operations.md 69) | a reader defers the retirement, and nobody tries again |
| `Workspaces` | | `OnlyUnreadyWithdrawn` | only unready workspaces are withdrawn (`workspace` 582) | a stale manifest makes startup withdraw another, Ready, workspace of the same name |
| `Storage` | `Part = {"snapshots"}` | `ReadyDurable` | a promoted manifest is already durable (`import` 384) | a manifest whose directory was not synchronized is promoted, power loss |
| `Storage` | `Part = {"index"}` | `DeletionTakesAliases` | deletion removes aliases (operations.md 81, description.md 1851) | `delete_repository` removes the repository's record and snapshots, and no alias |

The passing runs and the proofs exclude the two environments of the third and fourth row.

The properties name their exceptions where the code has them. The ones a maintainer should know:

- *Collection*: a repository that named objects between the listing and the mark is out of
  `ReadyReadable` (`overtaken`), and the mark's roots are complete but for it.
- *Workspaces*: a retry after a failed manifest sync does not synchronize again
  (`ManifestFirst`); a deletion retried after a withdrawal whose sync failed, or that a kill cut
  off before it, releases the pin without synchronizing (`VisiblePinned`); a kill between
  withdrawal and unpin makes startup refuse with `ReadyWorkspaceMissing`; startup withdraws a
  manifest that is not Ready by its name, and so may take the directory of a Ready workspace of
  that name that it has already looked at and serve its record without it (`StartupReconciles`,
  `WithdrawnAfter`).
- *Scrubs*: a claim whose write failed blocks scrubs until a restart (`RunningOwned`), and
  replacing a running schedule lets two scrubs overlap (`OneScrub`).
- *Migration*: a transition whose write failed leaves memory ahead of the disk
  (`SwitchRecoverable`); a power loss may then bring an older record back and have its callback
  called again (`SwitchForward`).
- *Cache*: followers of a leader that panicked wait for ever (`CallsReturn`); the daemon's two
  handles share no locks (`UndisturbedSucceeds`).
- *Rotation*: after a failed seal or create the writer has no active chunk and the next call
  panics (`Panic`). A new writer that begins at a chunk whose seal failed past the rename
  gives that chunk a second file; only writers that begin past all files do not (`OneFileEach`).
- *Snapshots*: a manifest that was announced is replaced when a caller gives its path to another
  snapshot (`PublishedStays`, `reused`).
- *Restore*: after a power loss files of a restored tier may be missing and its catalog torn
  (`RestoredFaithful`).
- *Rebuild*: a record of the current generation wins, then the lowest location (`RebuiltBest`).
- *Socket*: reads have no timeout, so one silent client holds up all others: `Answered` promises
  that the socket is idle again and again unless it serves a client that is connected and sends
  nothing; an enqueue whose answer is lost leaves a job nobody knows of
  (`EnqueuesTold` assigns every job to the client whose enqueue made it).
- *Log*: the event after a torn one shares its line: no more events are unreadable than there
  were faults (`SpoiledPerFault`).
- *Loopback image*: the device could be rebound between inspection and format
  (`NothingWiped`); growth that stops after the truncate cannot be repeated.
- *Probe*: three probes with one name could mistake a fresh source for an unchanged one
  (`ProbeSound` is about a probe that shares its name with one other at most, `Paired`); a file
  whose removal failed stays (`ProbesClean`, `stuck`).

## Proofs

`tlapm` checks every leaf of eight modules: 63 theorems and 284 lemmas. The inductive
invariants, `IInv`, are stated with the component or at the head of its proofs, and TLC checked
each on the component's instance (often with more faults than the run has) before it was
proved. A proof module extends the components it is about, each with a section of its own. What
is assumed of the constants is assumed by the components and evaluated by the runs: bounds and
sizes are natural numbers, functions have their domains, and a value that stands for nothing
(`None`, `Nobody`, `NoClient`...) is none of the values it is compared with. Where a theorem
names the assumption again (`LoopConstants`, `MigrationConstants`...), the theorem that gathers
a component's properties discharges it.

Sums and counts are cardinalities: the bytes of a set of cache entries are the pairs of an entry
and a number below its size (`BytesOf`), so that the library's theorems about finite sets say what
an eviction frees. Where an argument is an induction (the first entry in content-ID order that
makes a prefix large enough, `FirstEntry`), the library's induction rule is of no use to these
provers, but the existence of a least counterexample is (`WFMin`).

**`ChunkStoreProofs`**, for any sets of chunks, contents and names, any
sizes and bounds:

- `TypeCorrect`, without further assumptions;
- `Durability` (`IndexedDurable`), `AliasesResolve`, `SealedIsComplete`,
  `SealedIsImmutable`, and `Refinement` (`ChunkStore` implements `DurableMap`), all under
  `Benign`: a failed fdatasync keeps its pages, a successful one on a new file persists its
  directory entry, and no record exceeds the recovery ceiling;
- of `RotatingWriter`, for any objects, lengths, target size and failures: `RotationIsSafe`
  (`RotationSafe`: chunks within the target size, records contiguous, one writable chunk, exact
  locations, and one file for each chunk as long as writers begin past the files there are).

`IndexedDurable` alone is not inductive. `IInv` adds what each step relies on: a file
with synchronized records has its header and both names (`FilesInv`), only a file whose
records are all synchronized has a footer (so recovery, which removes the footer, and a
power loss, which keeps `synced` records, never cut an indexed one), the writer's file has
no footer (`WriterInv`), and a call knows before its batch that its record is the last one
and synchronized (`CallInv`). `Refinement` then follows because no step takes a
synchronized record away (`PrefixKept`), so a name that resolves keeps resolving. The rotation's
invariant ties the call in progress to the active file (`Pending`), and says that a writer's
identities only go up and, if no writer began behind a file, are past those of all files
(`Ahead`).

**`GenerationGCProofs`**, for any object graph and any numbers of
repositories, readers, generations and restarts:

- `TypeCorrect`, `LeasesProtect`, `PointerStaysInPlace`, `OnlyUnusedRetires`, without
  further assumptions;
- `ReadyStaysReadable` (`ReadyReadable`, of the repositories that are not `overtaken`) when
  `~StaleDedupe`;
- of `CloneProbe`, for any number of probes with any names: `ProbesAreSound` (`ProbesSound`), of
  which `IsolationReported` and `ProbesLeaveNothing` are the parts.

Readability of Ready snapshots is not inductive: an import that is not published yet must
already be protected, and it is protected by a list that was made earlier. `IInv` states that
the listing has the names of every active import that has named none since (`ListInv`), that
every name of a Ready or active repository that was not overtaken is
located in the current generation (`StoreInv`), that the collector's mark contains all of
them (`GcInv`), that a manifest exists only for completely named snapshots (`ImportInv`),
and that retired generations are behind the pointer, which is not ahead of the catalog
(`RetireInv`). The mark step uses that reachability is monotone in the roots. For the probes,
`IInv` says who may have made the file at a name unless its removal failed (`Owned`), that only
the removal of another probe of the same name takes it away (`NameTaken`), and that a single other probe can take a
name away but not put a file of its own there in time (`Alone`).

**`JobStoreProofs`**, for any numbers of jobs, kinds, workers, I/O errors and crashes, without
further assumptions: `TypeCorrect`, `RecordsStayValid`, `AcknowledgedStays`
(`AcknowledgedKept`), `AttemptsRunOnce` (`OneRunPerAttempt`). What holds of the visible
files is not inductive, because a power loss may replace them; `IInv` states it of every
version that may come back. A write adds one version, whose attempts are not fewer and
whose predecessor is not `Succeeded`, and only a write whose directory fsync succeeded,
and which therefore leaves one version, is followed by a new promise. Of `ControlSocket`, for
any clients and requests: `SocketsServe` (`SocketServes`), of which `CommandsOwned`
(`ExecutedOwned`) and `JobsOwned` (`EnqueuesTold`) are the parts, with an invariant over the step
of the one connection being served.

**`CacheAdmissionProofs`**, for any clients, coordinators, entries, sizes and reserves:
`AdmissionKeepsReserves` (`ReservesKept`) and `AdmissionIsSound` (`AdmissionSound`), of which
`AdmissionExclusive` (`OneAdmission`) is a part. `IInv` states that a client past its first
measurement holds its coordinator's lock and that, while nobody intrudes, what was admitted is
still admissible: eviction only adds free space, and admission is monotone in it.
`EvictionMinimal`, that a pass of its own evicts no entry it could have kept, needs what the pass
has seen (`EvictionIInv`): until the scan it is the cache as it was found (`FreshPass`), and from
then on the candidates are the shortest prefix of the entries in content-ID order that frees
enough (`Shortest`), of which the first have been evicted (`PrefixPass`). Of `StructuredLog`, for
any number of events and faults: `LogIsKept` (`LogKept`), of which `AcknowledgedAreLogged`
(`AcknowledgedLogged`) is a part: synchronized text only grows and the events in it are in their
order. That each fault spoils one event at most (`SpoiledPerFault`) is not inductive, since a torn
line spoils the next event and not its own: `Paid` says that an unclean end of the file is a
fault not yet spent.

**`CacheHydrationProofs`**, for any handles, threads, blobs and faults: `EntriesAreSound`
(`EntriesSound`), if the free lock is no thread and every thread has a handle. Its three parts
need each other: a thread of another handle may move the entry that a thread is about to verify,
so that what a thread finds depends on the locks both hold (`LockInv`) and on where a moved file
is (`HeldInv`). Of `LoopbackImage`, for any devices, sizes, kills, reboots and associations of the
administrator: `ImagesSafe` (`ImageSafe`), of which `NothingIsWiped`, `MarkersTrue`,
`MountsVerified` and `ImagesGrowInOrder` are the parts. Initialising excludes mounting and growing through the marker (`Phases`),
so that nothing mounted is formatted; a file behind a device only gains (`Backed`).

**`WorkspacesProofs`**, for any manifests and any number of checkouts, failed steps, kills and
power losses, if `None` is none of the values it is compared with: `PinOutlivesDirectory`
(`VisiblePinned`), `ReadyKeepsDirectory` (`ReadyVisible`), `ManifestOnDisk` (`ManifestFirst`),
`StartupLeavesNothing` (`StartupReconciles`), `IdentityIsKept` (`IdentityKept`), and their sum
`RestartsAgreeAlways` (`RestartsAgree`). That the pin
outlives the directory is not inductive: it is released by a step that looks at nothing. `IInv`
adds what the deletion knows by then (`WithdrawalInv`) and that a name seen to be free is free
on disk, but for the one being withdrawn (`DirsInv`); that a manifest file that is no longer
seen can only come back as the one the catalog records (`ManifestsInv`); and that a checkout in
progress has not become Ready (`CheckoutInv`, `ReadiedInv`), so that its withdrawal takes
nobody's workspace. Of `WorkspaceReplace`, for any number of callers of one name: `TreesAreKept`
(`TreesKept`), of which `TreesAreConserved` and `NamesNeverAbsent` are the parts. `TreesConserved` says where every tree is and that no
two paths lead to one (`Apart`, `Whole`); `Holding` adds that a call that is not done still has a
tree to publish.

**`StorageProofs`**:

- of `ColdCheckpoint`, for any chunks, writers, pinners, failures, kills and power losses:
  `CheckpointsConsistent` (`CheckpointConsistent`). `IInv` states what the gate lets happen
  (`GateInv`: nothing in the tier changes while it is frozen) and how much of the cut the
  checkpoint has copied at each of its steps (`CkInv`);
- of `SnapshotPublication`, for any snapshots, manifests, configured paths and faults:
  `SnapshotsAreKept` (`SnapshotsKept`), of which `PublicationKept` (`PublishedStays`),
  `DeletionFinal` (`NotResurrected`) and `ReadyKept` (`ReadyImmutable`) are the parts. `IInv` adds what a publication in progress has reached: its marker is
  Incomplete until it is finished, from the rename on its manifest is the one at the path, and it
  is synchronized when the marker becomes Ready;
- of `ColdRestore`, for any restorers, faults and damage: `RestoresFaithful`
  (`RestoreFaithful`: what is restored is the backup, and a tier in use is kept), because what a restorer publishes passed the
  verification (`Checked`) and nobody else changes it.

**`DaemonProofs`**:

- of `ScrubSchedule`, for any workers, intervals, failed and torn writes: `ScrubsAreSafe`
  (`ScrubsSafe`);
- of `MigrationJournal`, for any workers, formats, write errors and kills: `MigrationsSafe`
  (`MigrationSafe`), of which `MarkersAfterSwitch`, `CallbacksCurrent`, `FormatsServed`,
  `SwitchesRecoverable` and `SwitchesForward` are the parts. The invariant is about every version of the record that a crash may leave;
- of `DaemonLifecycle`, for any processes, state roots and runtime directories: `ServicesSafe`
  (`ServiceSafe`), of which `InstancesExclude` (`OneInstance`), `ServingReachable`
  (`SocketReachable`), `ServingRecovered` (`NoForeignWork`) and `ServingWhole`
  (`ServesWholeCatalog`) are the parts. `IInv` states which locks a process holds at each step of its start and its end
  (`Held`) and what they protect (`Sound`): the socket is the holder's while the runtime lock is,
  and nobody starts a rebuild or leaves work behind under another's instance lock.

Only model-checked:

- liveness (`RetryRetires`, `QueuedRuns`, `CallsReturn`, `ScrubsHappen`,
  `MigrationCompletes`, and of `JobsServed` the conjuncts `JobsFinish` and `Answered`), which is
  out of the prover's reach;
- the formats, path parsing and planning, digests and diagnostics (`FormatsFaithful`,
  `PlanFaithful`, `DigestInjective`, `ReportsHonest`): what a recursive definition computes for
  every input would need induction over data;
- `Catalog`, `LocationRebuild`, `JobMirror`, `ObjectGraph` and `DaemonWorkers`, which have no
  theorems.

## Not modelled

- Identifiers, hexadecimal conversions and hashes (`-core`): collision-free functions
  everywhere. RocksDB: atomic, synchronous batches and an exclusive lock.
- Error types and their messages, accessors, statistics, configuration records and their path
  and permission checks.
- Operation events of the daemon and the service facade: values handed to a sink after the
  operation, and calls forwarded to operations that are modelled.
- The Git subprocess with its batch protocol, and the argument lists of `losetup`, `btrfs`,
  `mount` and `fstrim`: pure I/O; what the commands do is in `ObjectGraph` and `LoopbackImage`.
- Descriptor-relative file helpers (`openat`, `renameat2`, `linkat`): the steps of the modules
  that use them.
- The words of a control request: a request is valid or invalid. Payload bytes are in
  `ManifestFormat`.
- The creation of the native subvolume layout: four commands without a retry. The
  command-line probe, which repeats `CloneProbe`'s steps.
- `GenerationManager::cancel_retirement`, which has no caller.

The power-loss model keeps a prefix of the unsynchronized records of a file; a rename that was
not synchronized may be undone. The parts of a menu share no state. Composed are the chunk
writers, catalog, pins and checkpoint (`ColdCheckpoint`), imports, collector, readers and pins
(`GenerationGC`), queue and mirror (`JobMirror`), and schedule or journal with its file.
