------------------------ MODULE SnapshotPublication ------------------------
(***************************************************************************)
(* The publication of repository snapshots (reflink-forest-import): a      *)
(* marker in the catalog, which is synchronous, and a manifest file that   *)
(* is renamed into place, at the path the caller gives.  A publication     *)
(* borrows the catalog exclusively, so publications, reconciliations and   *)
(* deletions do not overlap; a kill or a power loss comes between any two  *)
(* steps.  Every path is in a directory of its own.                        *)
(***************************************************************************)
EXTENDS FiniteSets, Integers, Sequences

CONSTANTS
  Snapshot,     \* snapshots of one repository
  Path,         \* the paths callers give
  Content,      \* what a manifest may say: refs and summary of an import
  NoManifest,
  ConfiguredManifests,   \* ImportCheckoutConfig.snapshot_manifests: a sequence of paths
  MaxPublicationFaults     \* bound: kills, power losses and failed calls

ASSUME PublicationAssumption ==
  ConfiguredManifests \in Seq(Path) /\ MaxPublicationFaults \in Nat

\* A manifest names its snapshot.
SnapshotManifest == [snapshot : Snapshot, content : Content]

VARIABLES
  visibility,      \* [Snapshot -> {"Incomplete", "Ready", NoManifest}]
  visible,     \* the manifest at each path
  durable,     \* the same after a power loss
  publishing,          \* the step a publication, or a start of the daemon, is at
  path, manifest,      \* of the publication
  nextPath,        \* the next configured path of the start
  serving,          \* has the daemon started?
  publicationFaults,
  announced,       \* ghost: paths and manifests announced as published
  reused,      \* ghost: paths of these that were given to another snapshot
  begun        \* ghost: snapshots whose publication began since the last deletion

heard == <<announced, reused, begun>>
publicationVars ==
  <<visibility, visible, durable, publishing, path, manifest, nextPath, serving, publicationFaults, heard>>

\* Every variable has its type.
PublicationTypeOK ==
  /\ visibility \in [Snapshot -> {"Incomplete", "Ready", NoManifest}]
  /\ {visible, durable} \subseteq [Path -> SnapshotManifest \cup {NoManifest}]
  /\ publishing \in {"idle", "begun", "renamed", "written", "starting"}
  /\ path \in Path \cup {NoManifest} /\ manifest \in SnapshotManifest \cup {NoManifest}
  /\ nextPath \in 1 .. Len(ConfiguredManifests) + 1 /\ serving \in BOOLEAN
  /\ publicationFaults \in 0 .. MaxPublicationFaults
  /\ announced \subseteq [path : Path, manifest : SnapshotManifest]
  /\ reused \subseteq Path /\ begun \subseteq Snapshot

PublicationInit ==
  /\ visibility = [x \in Snapshot |-> NoManifest]
  /\ visible = [p \in Path |-> NoManifest] /\ durable = visible
  /\ publishing = "idle" /\ path = NoManifest /\ manifest = NoManifest /\ nextPath = 1 /\ serving = TRUE
  /\ publicationFaults = 0 /\ announced = {} /\ reused = {} /\ begun = {}

Returned == publishing' = "idle" /\ path' = NoManifest /\ manifest' = NoManifest

-----------------------------------------------------------------------------
\* Fault: a Ready snapshot is marked Incomplete like any other.
BeginAnyway(m, p) ==
  /\ serving /\ publishing = "idle"
  /\ publishing' = "begun" /\ manifest' = m /\ path' = p
  /\ visibility' = [visibility EXCEPT ![m.snapshot] = "Incomplete"]
  /\ begun' = begun \cup {m.snapshot}
  /\ UNCHANGED <<visible, durable, nextPath, serving, publicationFaults, announced, reused>>

\* begin_snapshot_publication; a Ready snapshot is refused.
BeginSnapshot(m, p) ==
  /\ serving /\ publishing = "idle" /\ visibility[m.snapshot] # "Ready"
  /\ publishing' = "begun" /\ manifest' = m /\ path' = p
  /\ visibility' = [visibility EXCEPT ![m.snapshot] = "Incomplete"]
  /\ begun' = begun \cup {m.snapshot}
  /\ UNCHANGED <<visible, durable, nextPath, serving, publicationFaults, announced, reused>>

\* write_snapshot_manifest: the temporary file is synchronized and renamed, whatever
\* the path held, then the directory is synchronized.
RenameManifest ==
  /\ publishing = "begun"
  /\ visible' = [visible EXCEPT ![path] = manifest]
  /\ reused' = IF \E a \in announced : a.path = path THEN reused \cup {path} ELSE reused
  /\ publishing' = "renamed"
  /\ UNCHANGED <<visibility, durable, path, manifest, nextPath, serving, publicationFaults, announced, begun>>

\* Fault: the directory is not synchronized.
SkipDirectory ==
  /\ publishing = "renamed" /\ publishing' = "written"
  /\ UNCHANGED <<visibility, visible, durable, path, manifest, nextPath, serving, publicationFaults, heard>>

SyncDirectory ==
  /\ publishing = "renamed"
  /\ durable' = [durable EXCEPT ![path] = visible[path]]
  /\ publishing' = "written"
  /\ UNCHANGED <<visibility, visible, path, manifest, nextPath, serving, publicationFaults, heard>>

\* finish_snapshot_publication: the file is read again, and must be the
\* requested manifest.
FinishSnapshot ==
  /\ publishing = "written"
  /\ IF visible[path] = manifest /\ visibility[manifest.snapshot] # NoManifest
     THEN /\ visibility' = [visibility EXCEPT ![manifest.snapshot] = "Ready"]
          /\ announced' = announced \cup {[path |-> path, manifest |-> manifest]}
     ELSE UNCHANGED <<visibility, announced>>
  /\ Returned
  /\ UNCHANGED <<visible, durable, nextPath, serving, publicationFaults, reused, begun>>

\* The catalog, the writing or the synchronization fails, and the call with it.
PublishFails ==
  /\ publishing \in {"begun", "renamed", "written"} /\ publicationFaults < MaxPublicationFaults
  /\ publicationFaults' = publicationFaults + 1
  /\ Returned
  /\ UNCHANGED <<visibility, visible, durable, nextPath, serving, heard>>

\* Catalog::delete_repository: all markers go in one batch, the manifests stay.
DeleteRepository ==
  /\ serving /\ publishing = "idle" /\ \E x \in Snapshot : visibility[x] # NoManifest
  /\ visibility' = [x \in Snapshot |-> NoManifest]
  /\ announced' = {} /\ reused' = {} /\ begun' = {}
  /\ UNCHANGED <<visible, durable, publishing, path, manifest, nextPath, serving, publicationFaults>>

-----------------------------------------------------------------------------
\* Fault: a manifest without a marker is promoted too.
ReconcileMarkerless ==
  /\ publishing = "starting" /\ nextPath <= Len(ConfiguredManifests)
  /\ LET m == visible[ConfiguredManifests[nextPath]]
     IN IF m # NoManifest
        THEN visibility' = [visibility EXCEPT ![m.snapshot] = "Ready"] /\ nextPath' = nextPath + 1 /\ UNCHANGED publishing
        ELSE publishing' = "idle" /\ UNCHANGED <<visibility, nextPath>>
  /\ UNCHANGED <<visible, durable, path, manifest, serving, publicationFaults, heard>>

\* reconcile_import_checkout_startup: each configured manifest is read and its
\* publication finished; a missing file or marker stops the start.
Reconcile ==
  /\ publishing = "starting" /\ nextPath <= Len(ConfiguredManifests)
  /\ LET m == visible[ConfiguredManifests[nextPath]]
     IN IF m # NoManifest /\ visibility[m.snapshot] # NoManifest
        THEN visibility' = [visibility EXCEPT ![m.snapshot] = "Ready"] /\ nextPath' = nextPath + 1 /\ UNCHANGED publishing
        ELSE publishing' = "idle" /\ UNCHANGED <<visibility, nextPath>>
  /\ UNCHANGED <<visible, durable, path, manifest, serving, publicationFaults, heard>>

StartDaemon ==
  /\ ~serving /\ publishing = "idle"
  /\ publishing' = "starting" /\ nextPath' = 1
  /\ UNCHANGED <<visibility, visible, durable, path, manifest, serving, publicationFaults, heard>>

\* The operator starts the daemon without the configured paths it refused.
StartUnconfigured ==
  /\ ~serving /\ publishing = "idle" /\ nextPath <= Len(ConfiguredManifests)
  /\ serving' = TRUE
  /\ UNCHANGED <<visibility, visible, durable, publishing, path, manifest, nextPath, publicationFaults, heard>>

Started ==
  /\ publishing = "starting" /\ nextPath > Len(ConfiguredManifests)
  /\ publishing' = "idle" /\ serving' = TRUE
  /\ UNCHANGED <<visibility, visible, durable, path, manifest, nextPath, publicationFaults, heard>>

Down == publishing' = "idle" /\ path' = NoManifest /\ manifest' = NoManifest /\ nextPath' = 1 /\ serving' = FALSE

KillImport ==
  /\ serving \/ publishing = "starting"
  /\ publicationFaults < MaxPublicationFaults /\ publicationFaults' = publicationFaults + 1
  /\ Down
  /\ UNCHANGED <<visibility, visible, durable, heard>>

\* A rename that was not synchronized is kept or lost.
PublicationPowerLoss ==
  /\ publicationFaults < MaxPublicationFaults /\ publicationFaults' = publicationFaults + 1
  /\ \E kept \in SUBSET Path :
       visible' = [p \in Path |-> IF p \in kept THEN visible[p] ELSE durable[p]]
  /\ durable' = visible'
  /\ Down
  /\ UNCHANGED <<visibility, heard>>

PublicationNext ==
  \/ \E m \in SnapshotManifest, p \in Path : BeginSnapshot(m, p)
  \/ RenameManifest \/ SyncDirectory \/ FinishSnapshot \/ PublishFails \/ DeleteRepository
  \/ StartDaemon \/ Reconcile \/ Started \/ StartUnconfigured \/ KillImport \/ PublicationPowerLoss

PublicationSpec == PublicationInit /\ [][PublicationNext]_publicationVars

-----------------------------------------------------------------------------
\* What publish_snapshot_manifest announced as published stays so through
\* kills, power losses and later calls, until the repository is deleted, and so
\* does the manifest at its path, unless a caller gives the path to another
\* snapshot: nothing binds a path to a snapshot.
PublishedStays == \A a \in announced :
  /\ visibility[a.manifest.snapshot] = "Ready"
  /\ a.path \notin reused => visible[a.path] = a.manifest /\ durable[a.path] = a.manifest

\* A manifest that a deleted repository left behind makes no snapshot
\* Ready, or even Incomplete, before its publication begins again.
NotResurrected == \A x \in Snapshot : visibility[x] # NoManifest => x \in begun

\* A Ready snapshot is demoted by the deletion of its repository only, and no
\* publication replaces its manifest by another one of the same snapshot.
ReadyImmutable == [][
  /\ \A x \in Snapshot : visibility[x] = "Ready" =>
       visibility'[x] = "Ready" \/ visibility' = [y \in Snapshot |-> NoManifest]
  /\ \A p \in Path : visible[p] # NoManifest /\ visibility[visible[p].snapshot] = "Ready" =>
       visible'[p] \in {visible[p], durable[p]} \/ visible'[p].snapshot # visible[p].snapshot]_publicationVars

\* A Ready snapshot has its manifest at some path, also after a power loss.
ReadyDurable == \A x \in Snapshot : visibility[x] = "Ready" =>
  \E p \in Path : durable[p] # NoManifest /\ durable[p].snapshot = x

-----------------------------------------------------------------------------
(* PublishedStays is not inductive: a FinishSnapshot may only report what  *)
(* was synchronized, and a RenameManifest that touches a path somebody was *)
(* told of makes it a reused one.  InProgress says so of the steps of a    *)
(* publication.                                                            *)

\* The tables are functions on the snapshots and paths.
Functions ==
  /\ visibility \in [Snapshot -> {"Incomplete", "Ready", NoManifest}]
  /\ visible \in [Path -> SnapshotManifest \cup {NoManifest}]
  /\ durable \in [Path -> SnapshotManifest \cup {NoManifest}]
  /\ announced \subseteq [path : Path, manifest : SnapshotManifest]

\* The snapshot of a publication in progress is Incomplete, and from its
\* rename on its manifest is the one at the path, synchronized once written, and
\* the path is not that of an announced snapshot but a reused one.
InProgress ==
  /\ publishing \in {"begun", "renamed", "written"} =>
       path \in Path /\ manifest \in SnapshotManifest /\ visibility[manifest.snapshot] = "Incomplete"
  /\ publishing \in {"renamed", "written"} =>
       visible[path] = manifest /\ \A a \in announced : a.path = path => path \in reused
  /\ publishing = "written" => durable[path] = manifest

PublicationIInv == Functions /\ InProgress /\ PublishedStays /\ NotResurrected

\* A published snapshot stays published, with its manifest and unchanged, until it
\* is deleted, and the manifest of a deleted one brings nothing back.
SnapshotsKept == [](PublicationTypeOK /\ PublishedStays /\ NotResurrected) /\ ReadyImmutable
=============================================================================
