--------------------------- MODULE ColdCheckpoint ---------------------------
(***************************************************************************)
(* Checkpoints of a live cold tier.  Gated writers change a chunk and then *)
(* the catalog under a shared permit; other authoritative writers (pins,   *)
(* configuration) hold the caller's exclusion as well.  A checkpoint takes *)
(* the caller's exclusion and then the gate, stages a tree file by file,   *)
(* verifies it and renames it into place; the generic checkpoint verifies  *)
(* once more and writes its descriptor after the rename.  Any step can     *)
(* fail or be the last one before a kill or a power loss.                  *)
(***************************************************************************)
EXTENDS ColdTier

CONSTANTS Writer, Pinner,
          Kind,        \* the checkpoints that are taken: "native", "generic"
          MaxPins, MaxFailures

ASSUME NamesAssumption ==
  /\ Kind \subseteq {"native", "generic"}
  /\ Authority \cap ChunkFile = {}
  /\ Chunks \cap {"idle", "waiting", "pinning"} = {}
  /\ (Writer \cup Pinner) \cap {"checkpoint", None} = {} /\ None # "checkpoint"
  /\ MaxRecords \in Nat /\ MaxFailures \in Nat

VARIABLES
  tier,      \* the authoritative source tree
  permits,   \* the writers that hold the gate's shared side
  frozen,    \* is the gate's exclusive side held?
  external,  \* who holds the caller's exclusion
  wpc,       \* the operation each writer is in
  ck,        \* the checkpoint call
  backup,    \* the tree at the checkpoint's destination, or None
  settled,   \* has the backup's directory entry been synchronized?
  boundary,  \* ghost: the tier when the gate was frozen for the backup
  failures

wvars == <<tier, permits, external, wpc>>
bvars == <<backup, settled>>
vars == <<wvars, frozen, ck, bvars, boundary, failures>>

EmptyTree == [files |-> << >>, manifest |-> None, descriptor |-> None]
NoCheckpoint == [pc |-> "idle", kind |-> None, plan |-> None, paths |-> None,
                 digests |-> None, temp |-> EmptyTree, cut |-> None]

CkSteps == {"idle", "called", "quiesced", "frozen", "staging", "verified", "manifested", "described",
            "renamed", "synced", "checked"}

\* Every variable has its type.
TypeOK ==
  /\ DOMAIN tier = Entry /\ \A c \in Chunks : tier[FileOf[c]] \in ChunkContent
  /\ permits \subseteq Writer \cup Pinner /\ frozen \in BOOLEAN
  /\ external \in Pinner \cup {"checkpoint", None}
  /\ ck.pc \in CkSteps
  /\ backup # None => DOMAIN backup.files \subseteq Entry
  /\ settled \in BOOLEAN /\ failures \in 0 .. MaxFailures

Init ==
  /\ tier = [e \in Entry |->
               IF e = "catalog"
                 THEN [generation |-> 1, indexed |-> [c \in Chunks |-> 0], sealed |-> {}, pins |-> 0]
               ELSE IF e = "pins" THEN [pins |-> 0]
               ELSE [chunk |-> CHOOSE c \in Chunks : FileOf[c] = e, records |-> 0, class |-> "open"]]
  /\ permits = {} /\ frozen = FALSE /\ external = None
  /\ wpc = [w \in Writer \cup Pinner |-> "idle"]
  /\ ck = NoCheckpoint /\ backup = None /\ settled = FALSE
  /\ boundary = None /\ failures = 0

-----------------------------------------------------------------------------
(* Writers.                                                                *)

\* ColdStoreWriterGate::acquire_writer.
CanAcquireWriter == ~frozen

\* GatedChunkWriter::append_and_index: the record is written and synchronized.
AppendRecord(w, c) ==
  /\ wpc[w] = "idle" /\ CanAcquireWriter
  /\ tier[FileOf[c]].class = "open" /\ tier[FileOf[c]].records < MaxRecords
  /\ tier' = [tier EXCEPT ![FileOf[c]].records = @ + 1]
  /\ permits' = permits \cup {w}
  /\ wpc' = [wpc EXCEPT ![w] = c]
  /\ UNCHANGED <<external, frozen, ck, bvars, boundary, failures>>

\* GatedChunkWriter::seal_and_publish: footer, synchronization and rename.
SealChunk(w, c) ==
  /\ wpc[w] = "idle" /\ CanAcquireWriter
  /\ tier[FileOf[c]].class = "open" /\ tier[FileOf[c]].records > 0
  /\ tier' = [tier EXCEPT ![FileOf[c]].class = "sealed"]
  /\ permits' = permits \cup {w}
  /\ wpc' = [wpc EXCEPT ![w] = c]
  /\ UNCHANGED <<external, frozen, ck, bvars, boundary, failures>>

\* The catalog batch that ends either operation, and the dropped permit.
PublishChunk(w) ==
  /\ wpc[w] \in Chunks
  /\ LET c == wpc[w]  content == tier[FileOf[c]] IN
       tier' = [tier EXCEPT !["catalog"].indexed[c] = content.records,
                            !["catalog"].sealed = IF content.class = "sealed" THEN @ \cup {c} ELSE @]
  /\ permits' = permits \ {w}
  /\ wpc' = [wpc EXCEPT ![w] = "idle"]
  /\ UNCHANGED <<external, frozen, ck, bvars, boundary, failures>>

\* An error leaves the file ahead of the catalog and drops the permit.
PublishChunkFails(w) ==
  /\ wpc[w] \in Chunks /\ failures < MaxFailures
  /\ permits' = permits \ {w}
  /\ wpc' = [wpc EXCEPT ![w] = "idle"]
  /\ failures' = failures + 1
  /\ UNCHANGED <<tier, external, frozen, ck, bvars, boundary>>

\* A publisher of pins: the caller's exclusion, a permit, the catalog, the manifest.
PinBegin(w) ==
  /\ wpc[w] = "idle" /\ external = None /\ tier["pins"].pins < MaxPins
  /\ external' = w /\ wpc' = [wpc EXCEPT ![w] = "waiting"]
  /\ UNCHANGED <<tier, permits, frozen, ck, bvars, boundary, failures>>

PinCatalog(w) ==
  /\ wpc[w] = "waiting" /\ CanAcquireWriter
  /\ tier' = [tier EXCEPT !["catalog"].pins = @ + 1]
  /\ permits' = permits \cup {w} /\ wpc' = [wpc EXCEPT ![w] = "pinning"]
  /\ UNCHANGED <<external, frozen, ck, bvars, boundary, failures>>

PinManifest(w) ==
  /\ wpc[w] = "pinning"
  /\ tier' = [tier EXCEPT !["pins"].pins = tier["catalog"].pins]
  /\ permits' = permits \ {w} /\ external' = None /\ wpc' = [wpc EXCEPT ![w] = "idle"]
  /\ UNCHANGED <<frozen, ck, bvars, boundary, failures>>

-----------------------------------------------------------------------------
(* Taking a checkpoint.  Everything the caller passes (the plan, the paths *)
(* and, for the generic checkpoint, the digests) was read earlier.         *)

\* The chunk whose file the caller names for each chunk: its own, or not.
Owner == {[c \in Chunks |-> c]} \cup {f \in [Chunks -> Chunks] : \A c \in Chunks : f[c] # c}

\* What a caller asks for: the tier as it is, or with one thing wrong.
Request ==
  {[schema |-> CatalogVersion, generation |-> 1, owner |-> f] : f \in Owner}
    \cup {[schema |-> CatalogVersion + 1, generation |-> 1, owner |-> [c \in Chunks |-> c]],
          [schema |-> CatalogVersion, generation |-> 2, owner |-> [c \in Chunks |-> c]]}

Call(kind, q) ==
  /\ ck.pc = "idle"
  /\ ck' = [NoCheckpoint EXCEPT
              !.pc = "called", !.kind = kind,
              !.plan = PlanOf(tier, q.schema, q.generation),
              !.paths = [c \in Chunks |-> PathTo(tier, FileOf[q.owner[c]])],
              !.digests = Digests(tier)]
  /\ UNCHANGED <<wvars, frozen, bvars, boundary, failures>>

\* Fault: the gate is frozen before the caller's writers are quiesced.
QuiesceAfterFreeze ==
  /\ \/ /\ ck.pc = "called" /\ ~frozen /\ permits = {}
        /\ frozen' = TRUE /\ UNCHANGED <<external, ck>>
     \/ /\ ck.pc = "called" /\ frozen /\ external = None
        /\ external' = "checkpoint" /\ ck' = [ck EXCEPT !.pc = "quiesced"] /\ UNCHANGED frozen
  /\ UNCHANGED <<tier, permits, wpc, bvars, boundary, failures>>

\* external_writers.quiesce_and_sync, and checked_cold_tier_source.
Quiesce ==
  /\ ck.pc = "called" /\ external = None
  /\ external' = "checkpoint" /\ ck' = [ck EXCEPT !.pc = "quiesced"]
  /\ UNCHANGED <<tier, permits, wpc, frozen, bvars, boundary, failures>>

\* Fault: writers that are in flight are not waited for.
FreezeAtOnce ==
  /\ ck.pc = "quiesced"
  /\ frozen' = TRUE /\ ck' = [ck EXCEPT !.pc = "frozen", !.cut = tier]
  /\ UNCHANGED <<wvars, bvars, boundary, failures>>

\* ColdStoreWriterGate::freeze_for_checkpoint.
Freeze ==
  /\ ck.pc = "quiesced" /\ permits = {}
  /\ frozen' = TRUE /\ ck' = [ck EXCEPT !.pc = "frozen", !.cut = tier]
  /\ UNCHANGED <<wvars, bvars, boundary, failures>>

\* The checks of checkpoint_cold_tier_rocksdb before anything is created.
NativeAdmitted ==
  /\ ck.plan.schema = CatalogVersion
  /\ tier["catalog"].generation = ck.plan.generation
  /\ ValidDescriptor(ck.plan) /\ ValidLayout(ck.plan, ck.paths)
  /\ backup = None

\* The checks of checkpoint_cold_tier and checkpoint.
GenericAdmitted ==
  /\ ValidDescriptor(ck.plan) /\ ValidLayout(ck.plan, ck.paths)
  /\ VerifyAuthority(tier, ck.digests)
  /\ VerifyChunks(tier, ck.plan, ck.paths, None)
  /\ backup = None

Admitted == IF ck.kind = "native" THEN NativeAdmitted ELSE GenericAdmitted

CreateTemporary ==
  /\ ck.pc = "frozen" /\ Admitted
  /\ ck' = [ck EXCEPT !.pc = "staging"]
  /\ UNCHANGED <<wvars, frozen, bvars, boundary, failures>>

Put(files, e, content) == [x \in DOMAIN files \cup {e} |-> IF x = e THEN content ELSE files[x]]

\* copy_tree, and copy_tree_except for the native checkpoint: one file, in the
\* order of the directory.
CopyFile(e) ==
  /\ ck.pc = "staging" /\ e \notin DOMAIN ck.temp.files
  /\ ck.kind = "native" => e # "catalog"
  /\ ck' = [ck EXCEPT !.temp.files = Put(@, e, tier[e])]
  /\ UNCHANGED <<wvars, frozen, bvars, boundary, failures>>

\* RocksDbCatalog::create_checkpoint and its validation.
CheckpointCatalog ==
  /\ ck.pc = "staging" /\ ck.kind = "native" /\ DOMAIN ck.temp.files = Entry \ {"catalog"}
  /\ LET files == Put(ck.temp.files, "catalog", tier["catalog"]) IN
       /\ ValidCatalog(files, ck.plan.generation)
       /\ ck' = [ck EXCEPT !.temp.files = files]
  /\ UNCHANGED <<wvars, frozen, bvars, boundary, failures>>

\* Fault: the staged chunks are not compared with the plan.
VerifyStagedAuthority ==
  /\ ck.pc = "staging" /\ DOMAIN ck.temp.files = Entry
  /\ ck' = [ck EXCEPT !.pc = "verified",
              !.digests = IF ck.kind = "native" THEN Digests(ck.temp.files) ELSE @]
  /\ UNCHANGED <<wvars, frozen, bvars, boundary, failures>>

\* The descriptor takes its digests from the staged files; then the chunks.
VerifyStaged ==
  /\ ck.pc = "staging" /\ DOMAIN ck.temp.files = Entry
  /\ ck.kind = "native" => VerifyChunks(ck.temp.files, ck.plan, ck.paths, None)
  /\ ck' = [ck EXCEPT !.pc = "verified",
              !.digests = IF ck.kind = "native" THEN Digests(ck.temp.files) ELSE @]
  /\ UNCHANGED <<wvars, frozen, bvars, boundary, failures>>

\* inventory_tree, write_manifest and verify_tree.
WriteManifest ==
  /\ ck.pc = "verified"
  /\ ck' = [ck EXCEPT !.pc = "manifested", !.temp.manifest = ck.temp.files]
  /\ UNCHANGED <<wvars, frozen, bvars, boundary, failures>>

Descriptor == [plan |-> ck.plan, digests |-> ck.digests]

\* The descriptor joins the staged tree, which is synchronized.
DescribeStaged ==
  /\ ck.pc = "manifested" /\ ck.kind = "native"
  /\ ck' = [ck EXCEPT !.pc = "described", !.temp.descriptor = Descriptor]
  /\ UNCHANGED <<wvars, frozen, bvars, boundary, failures>>

\* The rename.  A directory that has files is never replaced by one.
Publish ==
  /\ ck.pc = (IF ck.kind = "native" THEN "described" ELSE "manifested") /\ backup = None
  /\ backup' = ck.temp /\ settled' = FALSE /\ boundary' = ck.cut
  /\ ck' = [ck EXCEPT !.pc = "renamed", !.temp = EmptyTree]
  /\ UNCHANGED <<wvars, frozen, failures>>

SyncParent ==
  /\ ck.pc = "renamed"
  /\ settled' = TRUE
  /\ ck' = IF ck.kind = "native" THEN NoCheckpoint ELSE [ck EXCEPT !.pc = "synced"]
  /\ frozen' = (ck.kind = "generic")
  /\ external' = IF ck.kind = "native" THEN None ELSE external
  /\ UNCHANGED <<tier, permits, wpc, backup, boundary, failures>>

\* checkpoint_cold_tier compares the published tree once more ...
VerifyPublished ==
  /\ ck.pc = "synced"
  /\ VerifyAuthority(backup.files, ck.digests)
  /\ VerifyChunks(backup.files, ck.plan, ck.paths, backup.manifest)
  /\ ck' = [ck EXCEPT !.pc = "checked"]
  /\ UNCHANGED <<wvars, frozen, bvars, boundary, failures>>

\* ... and adds the descriptor to it.
DescribePublished ==
  /\ ck.pc = "checked"
  /\ backup' = [backup EXCEPT !.descriptor = Descriptor]
  /\ ck' = NoCheckpoint /\ frozen' = FALSE /\ external' = None
  /\ UNCHANGED <<tier, permits, wpc, settled, boundary, failures>>

\* A descriptor that is being added to a published backup may be cut short.
Torn == IF ck.pc = "checked" THEN {backup, [backup EXCEPT !.descriptor = Damaged]} ELSE {backup}

\* Does the check that comes next fail?
Refused ==
  \/ ck.pc = "frozen" /\ ~Admitted
  \/ ck.pc = "staging" /\ DOMAIN ck.temp.files = Entry /\ ck.kind = "native"
       /\ ~VerifyChunks(ck.temp.files, ck.plan, ck.paths, None)
  \/ ck.pc = "synced" /\ ~(/\ VerifyAuthority(backup.files, ck.digests)
                           /\ VerifyChunks(backup.files, ck.plan, ck.paths, backup.manifest))

\* A check or an I/O step fails: the temporary tree is removed and the caller
\* gets the error and lets the writers go on.
CheckpointFails ==
  /\ ck.pc # "idle"
  /\ \/ Refused /\ UNCHANGED failures
     \/ ~Refused /\ failures < MaxFailures /\ failures' = failures + 1
  /\ ck' = NoCheckpoint /\ frozen' = FALSE
  /\ external' = IF external = "checkpoint" THEN None ELSE external
  /\ backup' \in Torn
  /\ UNCHANGED <<tier, permits, wpc, settled, boundary>>

-----------------------------------------------------------------------------
(* Faults.                                                                 *)

\* The process ends: temporary trees stay behind under names nobody reads.
Kill ==
  /\ failures < MaxFailures /\ failures' = failures + 1
  /\ permits' = {} /\ frozen' = FALSE /\ external' = None
  /\ wpc' = [w \in Writer \cup Pinner |-> "idle"]
  /\ ck' = NoCheckpoint
  /\ backup' \in Torn
  /\ UNCHANGED <<tier, settled, boundary>>

\* The power fails: a rename that was not synchronized may be undone.
PowerLoss ==
  /\ failures < MaxFailures /\ failures' = failures + 1
  /\ permits' = {} /\ frozen' = FALSE /\ external' = None
  /\ wpc' = [w \in Writer \cup Pinner |-> "idle"]
  /\ ck' = NoCheckpoint
  /\ backup' \in Torn \cup (IF settled THEN {} ELSE {None})
  /\ settled' = (backup' # None)
  /\ UNCHANGED <<tier, boundary>>

Next ==
  \/ \E w \in Writer : \/ \E c \in Chunks : AppendRecord(w, c) \/ SealChunk(w, c)
                       \/ PublishChunk(w) \/ PublishChunkFails(w)
  \/ \E w \in Pinner : PinBegin(w) \/ PinCatalog(w) \/ PinManifest(w)
  \/ \E kind \in Kind, q \in Request : Call(kind, q)
  \/ Quiesce \/ Freeze \/ CreateTemporary
  \/ \E e \in Entry : CopyFile(e)
  \/ CheckpointCatalog \/ VerifyStaged \/ WriteManifest \/ DescribeStaged \/ Publish
  \/ SyncParent \/ VerifyPublished \/ DescribePublished \/ CheckpointFails
  \/ Kill \/ PowerLoss

Spec == Init /\ [][Next]_vars

-----------------------------------------------------------------------------
\* A visible checkpoint holds every file as it was at one moment, the freeze:
\* no writer's half-done operation and no mixture of two moments
\* (ColdStoreCheckpointGuard, CheckpointGuard).
OneBoundary ==
  backup # None => /\ DOMAIN backup.files = Entry
                   /\ \A e \in Entry : backup.files[e] = boundary[e]

\* A descriptor that can be read tells the truth about the files beside it,
\* although the caller made the plan before the writers were frozen
\* (verify_cold_descriptor_chunks, verify_cold_descriptor_authority).
DescriptorDescribes ==
  backup # None /\ backup.descriptor \notin {None, Damaged} =>
    LET d == backup.descriptor IN
      /\ \A c \in Chunks : LET content == boundary[FileOf[c]] IN
           d.plan.prefix[c] = Size(content) /\ d.plan.class[c] = content.class
      /\ \A a \in Authority : d.digests[a] = boundary[a]

\* A checkpoint that holds the gate never waits for an exclusion whose holder
\* waits for the gate (ProductionDaemonService::checkpoint_cold_tier).
NoCircularWait ==
  \A w \in Pinner : ~(external = w /\ wpc[w] = "waiting" /\ frozen)

\* A checkpoint holds the state of one moment, its descriptor describes what was
\* copied, and writers and checkpoint never wait for each other.
CheckpointConsistent == TypeOK /\ OneBoundary /\ DescriptorDescribes /\ NoCircularWait

\* A plan and digests that state the frozen tier exactly, with the file of every
\* chunk, are accepted.
ExactPlanAccepted ==
  /\ ck.pc \in {"frozen", "staging", "synced"} /\ backup = None
  /\ ck.plan = PlanOf(ck.cut, CatalogVersion, 1)
  /\ ck.paths = [c \in Chunks |-> PathTo(ck.cut, FileOf[c])]
  /\ ck.digests = Digests(ck.cut)
  => ~Refused

-----------------------------------------------------------------------------
(* What the safety properties rest on.                                     *)

Frozen == {"frozen", "staging", "verified", "manifested", "described", "renamed", "synced", "checked"}
Admitting == Frozen \ {"frozen"}
Staged == {"verified", "manifested", "described"}
Published == {"renamed", "synced", "checked"}

\* Who holds what: the gate is frozen, and the caller's exclusion held, during a
\* checkpoint's steps, a writer between its two halves has a permit, and nobody has
\* one while the gate is frozen.
GateInv ==
  /\ (frozen <=> ck.pc \in Frozen)
  /\ (external = "checkpoint" <=> ck.pc \notin {"idle", "called"})
  /\ frozen => permits = {}
  /\ wpc \in [Writer \cup Pinner -> Chunks \cup {"idle", "waiting", "pinning"}]
  /\ \A w \in Writer \cup Pinner :
       /\ wpc[w] \in Chunks \cup {"pinning"} => w \in permits
       /\ wpc[w] \in {"waiting", "pinning"} => external = w

\* The file of a chunk holds that chunk.
TierInv == \A c \in Chunks : tier[FileOf[c]].chunk = c

\* The fields of the call and of the backup.
ShapeInv ==
  /\ ck = [pc |-> ck.pc, kind |-> ck.kind, plan |-> ck.plan, paths |-> ck.paths,
           digests |-> ck.digests, temp |-> ck.temp, cut |-> ck.cut]
  /\ ck.temp = [files |-> ck.temp.files, manifest |-> ck.temp.manifest, descriptor |-> ck.temp.descriptor]
  /\ backup # None \/ ck.pc \in Published =>
       backup = [files |-> backup.files, manifest |-> backup.manifest, descriptor |-> backup.descriptor]
  /\ ck.pc # "idle" => ck.kind \in {"native", "generic"}

\* What a tree holds of the moment of the freeze.
Holds(tree, entries, moment) == DOMAIN tree = entries /\ \A e \in entries : tree[e] = moment[e]

\* A plan and digests that are true of a moment.
TrueOf(plan, digests, moment) ==
  /\ \A c \in Chunks : /\ plan.prefix[c] = Size(moment[FileOf[c]])
                        /\ plan.class[c] = moment[FileOf[c]].class
  /\ \A a \in Authority : digests[a] = moment[a]

\* What a checkpoint knows at each of its steps.
CkInv ==
  /\ ck.pc \in Frozen => ck.cut = tier
  /\ ck.pc # "idle" => \A c \in Chunks : \E d \in Chunks : ck.paths[c].file = FileOf[d]
  /\ ck.pc \in Admitting => \A c \in Chunks : ck.paths[c].suffix = ck.plan.class[c]
  /\ \E entries \in SUBSET Entry : Holds(ck.temp.files, entries, ck.cut)
  /\ ck.pc \notin Frozen => DOMAIN ck.temp.files = {}
  /\ ck.pc \in Staged => DOMAIN ck.temp.files = Entry
  /\ ck.kind = "native" /\ ck.pc \in Staged => TrueOf(ck.plan, ck.digests, ck.cut)
  /\ ck.temp.descriptor = IF ck.pc = "described" THEN Descriptor ELSE None
  /\ ck.pc = "described" => ck.kind = "native"
  /\ ck.pc \in Published => Holds(backup.files, Entry, boundary) /\ boundary = ck.cut
  /\ ck.pc = "checked" => TrueOf(ck.plan, ck.digests, boundary)

\* Every step preserves this.
IInv == TypeOK /\ GateInv /\ TierInv /\ ShapeInv /\ CkInv /\ OneBoundary /\ DescriptorDescribes
=============================================================================
