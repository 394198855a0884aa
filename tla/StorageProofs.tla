--------------------------- MODULE StorageProofs ---------------------------
(***************************************************************************)
(* Proofs about storage: a checkpoint of the cold tier is one state of the *)
(* tier, the publication of snapshots survives crashes, and a restore      *)
(* makes what a checkpoint took.                                           *)
(***************************************************************************)
EXTENDS ColdCheckpoint, ColdRestore, SnapshotPublication, FiniteSetTheorems, TLAPS

-----------------------------------------------------------------------------
(* Checkpoints, for any chunks, pins, writers and faults.                  *)

\* The file of a chunk is an entry of the tier and none of the authorities, and it
\* belongs to that chunk alone.
LEMMA ChunkFiles ==
  /\ \A c \in Chunks : FileOf[c] \in Entry /\ FileOf[c] \notin Authority
  /\ \A c, d \in Chunks : FileOf[c] = FileOf[d] => c = d
  /\ "catalog" \in Entry /\ "pins" \in Entry
<1>1. FileOf \in [Chunks -> ChunkFile] /\ \A c, d \in Chunks : FileOf[c] = FileOf[d] => c = d
  BY FileOfAssumption DEF IsInjective
<1> QED
  BY ZenonT(60), <1>1, NamesAssumption DEF Entry, Authority

\* What a writer's step does to the tier: a chunk file keeps its chunk, and nothing
\* changes while the gate is frozen.
LEMMA WriterTier ==
  ASSUME TypeOK, GateInv, TierInv,
         NEW w, \/ w \in Writer /\ \/ \E c \in Chunks : AppendRecord(w, c) \/ SealChunk(w, c)
                                   \/ PublishChunk(w) \/ PublishChunkFails(w)
                \/ w \in Pinner /\ (PinBegin(w) \/ PinCatalog(w) \/ PinManifest(w))
  PROVE  /\ DOMAIN tier' = Entry /\ \A c \in Chunks : tier'[FileOf[c]] \in ChunkContent
         /\ TierInv' /\ (frozen => tier' = tier)
<1> DEFINE Good == /\ DOMAIN tier' = Entry /\ \A c \in Chunks : tier'[FileOf[c]] \in ChunkContent
                   /\ TierInv' /\ (frozen => tier' = tier)
<1>1. DOMAIN tier = Entry /\ \A c \in Chunks : tier[FileOf[c]] \in ChunkContent /\ tier[FileOf[c]].chunk = c
  BY Zenon DEF TypeOK, TierInv
<1>2. ASSUME NEW c \in Chunks, AppendRecord(w, c) PROVE Good
  <2>1. tier' = [tier EXCEPT ![FileOf[c]] = [tier[FileOf[c]] EXCEPT !.records = @ + 1]]
    BY ZenonT(60), <1>2 DEF AppendRecord
  <2>2. DOMAIN tier' = Entry /\ \A d \in Chunks \ {c} : tier'[FileOf[d]] = tier[FileOf[d]]
    BY ZenonT(60), <1>1, <2>1, ChunkFiles
  <2>3. tier'[FileOf[c]] = [tier[FileOf[c]] EXCEPT !.records = @ + 1]
    BY ZenonT(60), <1>1, <2>1, ChunkFiles
  <2>4. tier'[FileOf[c]] \in ChunkContent /\ tier'[FileOf[c]].chunk = c
    BY SMTT(60), <1>1, <1>2, <2>3, NamesAssumption DEF AppendRecord, ChunkContent
  <2>5. ~frozen
    BY ZenonT(60), <1>2 DEF AppendRecord, CanAcquireWriter
  <2> QED
    BY ZenonT(60), <1>1, <2>2, <2>4, <2>5 DEF TierInv
<1>3. ASSUME NEW c \in Chunks, SealChunk(w, c) PROVE Good
  <2>1. tier' = [tier EXCEPT ![FileOf[c]] = [tier[FileOf[c]] EXCEPT !.class = "sealed"]]
    BY ZenonT(60), <1>3 DEF SealChunk
  <2>2. DOMAIN tier' = Entry /\ \A d \in Chunks \ {c} : tier'[FileOf[d]] = tier[FileOf[d]]
    BY ZenonT(60), <1>1, <2>1, ChunkFiles
  <2>3. tier'[FileOf[c]] = [tier[FileOf[c]] EXCEPT !.class = "sealed"]
    BY ZenonT(60), <1>1, <2>1, ChunkFiles
  <2>4. tier'[FileOf[c]] \in ChunkContent /\ tier'[FileOf[c]].chunk = c
    BY ZenonT(60), <1>1, <1>3, <2>3 DEF ChunkContent, Classes
  <2>5. ~frozen
    BY ZenonT(60), <1>3 DEF SealChunk, CanAcquireWriter
  <2> QED
    BY Zenon, <1>1, <2>2, <2>4, <2>5 DEF TierInv
<1>4. ASSUME NEW x, tier' = [tier EXCEPT !["catalog"] = x] \/ tier' = [tier EXCEPT !["pins"] = x], ~frozen
      PROVE  Good
  <2>1. DOMAIN tier' = Entry /\ \A c \in Chunks : tier'[FileOf[c]] = tier[FileOf[c]]
    BY ZenonT(60), <1>1, <1>4, ChunkFiles DEF Authority
  <2> QED
    BY ZenonT(60), <1>1, <1>4, <2>1 DEF TierInv
<1>5. ASSUME tier' = tier PROVE Good
  BY ZenonT(60), <1>1, <1>5 DEF TierInv
<1>6. ASSUME w \in Writer, PublishChunk(w) PROVE Good
  <2>1. ~frozen
    BY <1>6 DEF PublishChunk, GateInv
  <2> QED
    BY ZenonT(60), <1>4, <1>6, <2>1 DEF PublishChunk
<1>7. ASSUME w \in Pinner, PinCatalog(w) \/ PinManifest(w) PROVE Good
  <2>1. ~frozen
    BY ZenonT(60), <1>7 DEF PinCatalog, PinManifest, GateInv, CanAcquireWriter
  <2> QED
    BY Zenon, <1>4, <1>7, <2>1 DEF PinCatalog, PinManifest
<1> QED
  BY ZenonT(60), <1>2, <1>3, <1>5, <1>6, <1>7 DEF PublishChunkFails, PinBegin

\* A writer's step respects the gate.
LEMMA WriterGate ==
  ASSUME TypeOK, GateInv,
         NEW w, \/ w \in Writer /\ \/ \E c \in Chunks : AppendRecord(w, c) \/ SealChunk(w, c)
                                   \/ PublishChunk(w) \/ PublishChunkFails(w)
                \/ w \in Pinner /\ (PinBegin(w) \/ PinCatalog(w) \/ PinManifest(w))
  PROVE  /\ GateInv' /\ UNCHANGED <<ck, frozen, backup, settled, boundary>>
         /\ permits' \subseteq Writer \cup Pinner /\ external' \in Pinner \cup {"checkpoint", None}
         /\ failures' \in 0 .. MaxFailures
<1>1. UNCHANGED <<ck, frozen, backup, settled, boundary>> /\ w \in Writer \cup Pinner
  BY ZenonT(60) DEF AppendRecord, SealChunk, PublishChunk, PublishChunkFails, PinBegin,
       PinCatalog, PinManifest, bvars
<1>2. failures' \in 0 .. MaxFailures
  <2>1. UNCHANGED failures \/ (failures < MaxFailures /\ failures' = failures + 1)
    BY ZenonT(60) DEF AppendRecord, SealChunk, PublishChunk, PublishChunkFails, PinBegin,
         PinCatalog, PinManifest
  <2> QED
    BY SMTT(60), <2>1, NamesAssumption DEF TypeOK
<1>3. ASSUME ~frozen, NEW x \in Chunks \cup {"pinning"}, permits' = permits \cup {w}, wpc' = [wpc EXCEPT ![w] = x],
             UNCHANGED external, x = "pinning" => external = w
      PROVE  GateInv' /\ permits' \subseteq Writer \cup Pinner /\ external' \in Pinner \cup {"checkpoint", None}
  BY ZenonT(60), <1>1, <1>3, NamesAssumption DEF GateInv, TypeOK
<1>4. ASSUME permits' = permits \ {w}, wpc' = [wpc EXCEPT ![w] = "idle"],
             external' = external \/ (external = w /\ w \in Pinner /\ external' = None /\ wpc[w] = "pinning")
      PROVE  GateInv' /\ permits' \subseteq Writer \cup Pinner /\ external' \in Pinner \cup {"checkpoint", None}
  BY ZenonT(60), <1>1, <1>4, NamesAssumption DEF GateInv, TypeOK
<1>5. ASSUME w \in Pinner, PinBegin(w)
      PROVE  GateInv' /\ permits' \subseteq Writer \cup Pinner /\ external' \in Pinner \cup {"checkpoint", None}
  <2>1. /\ wpc[w] = "idle" /\ external = None /\ external' = w /\ wpc' = [wpc EXCEPT ![w] = "waiting"]
        /\ UNCHANGED <<permits, frozen, ck>>
    BY ZenonT(60), <1>5 DEF PinBegin
  <2>2. /\ wpc' \in [Writer \cup Pinner -> Chunks \cup {"idle", "waiting", "pinning"}]
        /\ wpc'[w] = "waiting" /\ \A v \in (Writer \cup Pinner) \ {w} : wpc'[v] = wpc[v]
    BY ZenonT(60), <1>1, <2>1 DEF GateInv
  <2>3. w # "checkpoint" /\ None # "checkpoint" /\ "waiting" \notin Chunks \cup {"pinning"} /\ w # None
    BY ZenonT(60), <1>5, NamesAssumption
  <2>4. \A v \in Writer \cup Pinner : wpc[v] \notin {"waiting", "pinning"}
    BY ZenonT(60), <2>1, NamesAssumption DEF GateInv
  <2>5. \A v \in Writer \cup Pinner :
          /\ wpc'[v] \in Chunks \cup {"pinning"} => v \in permits'
          /\ wpc'[v] \in {"waiting", "pinning"} => external' = v
    BY ZenonT(60), <2>1, <2>2, <2>3, <2>4 DEF GateInv
  <2>6. GateInv'
    BY ZenonT(60), <2>1, <2>2, <2>3, <2>5 DEF GateInv
  <2> QED
    BY ZenonT(60), <1>5, <2>1, <2>6 DEF TypeOK
<1>6. ASSUME w \in Pinner, PinCatalog(w) \/ PinManifest(w)
      PROVE  GateInv' /\ permits' \subseteq Writer \cup Pinner /\ external' \in Pinner \cup {"checkpoint", None}
  <2>1. external = w
    BY <1>6 DEF PinCatalog, PinManifest, GateInv
  <2> QED
    BY ZenonT(60), <1>3, <1>4, <1>6, <2>1 DEF PinCatalog, PinManifest, CanAcquireWriter
<1>7. ASSUME NEW c \in Chunks, AppendRecord(w, c) \/ SealChunk(w, c)
      PROVE  GateInv' /\ permits' \subseteq Writer \cup Pinner /\ external' \in Pinner \cup {"checkpoint", None}
  <2>1. c # "pinning"
    BY ZenonT(60), NamesAssumption
  <2> QED
    BY ZenonT(60), <1>3, <1>7, <2>1 DEF AppendRecord, SealChunk, CanAcquireWriter
<1>8. ASSUME PublishChunk(w) \/ PublishChunkFails(w)
      PROVE  GateInv' /\ permits' \subseteq Writer \cup Pinner /\ external' \in Pinner \cup {"checkpoint", None}
  BY ZenonT(60), <1>4, <1>8 DEF PublishChunk, PublishChunkFails
<1> QED
  BY ZenonT(60), <1>1, <1>2, <1>5, <1>6, <1>7, <1>8

-----------------------------------------------------------------------------
(* The steps of a checkpoint.                                              *)

\* A tree that holds some entries of a moment holds one more after Put.
LEMMA PutHolds ==
  ASSUME NEW files, NEW entries, NEW moment, Holds(files, entries, moment), NEW e
  PROVE  Holds(Put(files, e, moment[e]), entries \cup {e}, moment)
  BY DEF Holds, Put

\* The caller names a chunk's file for every chunk, with the suffix of its class, and
\* the plan has the sizes and the classes of the tier.
Located(paths) == \A c \in Chunks : \E d \in Chunks : paths[c].file = FileOf[d]
Suffixed(paths, plan) == \A c \in Chunks : paths[c].suffix = plan.class[c]
Describes(plan) ==
  \A c \in Chunks : plan.prefix[c] = Size(tier[FileOf[c]]) /\ plan.class[c] = tier[FileOf[c]].class

\* Chunks that verify are the ones the plan describes: a file that says it holds a
\* chunk is the file of that chunk.
LEMMA VerifiedTrue ==
  ASSUME TierInv, NEW tree, Holds(tree, Entry, tier), NEW plan, NEW paths, NEW listed,
         VerifyChunks(tree, plan, paths, listed), Located(paths), Suffixed(paths, plan)
  PROVE  Describes(plan)
<1> SUFFICES ASSUME NEW c \in Chunks
             PROVE  plan.prefix[c] = Size(tier[FileOf[c]]) /\ plan.class[c] = tier[FileOf[c]].class
  BY Zenon DEF Describes
<1>1. PICK d \in Chunks : paths[c].file = FileOf[d]
  BY ZenonT(60) DEF Located
<1>2. tree[FileOf[d]] = tier[FileOf[d]]
  BY ZenonT(60), ChunkFiles DEF Holds
<1>3. /\ tree[paths[c].file].chunk = c /\ Size(tree[paths[c].file]) = plan.prefix[c]
      /\ tree[paths[c].file].class = paths[c].suffix
  BY ZenonT(60) DEF VerifyChunks, VerifyColdChunkFile, FileAt
<1>4. d = c
  BY ZenonT(60), <1>1, <1>2, <1>3 DEF TierInv
<1> QED
  BY ZenonT(60), <1>1, <1>2, <1>3, <1>4 DEF Suffixed

\* What the steps between the freeze and the release leave alone.
Between ==
  /\ ck.pc \in Frozen /\ ck'.pc \in Frozen
  /\ UNCHANGED <<tier, permits, external, wpc, frozen, settled, failures>>
  /\ ck'.kind = ck.kind /\ ck'.plan = ck.plan /\ ck'.paths = ck.paths /\ ck'.cut = ck.cut

\* Such a step respects the gate and the tier.
LEMMA BetweenStep ==
  ASSUME IInv, Between
  PROVE  /\ GateInv' /\ TierInv' /\ ck'.cut = tier'
         /\ \A c \in Chunks : \E d \in Chunks : ck'.paths[c].file = FileOf[d]
         /\ (UNCHANGED <<backup, boundary>> => TypeOK' /\ OneBoundary' /\ DescriptorDescribes')
<1>1. GateInv'
  <2>1. /\ (frozen <=> ck'.pc \in Frozen) /\ (external = "checkpoint" <=> ck'.pc \notin {"idle", "called"})
    BY ZenonT(60) DEF IInv, GateInv, Between, Frozen
  <2> QED
    BY ZenonT(60), <2>1 DEF IInv, GateInv, Between
<1>2. TierInv' /\ ck'.cut = tier' /\ \A c \in Chunks : \E d \in Chunks : ck'.paths[c].file = FileOf[d]
  <2>1. ck.pc # "idle" /\ ck.pc \in Frozen /\ tier' = tier /\ ck'.cut = ck.cut /\ ck'.paths = ck.paths
    BY ZenonT(60) DEF Between, Frozen
  <2>2. ck.cut = tier /\ \A c \in Chunks : \E d \in Chunks : ck.paths[c].file = FileOf[d]
    BY ZenonT(60), <2>1 DEF IInv, CkInv
  <2>3. TierInv'
    BY ZenonT(60), <2>1 DEF IInv, TierInv
  <2> QED
    BY ZenonT(60), <2>1, <2>2, <2>3
<1>3. ASSUME UNCHANGED <<backup, boundary>> PROVE TypeOK' /\ OneBoundary' /\ DescriptorDescribes'
  <2>1. ck'.pc \in CkSteps
    BY ZenonT(60) DEF Between, Frozen, CkSteps
  <2>2. TypeOK'
    BY ZenonT(60), <1>3, <2>1 DEF IInv, TypeOK, Between
  <2> QED
    BY ZenonT(60), <1>3, <2>2 DEF IInv, OneBoundary, DescriptorDescribes
<1> QED
  BY ZenonT(60), <1>1, <1>2, <1>3

\* The plan, the paths and the digests were admitted before anything is created.
LEMMA CreateStep == IInv /\ CreateTemporary => IInv'
<1> SUFFICES ASSUME IInv, CreateTemporary PROVE IInv'
  BY ZenonT(60)
<1>1. /\ ck'.pc = "staging" /\ ck'.digests = ck.digests /\ ck'.temp = ck.temp
      /\ ck'.kind = ck.kind /\ ck'.plan = ck.plan /\ ck'.paths = ck.paths /\ ck'.cut = ck.cut
      /\ ck' = [pc |-> "staging", kind |-> ck.kind, plan |-> ck.plan, paths |-> ck.paths,
                digests |-> ck.digests, temp |-> ck.temp, cut |-> ck.cut]
  BY DEF IInv, ShapeInv, CreateTemporary
<1>2. ck.pc = "frozen" /\ UNCHANGED <<wvars, frozen, bvars, boundary, failures>>
  BY ZenonT(60) DEF CreateTemporary
<1>3. Between
  BY ZenonT(60), <1>1, <1>2 DEF Between, Frozen, wvars, bvars
<1>4. \A c \in Chunks : ck.paths[c].suffix = ck.plan.class[c]
  BY ZenonT(60) DEF CreateTemporary, Admitted, NativeAdmitted, GenericAdmitted, ValidLayout,
       HasClassification
<1>5. ShapeInv'
  BY ZenonT(60), <1>1, <1>2 DEF IInv, ShapeInv, bvars, Published
<1>6. /\ "staging" \notin Staged \cup Published /\ "staging" \in Frozen /\ "staging" # "described"
      /\ "staging" # "checked" /\ ck.temp.descriptor = None
  BY ZenonT(60), <1>2 DEF Staged, Published, Frozen, IInv, CkInv
<1>7. CkInv'
  BY ZenonT(60), <1>1, <1>2, <1>4, <1>6, BetweenStep, <1>3 DEF CkInv, IInv
<1> QED
  BY ZenonT(60), <1>2, <1>3, <1>5, <1>7, BetweenStep DEF IInv, bvars

\* A step that adds a file of the frozen tier to the staged tree.
LEMMA StageStep ==
  ASSUME IInv, NEW e \in Entry, ck.pc = "staging",
         ck' = [ck EXCEPT !.temp.files = Put(ck.temp.files, e, tier[e])],
         UNCHANGED <<wvars, frozen, bvars, boundary, failures>>
  PROVE  IInv'
<1>1. /\ ck'.pc = "staging" /\ ck'.digests = ck.digests
      /\ ck'.kind = ck.kind /\ ck'.plan = ck.plan /\ ck'.paths = ck.paths /\ ck'.cut = ck.cut
      /\ ck' = [pc |-> "staging", kind |-> ck.kind, plan |-> ck.plan, paths |-> ck.paths,
                digests |-> ck.digests, temp |-> ck'.temp, cut |-> ck.cut]
      /\ ck'.temp = [ck.temp EXCEPT !.files = Put(ck.temp.files, e, tier[e])]
  BY ZenonT(60) DEF IInv, ShapeInv
<1>2. /\ ck'.temp = [files |-> Put(ck.temp.files, e, tier[e]), manifest |-> ck.temp.manifest,
                     descriptor |-> ck.temp.descriptor]
      /\ ck'.temp.files = Put(ck.temp.files, e, tier[e]) /\ ck'.temp.descriptor = ck.temp.descriptor
      /\ ck'.temp.manifest = ck.temp.manifest
  BY ZenonT(60), <1>1 DEF IInv, ShapeInv
<1>3. Between
  BY ZenonT(60), <1>1 DEF Between, Frozen, wvars, bvars
<1>4. ShapeInv'
  BY ZenonT(60), <1>1, <1>2 DEF IInv, ShapeInv, bvars, Published
<1>5. "staging" \notin Staged \cup Published /\ "staging" \in Admitting /\ "staging" \in Frozen
  BY ZenonT(60) DEF Staged, Published, Admitting, Frozen
<1>6. ck.temp.descriptor = None /\ ck.cut = tier
  BY ZenonT(60), <1>5 DEF IInv, CkInv
<1>7. \E entries \in SUBSET Entry : Holds(ck'.temp.files, entries, ck'.cut)
  <2>1. PICK entries \in SUBSET Entry : Holds(ck.temp.files, entries, ck.cut)
    BY ZenonT(60) DEF IInv, CkInv
  <2>2. Holds(ck'.temp.files, entries \cup {e}, ck'.cut)
    BY ZenonT(60), <1>1, <1>2, <1>6, <2>1, PutHolds
  <2> QED
    BY ZenonT(60), <2>2
<1>8. CkInv'
  <2>1. \A c \in Chunks : ck.paths[c].suffix = ck.plan.class[c]
    BY ZenonT(60), <1>5 DEF IInv, CkInv
  <2>2. ck'.temp.descriptor = None /\ "staging" # "described" /\ "staging" # "checked"
    BY ZenonT(60), <1>2, <1>6
  <2>3. "staging" \notin Staged /\ "staging" \notin Published
    BY ZenonT(60), <1>5
  <2>4. ck'.cut = tier' /\ \A c \in Chunks : \E d \in Chunks : ck'.paths[c].file = FileOf[d]
    BY ZenonT(60), <1>3, BetweenStep
  <2>5. ck'.temp.descriptor = IF ck'.pc = "described" THEN Descriptor' ELSE None
    BY SMTT(60), <1>1, <2>2
  <2>6. /\ ck'.pc \in Staged => DOMAIN ck'.temp.files = Entry
        /\ ck'.kind = "native" /\ ck'.pc \in Staged => TrueOf(ck'.plan, ck'.digests, ck'.cut)
        /\ ck'.pc = "described" => ck'.kind = "native"
        /\ ck'.pc \in Published => Holds(backup'.files, Entry, boundary') /\ boundary' = ck'.cut
        /\ ck'.pc = "checked" => TrueOf(ck'.plan, ck'.digests, boundary')
    BY ZenonT(60), <1>1, <2>2, <2>3
  <2>7. \A c \in Chunks : ck'.paths[c].suffix = ck'.plan.class[c]
    BY ZenonT(60), <1>1, <2>1
  <2> QED
    BY ZenonT(60), <1>1, <1>5, <1>7, <2>4, <2>5, <2>6, <2>7 DEF CkInv
<1> QED
  BY ZenonT(60), <1>3, <1>4, <1>8, BetweenStep DEF IInv, bvars

\* A copied file joins the staged ones.
LEMMA CopyStep ==
  ASSUME IInv, NEW e \in Entry, CopyFile(e) \/ CheckpointCatalog PROVE IInv'
<1>1. CASE CopyFile(e)
  BY ZenonT(60), <1>1, StageStep DEF CopyFile
<1>2. CASE CheckpointCatalog
  BY Zenon, <1>2, StageStep, ChunkFiles DEF CheckpointCatalog
<1> QED
  BY <1>1, <1>2

\* A staged tree with every entry is the frozen tier.
LEMMA StagedWhole ==
  ASSUME IInv, ck.pc \in Frozen, DOMAIN ck.temp.files = Entry
  PROVE  Holds(ck.temp.files, Entry, tier) /\ ck.cut = tier
<1>1. PICK entries \in SUBSET Entry : Holds(ck.temp.files, entries, ck.cut)
  BY ZenonT(60) DEF IInv, CkInv
<1>2. entries = Entry
  BY ZenonT(60), <1>1 DEF Holds
<1> QED
  BY ZenonT(60), <1>1, <1>2 DEF IInv, CkInv

\* The steps from the staged tree to the rename.
LEMMA VerifyStep == IInv /\ (VerifyStaged \/ WriteManifest \/ DescribeStaged) => IInv'
<1> SUFFICES ASSUME IInv, VerifyStaged \/ WriteManifest \/ DescribeStaged PROVE IInv'
  BY ZenonT(60)
<1> DEFINE Fields == /\ ck'.kind = ck.kind /\ ck'.plan = ck.plan /\ ck'.paths = ck.paths /\ ck'.cut = ck.cut
                     /\ ck' = [pc |-> ck'.pc, kind |-> ck'.kind, plan |-> ck'.plan, paths |-> ck'.paths,
                               digests |-> ck'.digests, temp |-> ck'.temp, cut |-> ck'.cut]
                     /\ ck'.temp = [files |-> ck'.temp.files, manifest |-> ck'.temp.manifest,
                                    descriptor |-> ck'.temp.descriptor]
                     /\ ck'.temp.files = ck.temp.files
<1>1. ASSUME VerifyStaged
      PROVE  /\ Fields /\ ck.pc = "staging" /\ ck'.pc = "verified" /\ DOMAIN ck.temp.files = Entry
             /\ ck'.temp = ck.temp
             /\ ck'.digests = IF ck.kind = "native" THEN Digests(ck.temp.files) ELSE ck.digests
  BY Zenon, <1>1 DEF VerifyStaged, IInv, ShapeInv
<1>2. ASSUME WriteManifest
      PROVE  /\ Fields /\ ck.pc = "verified" /\ ck'.pc = "manifested" /\ ck'.digests = ck.digests
             /\ ck'.temp.descriptor = ck.temp.descriptor
  BY ZenonT(60), <1>2 DEF WriteManifest, IInv, ShapeInv
<1>3. ASSUME DescribeStaged
      PROVE  /\ Fields /\ ck.pc = "manifested" /\ ck'.pc = "described" /\ ck'.digests = ck.digests
             /\ ck.kind = "native" /\ ck'.temp.descriptor = Descriptor
  BY ZenonT(60), <1>3 DEF DescribeStaged, IInv, ShapeInv
<1>4. UNCHANGED <<wvars, frozen, bvars, boundary, failures>>
  BY Zenon DEF VerifyStaged, WriteManifest, DescribeStaged
<1>5. /\ Fields /\ ck.pc \in {"staging", "verified", "manifested"} /\ ck'.pc \in Staged
      /\ (ck.pc \in Staged \/ VerifyStaged)
  BY ZenonT(60), <1>1, <1>2, <1>3 DEF Staged
<1>6. Between
  BY ZenonT(60), <1>4, <1>5 DEF Between, Frozen, Staged, wvars, bvars
<1>7. DOMAIN ck.temp.files = Entry
  BY ZenonT(60), <1>1, <1>5 DEF IInv, CkInv
<1>8. Holds(ck.temp.files, Entry, tier) /\ ck.cut = tier /\ ck.pc \in Admitting /\ ck.pc \in Frozen
  <2>1. ck.pc \in Frozen /\ ck.pc \in Admitting
    BY ZenonT(60), <1>5 DEF Frozen, Admitting
  <2> QED
    BY ZenonT(60), <1>7, <2>1, StagedWhole
<1>9. ASSUME ck.kind = "native" PROVE TrueOf(ck'.plan, ck'.digests, ck'.cut)
  <2>1. ASSUME VerifyStaged PROVE TrueOf(ck.plan, ck'.digests, ck.cut)
    <3>1. VerifyChunks(ck.temp.files, ck.plan, ck.paths, None)
      BY Zenon, <1>9, <2>1 DEF VerifyStaged
    <3>2. Located(ck.paths) /\ Suffixed(ck.paths, ck.plan)
      <4>1. ck.pc # "idle"
        BY <1>5
      <4> QED
        BY ZenonT(60), <1>8, <4>1 DEF IInv, CkInv, Located, Suffixed
    <3>3. Describes(ck.plan)
      <4>1. TierInv /\ Holds(ck.temp.files, Entry, tier)
        BY ZenonT(60), <1>8 DEF IInv
      <4> QED
        BY ZenonT(60), <3>1, <3>2, <4>1, VerifiedTrue
    <3>4. \A a \in Authority : ck'.digests[a] = tier[a]
      BY ZenonT(60), <1>1, <1>8, <1>9, <2>1 DEF Digests, Holds, Entry
    <3> QED
      BY ZenonT(60), <1>8, <3>3, <3>4 DEF TrueOf, Describes
  <2>2. ASSUME ck.pc \in Staged, ck'.digests = ck.digests PROVE TrueOf(ck.plan, ck'.digests, ck.cut)
    BY ZenonT(60), <1>9, <2>2 DEF IInv, CkInv
  <2>3. VerifyStaged \/ (ck.pc \in Staged /\ ck'.digests = ck.digests)
    BY ZenonT(60), <1>2, <1>3, <1>5
  <2> QED
    BY ZenonT(60), <1>5, <2>1, <2>2, <2>3
<1>10. ck'.temp.descriptor = IF ck'.pc = "described" THEN Descriptor' ELSE None
  <2>1. CASE DescribeStaged
    <3>1. Descriptor' = Descriptor
      BY ZenonT(60), <1>3, <2>1 DEF Descriptor
    <3> QED
      BY ZenonT(60), <1>3, <2>1, <3>1
  <2>2. CASE ~DescribeStaged
    <3>1. ck'.pc # "described" /\ ck'.temp.descriptor = ck.temp.descriptor /\ ck.pc # "described"
      BY ZenonT(60), <1>1, <1>2, <2>2
    <3> QED
      BY <3>1 DEF IInv, CkInv
  <2> QED
    BY ZenonT(60), <2>1, <2>2
<1>11. CkInv'
  <2>1. ck'.cut = tier' /\ \A c \in Chunks : \E d \in Chunks : ck'.paths[c].file = FileOf[d]
    BY ZenonT(60), <1>6, BetweenStep
  <2>2. \A c \in Chunks : ck'.paths[c].suffix = ck'.plan.class[c]
    BY ZenonT(60), <1>5, <1>8 DEF IInv, CkInv
  <2>3. \E entries \in SUBSET Entry : Holds(ck'.temp.files, entries, ck'.cut)
    BY ZenonT(60), <1>5, <1>8
  <2>4. ck'.pc \notin Published /\ ck'.pc # "checked" /\ ck'.pc \in Frozen
    BY ZenonT(60), <1>5 DEF Staged, Published, Frozen
  <2>5. DOMAIN ck'.temp.files = Entry
    BY ZenonT(60), <1>5, <1>7
  <2>6. ck'.pc = "described" => ck'.kind = "native"
    BY <1>1, <1>2, <1>3
  <2>7. ck'.kind = "native" => TrueOf(ck'.plan, ck'.digests, ck'.cut)
    BY ZenonT(60), <1>5, <1>9
  <2> QED
    BY ZenonT(60), <1>10, <2>1, <2>2, <2>3, <2>4, <2>5, <2>6, <2>7 DEF CkInv
<1>12. ShapeInv'
  <2>1. ck'.pc \notin Published /\ ck.pc # "idle" /\ backup' = backup
    BY ZenonT(60), <1>4, <1>5 DEF Staged, Published, bvars
  <2> QED
    BY ZenonT(60), <1>5, <2>1 DEF IInv, ShapeInv
<1> QED
  BY ZenonT(60), <1>4, <1>6, <1>11, <1>12, BetweenStep DEF IInv, bvars

\* The rename makes the staged tree the backup.
LEMMA PublishStep == IInv /\ Publish => IInv'
<1> SUFFICES ASSUME IInv, Publish PROVE IInv'
  OBVIOUS
<1>1. /\ ck'.kind = ck.kind /\ ck'.plan = ck.plan /\ ck'.paths = ck.paths /\ ck'.cut = ck.cut
      /\ ck' = [pc |-> "renamed", kind |-> ck.kind, plan |-> ck.plan, paths |-> ck.paths,
                digests |-> ck.digests, temp |-> EmptyTree, cut |-> ck.cut]
      /\ ck'.temp = EmptyTree /\ ck'.pc = "renamed" /\ ck'.digests = ck.digests
  BY ZenonT(60) DEF Publish, IInv, ShapeInv
<1>2. /\ backup' = ck.temp /\ settled' = FALSE /\ boundary' = ck.cut /\ UNCHANGED <<wvars, frozen, failures>>
      /\ ck.pc = IF ck.kind = "native" THEN "described" ELSE "manifested"
  BY ZenonT(60) DEF Publish
<1>3. ck.pc \in Staged /\ ck.pc \in Frozen /\ ck'.pc \in Frozen /\ ck.pc \in Admitting /\ ck.pc # "idle"
  BY ZenonT(60), <1>1, <1>2 DEF Staged, Frozen, Admitting
<1>4. Holds(ck.temp.files, Entry, tier) /\ ck.cut = tier
  BY ZenonT(60), <1>3, StagedWhole DEF IInv, CkInv
<1>5. TierInv' /\ GateInv'
  <2>1. UNCHANGED <<tier, permits, external, wpc, frozen>>
    BY ZenonT(60), <1>2 DEF wvars
  <2>2. (frozen <=> ck'.pc \in Frozen) /\ (external = "checkpoint" <=> ck'.pc \notin {"idle", "called"})
    BY ZenonT(60), <1>1, <1>3 DEF IInv, GateInv, Frozen
  <2> QED
    BY ZenonT(60), <2>1, <2>2 DEF IInv, GateInv, TierInv
<1>6. TypeOK' /\ OneBoundary'
  <2>1. DOMAIN backup'.files = Entry /\ \A e \in Entry : backup'.files[e] = boundary'[e]
    BY Zenon, <1>2, <1>4 DEF Holds
  <2>2. ck'.pc \in CkSteps
    BY ZenonT(60), <1>1 DEF CkSteps
  <2>3. UNCHANGED <<tier, permits, external, wpc, frozen, failures>> /\ settled' \in BOOLEAN
    BY ZenonT(60), <1>2 DEF wvars
  <2> QED
    BY ZenonT(60), <2>1, <2>2, <2>3 DEF TypeOK, OneBoundary, IInv
<1>7. DescriptorDescribes'
  <2>1. CASE ck.kind = "native"
    <3>1. TrueOf(ck.plan, ck.digests, ck.cut) /\ ck.temp.descriptor = Descriptor
      BY ZenonT(60), <1>2, <1>3, <2>1 DEF IInv, CkInv
    <3>2. backup'.descriptor = [plan |-> ck.plan, digests |-> ck.digests]
      BY ZenonT(60), <1>2, <3>1 DEF Descriptor
    <3>3. backup'.descriptor.plan = ck.plan /\ backup'.descriptor.digests = ck.digests
      BY SMTT(60), <3>2
    <3> QED
      BY Zenon, <1>2, <3>1, <3>3 DEF DescriptorDescribes, TrueOf
  <2>2. CASE ck.kind # "native"
    <3>1. backup'.descriptor = None
      BY ZenonT(60), <1>2, <2>2 DEF IInv, CkInv
    <3> QED
      BY ZenonT(60), <3>1 DEF DescriptorDescribes
  <2> QED
    BY ZenonT(60), <2>1, <2>2
<1>8. ShapeInv'
  <2>1. EmptyTree = [files |-> EmptyTree.files, manifest |-> EmptyTree.manifest, descriptor |-> EmptyTree.descriptor]
    BY ZenonT(60) DEF EmptyTree
  <2>2. ck'.kind \in {"native", "generic"}
    BY ZenonT(60), <1>1, <1>3 DEF IInv, ShapeInv
  <2>3. ck.temp = [files |-> ck.temp.files, manifest |-> ck.temp.manifest, descriptor |-> ck.temp.descriptor]
    BY ZenonT(60) DEF IInv, ShapeInv
  <2> QED
    BY ZenonT(60), <1>1, <1>2, <2>1, <2>2, <2>3 DEF ShapeInv
<1>9. CkInv'
  <2>1. ck'.cut = tier' /\ boundary' = ck'.cut /\ Holds(backup'.files, Entry, boundary')
    BY ZenonT(60), <1>1, <1>2, <1>4 DEF wvars
  <2>2. /\ \A c \in Chunks : \E d \in Chunks : ck'.paths[c].file = FileOf[d]
        /\ \A c \in Chunks : ck'.paths[c].suffix = ck'.plan.class[c]
    BY Zenon, <1>1, <1>3 DEF IInv, CkInv
  <2>3. Holds(ck'.temp.files, {}, ck'.cut) /\ ck'.temp.descriptor = None
    BY SMTT(60), <1>1 DEF Holds, EmptyTree
  <2>4. \E entries \in SUBSET Entry : Holds(ck'.temp.files, entries, ck'.cut)
    BY ZenonT(60), <2>3
  <2>5. ck'.pc \notin Staged /\ ck'.pc # "described" /\ ck'.pc # "checked"
    BY ZenonT(60), <1>1 DEF Staged
  <2>6. ck'.temp.descriptor = IF ck'.pc = "described" THEN Descriptor' ELSE None
    BY ZenonT(60), <2>3, <2>5
  <2> QED
    BY ZenonT(60), <1>3, <2>1, <2>2, <2>4, <2>5, <2>6 DEF CkInv
<1> QED
  BY ZenonT(60), <1>5, <1>6, <1>7, <1>8, <1>9 DEF IInv

\* The end of a call, successful or not, and the end of the process: the gate and
\* the caller's exclusion are free, and the backup is as it was, has its descriptor,
\* or has a damaged one.
LEMMA ResetStep ==
  ASSUME IInv, ck' = NoCheckpoint, frozen' = FALSE, tier' = tier, boundary' = boundary,
         \/ backup' = None \/ backup' = backup
         \/ ck.pc = "checked" /\ \E d \in {Damaged, Descriptor} : backup' = [backup EXCEPT !.descriptor = d],
         settled' \in BOOLEAN, failures' \in 0 .. MaxFailures,
         \/ permits' = {} /\ external' = None /\ wpc' = [w \in Writer \cup Pinner |-> "idle"]
         \/ UNCHANGED <<permits, wpc>> /\ external' = IF external = "checkpoint" THEN None ELSE external
  PROVE  IInv'
<1>1. /\ ck'.pc = "idle" /\ ck'.temp = EmptyTree /\ ck'.kind = None
      /\ ck' = [pc |-> ck'.pc, kind |-> ck'.kind, plan |-> ck'.plan, paths |-> ck'.paths,
                digests |-> ck'.digests, temp |-> ck'.temp, cut |-> ck'.cut]
  BY ZenonT(60) DEF NoCheckpoint
<1>2. /\ EmptyTree = [files |-> EmptyTree.files, manifest |-> EmptyTree.manifest, descriptor |-> EmptyTree.descriptor]
      /\ DOMAIN EmptyTree.files = {} /\ EmptyTree.descriptor = None
  BY DEF EmptyTree
<1>3. GateInv' /\ permits' \subseteq Writer \cup Pinner /\ external' \in Pinner \cup {"checkpoint", None}
  <2>1. "idle" \notin Frozen /\ "idle" \notin Chunks /\ None # "checkpoint"
    BY ZenonT(60), NamesAssumption DEF Frozen
  <2>2. CASE permits' = {} /\ external' = None /\ wpc' = [w \in Writer \cup Pinner |-> "idle"]
    <3>1. /\ wpc' \in [Writer \cup Pinner -> Chunks \cup {"idle", "waiting", "pinning"}]
          /\ \A w \in Writer \cup Pinner : wpc'[w] = "idle"
      BY ZenonT(60), <2>2
    <3>2. (frozen' <=> ck'.pc \in Frozen) /\ (external' = "checkpoint" <=> ck'.pc \notin {"idle", "called"})
      <4>1. ck'.pc \notin Frozen /\ ck'.pc \in {"idle", "called"} /\ external' # "checkpoint"
        BY ZenonT(60), <1>1, <2>1, <2>2
      <4> QED
        BY ZenonT(60), <4>1
    <3>3. "idle" \notin Chunks \cup {"pinning"} /\ "idle" \notin {"waiting", "pinning"}
      BY ZenonT(60), <2>1
    <3>4. GateInv'
      BY ZenonT(60), <2>2, <3>1, <3>2, <3>3 DEF GateInv
    <3> QED
      BY ZenonT(60), <2>2, <3>4
  <2>3. CASE UNCHANGED <<permits, wpc>> /\ external' = IF external = "checkpoint" THEN None ELSE external
    <3>1. /\ external' # "checkpoint" /\ external' \in Pinner \cup {"checkpoint", None}
          /\ \A w \in Writer \cup Pinner : external = w => external' = w
      BY ZenonT(60), <2>3, NamesAssumption DEF IInv, TypeOK
    <3>2. GateInv'
      <4>1. (frozen' <=> ck'.pc \in Frozen) /\ (external' = "checkpoint" <=> ck'.pc \notin {"idle", "called"})
        <5>1. ck'.pc \notin Frozen /\ ck'.pc \in {"idle", "called"}
          BY <1>1, <2>1
        <5> QED
          BY ZenonT(60), <3>1, <5>1
      <4> QED
        BY ZenonT(60), <2>3, <3>1, <4>1 DEF IInv, GateInv
    <3> QED
      BY ZenonT(60), <2>3, <3>1, <3>2 DEF IInv, TypeOK
  <2> QED
    BY ZenonT(60), <2>2, <2>3
<1>4. ASSUME backup' # None
      PROVE  /\ backup' = [files |-> backup.files, manifest |-> backup.manifest, descriptor |-> backup'.descriptor]
             /\ backup'.files = backup.files /\ backup'.manifest = backup.manifest
             /\ backup' = backup \/ (ck.pc = "checked" /\ backup'.descriptor \in {Damaged, Descriptor})
  <2>1. CASE backup' = backup
    <3>1. backup = [files |-> backup.files, manifest |-> backup.manifest, descriptor |-> backup.descriptor]
      BY ZenonT(60), <1>4, <2>1 DEF IInv, ShapeInv
    <3> QED
      BY ZenonT(60), <2>1, <3>1
  <2>2. CASE ck.pc = "checked" /\ \E d \in {Damaged, Descriptor} : backup' = [backup EXCEPT !.descriptor = d]
    <3>1. PICK d \in {Damaged, Descriptor} : backup' = [backup EXCEPT !.descriptor = d]
      BY ZenonT(60), <2>2
    <3>2. backup = [files |-> backup.files, manifest |-> backup.manifest, descriptor |-> backup.descriptor]
      BY ZenonT(60), <2>2 DEF IInv, ShapeInv, Published
    <3>3. backup' = [files |-> backup.files, manifest |-> backup.manifest, descriptor |-> d]
      BY ZenonT(60), <3>1, <3>2
    <3>4. backup'.files = backup.files /\ backup'.manifest = backup.manifest /\ backup'.descriptor = d
      BY ZenonT(60), <3>3
    <3> QED
      BY ZenonT(60), <2>2, <3>3, <3>4
  <2> QED
    BY ZenonT(60), <1>4, <2>1, <2>2
<1>5. ASSUME backup' # None PROVE Holds(backup'.files, Entry, boundary)
  <2>1. CASE backup' = backup
    BY ZenonT(60), <1>5, <2>1 DEF IInv, OneBoundary, Holds
  <2>2. CASE ck.pc = "checked"
    BY ZenonT(60), <1>4, <1>5, <2>2 DEF IInv, CkInv, Published
  <2> QED
    BY ZenonT(60), <1>4, <1>5, <2>1, <2>2
<1>6. TypeOK'
  <2>1. backup' # None => DOMAIN backup'.files = Entry
    BY Zenon, <1>5 DEF Holds
  <2>2. ck'.pc \in CkSteps /\ frozen' \in BOOLEAN
    BY ZenonT(60), <1>1 DEF CkSteps
  <2> QED
    BY ZenonT(60), <1>3, <2>1, <2>2 DEF IInv, TypeOK
<1>7. OneBoundary'
  BY ZenonT(60), <1>5 DEF OneBoundary, Holds
<1>8. DescriptorDescribes'
  <2>1. CASE backup' = backup \/ backup' = None
    BY ZenonT(60), <2>1 DEF IInv, DescriptorDescribes
  <2>2. CASE backup' # None /\ ck.pc = "checked" /\ backup'.descriptor = Descriptor
    <3>1. TrueOf(ck.plan, ck.digests, boundary)
      BY ZenonT(60), <2>2 DEF IInv, CkInv
    <3>2. backup'.descriptor.plan = ck.plan /\ backup'.descriptor.digests = ck.digests
      BY SMTT(60), <2>2 DEF Descriptor
    <3> QED
      BY ZenonT(60), <3>1, <3>2 DEF DescriptorDescribes, TrueOf
  <2>3. CASE backup' # None /\ backup'.descriptor = Damaged
    BY ZenonT(60), <2>3 DEF DescriptorDescribes
  <2> QED
    BY ZenonT(60), <1>4, <2>1, <2>2, <2>3
<1>9. ShapeInv'
  <2>1. ck'.pc \notin Published
    BY ZenonT(60), <1>1 DEF Published
  <2>2. backup' # None => backup' = [files |-> backup'.files, manifest |-> backup'.manifest, descriptor |-> backup'.descriptor]
    BY ZenonT(60), <1>4
  <2> QED
    BY ZenonT(60), <1>1, <1>2, <2>1, <2>2 DEF ShapeInv
<1>10. CkInv'
  <2>1. ck'.pc \notin Frozen /\ ck'.pc \notin Admitting /\ ck'.pc \notin Staged /\ ck'.pc \notin Published
    BY ZenonT(60), <1>1 DEF Frozen, Admitting, Staged, Published
  <2>2. ck'.pc # "described" /\ ck'.pc # "checked"
    BY ZenonT(60), <1>1
  <2>3. Holds(ck'.temp.files, {}, ck'.cut)
    BY ZenonT(60), <1>1, <1>2 DEF Holds
  <2>4. \E entries \in SUBSET Entry : Holds(ck'.temp.files, entries, ck'.cut)
    BY <2>3
  <2>5. ck'.temp.descriptor = IF ck'.pc = "described" THEN Descriptor' ELSE None
    BY ZenonT(60), <1>1, <1>2, <2>2
  <2>6. DOMAIN ck'.temp.files = {}
    BY ZenonT(60), <1>1, <1>2
  <2> QED
    BY ZenonT(60), <1>1, <2>1, <2>2, <2>4, <2>5, <2>6 DEF CkInv
<1> QED
  BY ZenonT(60), <1>3, <1>6, <1>7, <1>8, <1>9, <1>10 DEF IInv, TierInv

\* The steps of the generic checkpoint after the rename.
LEMMA PublishedStep == IInv /\ (SyncParent \/ VerifyPublished) => IInv'
<1> SUFFICES ASSUME IInv, SyncParent \/ VerifyPublished PROVE IInv'
  OBVIOUS
<1>1. CASE SyncParent /\ ck.kind = "native"
  <2>1. /\ ck.pc = "renamed" /\ ck' = NoCheckpoint /\ settled' = TRUE /\ external' = None
        /\ UNCHANGED <<tier, permits, wpc, backup, boundary, failures>>
    BY ZenonT(60), <1>1 DEF SyncParent
  <2>2. frozen' = FALSE
    BY ZenonT(60), <1>1 DEF SyncParent
  <2>3. external = "checkpoint"
    BY ZenonT(60), <2>1 DEF IInv, GateInv
  <2>4. failures' \in 0 .. MaxFailures /\ settled' \in BOOLEAN
    BY ZenonT(60), <2>1 DEF IInv, TypeOK
  <2>5. external' = IF external = "checkpoint" THEN None ELSE external
    BY ZenonT(60), <2>1, <2>3
  <2> QED
    BY ZenonT(60), <2>1, <2>2, <2>4, <2>5, ResetStep
<1>2. ASSUME \/ SyncParent /\ ck.kind # "native"
             \/ VerifyPublished
      PROVE  IInv'
  <2>1. /\ ck.pc \in Published /\ ck'.pc \in {"synced", "checked"}
        /\ ck'.pc = "checked" => VerifyPublished
        /\ ck'.kind = ck.kind /\ ck'.plan = ck.plan /\ ck'.paths = ck.paths /\ ck'.cut = ck.cut
        /\ ck' = [pc |-> ck'.pc, kind |-> ck.kind, plan |-> ck.plan, paths |-> ck.paths,
                  digests |-> ck.digests, temp |-> ck.temp, cut |-> ck.cut]
        /\ ck'.temp = ck.temp /\ ck'.digests = ck.digests
    BY ZenonT(60), <1>2 DEF SyncParent, VerifyPublished, IInv, ShapeInv, Published
  <2>2. /\ UNCHANGED <<tier, permits, wpc, backup, boundary, failures, external>>
    BY ZenonT(60), <1>2 DEF SyncParent, VerifyPublished, wvars, bvars
  <2>3. frozen' = frozen /\ settled' \in BOOLEAN
    <3>1. ck.pc \in Frozen /\ ck.pc # "idle"
      BY ZenonT(60), <2>1 DEF Published, Frozen
    <3>2. frozen = TRUE /\ ck.kind \in {"native", "generic"}
      BY ZenonT(60), <3>1 DEF IInv, GateInv, ShapeInv
    <3>3. CASE SyncParent /\ ck.kind # "native"
      BY ZenonT(60), <3>2, <3>3 DEF SyncParent
    <3>4. CASE VerifyPublished
      BY ZenonT(60), <3>4 DEF VerifyPublished, bvars, IInv, TypeOK
    <3> QED
      BY ZenonT(60), <1>2, <3>3, <3>4
  <2>4. /\ ck'.pc \in Frozen /\ ck.pc \in Frozen /\ ck.pc # "idle" /\ ck.pc \in Admitting /\ ck'.pc \in Published
        /\ ck'.pc \notin Staged /\ ck'.pc # "described" /\ ck.pc # "described" /\ ck'.pc \in CkSteps
    BY ZenonT(60), <2>1 DEF Frozen, Published, Admitting, Staged, CkSteps
  <2>5. GateInv'
    <3>1. (frozen <=> ck'.pc \in Frozen) /\ (external = "checkpoint" <=> ck'.pc \notin {"idle", "called"})
      BY ZenonT(60), <2>1, <2>4 DEF IInv, GateInv, Frozen
    <3> QED
      BY ZenonT(60), <2>2, <2>3, <3>1 DEF IInv, GateInv
  <2>6. TypeOK' /\ TierInv' /\ OneBoundary' /\ DescriptorDescribes'
    <3>1. TypeOK' /\ TierInv'
      BY ZenonT(60), <2>2, <2>3, <2>4 DEF IInv, TypeOK, TierInv
    <3> QED
      BY ZenonT(60), <2>2, <3>1 DEF IInv, OneBoundary, DescriptorDescribes
  <2>7. Holds(backup.files, Entry, boundary) /\ boundary = ck.cut /\ ck.cut = tier
    BY ZenonT(60), <2>1, <2>4 DEF IInv, CkInv
  <2>8. Located(ck.paths) /\ Suffixed(ck.paths, ck.plan)
    BY Zenon, <2>4 DEF IInv, CkInv, Located, Suffixed
  <2>9. ASSUME VerifyPublished PROVE TrueOf(ck.plan, ck.digests, boundary)
    <3>1. VerifyChunks(backup.files, ck.plan, ck.paths, backup.manifest)
      BY Zenon, <2>9 DEF VerifyPublished
    <3>2. TierInv /\ Holds(backup.files, Entry, tier)
      BY ZenonT(60), <2>7 DEF IInv
    <3>3. Describes(ck.plan)
      BY ZenonT(60), <2>8, <3>1, <3>2, VerifiedTrue
    <3>4. \A a \in Authority : ck.digests[a] = tier[a]
      BY ZenonT(60), <2>9, <3>2 DEF VerifyPublished, VerifyAuthority, Digests, Holds, Entry
    <3> QED
      BY ZenonT(60), <2>7, <3>3, <3>4 DEF TrueOf, Describes
  <2>10. CkInv'
    <3>1. ck'.cut = tier' /\ Holds(backup'.files, Entry, boundary') /\ boundary' = ck'.cut
      BY ZenonT(60), <2>1, <2>2, <2>7
    <3>2. Located(ck'.paths) /\ Suffixed(ck'.paths, ck'.plan)
      BY ZenonT(60), <2>1, <2>8
    <3>3. \E entries \in SUBSET Entry : Holds(ck'.temp.files, entries, ck'.cut)
      BY ZenonT(60), <2>1 DEF IInv, CkInv
    <3>4. ck.temp.descriptor = None
      BY <2>4 DEF IInv, CkInv
    <3>5. ck'.temp.descriptor = IF ck'.pc = "described" THEN Descriptor' ELSE None
      BY ZenonT(60), <2>1, <2>4, <3>4
    <3>6. ck'.pc = "checked" => TrueOf(ck'.plan, ck'.digests, boundary')
      BY ZenonT(60), <2>1, <2>2, <2>9
    <3> QED
      BY ZenonT(60), <2>4, <3>1, <3>2, <3>3, <3>5, <3>6 DEF CkInv, Located, Suffixed
  <2>11. ShapeInv'
    <3>1. /\ backup = [files |-> backup.files, manifest |-> backup.manifest, descriptor |-> backup.descriptor]
          /\ ck.temp = [files |-> ck.temp.files, manifest |-> ck.temp.manifest, descriptor |-> ck.temp.descriptor]
          /\ ck.kind \in {"native", "generic"}
      BY ZenonT(60), <2>1, <2>4 DEF IInv, ShapeInv
    <3> QED
      BY Zenon, <2>1, <2>2, <3>1 DEF ShapeInv
  <2> QED
    BY ZenonT(60), <2>5, <2>6, <2>10, <2>11 DEF IInv
<1> QED
  BY ZenonT(60), <1>1, <1>2

\* The remaining steps of the call.
LEMMA EndStep == IInv /\ (DescribePublished \/ CheckpointFails \/ Kill \/ PowerLoss) => IInv'
<1> SUFFICES ASSUME IInv, DescribePublished \/ CheckpointFails \/ Kill \/ PowerLoss PROVE IInv'
  BY ZenonT(60)
<1>1. ck' = NoCheckpoint /\ frozen' = FALSE /\ tier' = tier /\ boundary' = boundary
  BY ZenonT(60) DEF DescribePublished, CheckpointFails, Kill, PowerLoss
<1>2. settled' \in BOOLEAN
  <2>1. settled \in BOOLEAN
    BY ZenonT(60) DEF IInv, TypeOK
  <2> QED
    BY ZenonT(60), <2>1 DEF DescribePublished, CheckpointFails, Kill, PowerLoss
<1>3. failures' \in 0 .. MaxFailures
  <2>1. failures' = failures \/ (failures < MaxFailures /\ failures' = failures + 1)
    BY ZenonT(60) DEF DescribePublished, CheckpointFails, Kill, PowerLoss
  <2> QED
    BY <2>1, NamesAssumption DEF IInv, TypeOK
<1>4. \/ backup' = None \/ backup' = backup
      \/ ck.pc = "checked" /\ \E d \in {Damaged, Descriptor} : backup' = [backup EXCEPT !.descriptor = d]
  BY ZenonT(60) DEF DescribePublished, CheckpointFails, Kill, PowerLoss, Torn
<1>5. \/ permits' = {} /\ external' = None /\ wpc' = [w \in Writer \cup Pinner |-> "idle"]
      \/ UNCHANGED <<permits, wpc>> /\ external' = IF external = "checkpoint" THEN None ELSE external
  <2>1. CASE DescribePublished
    <3>1. external = "checkpoint"
      BY ZenonT(60), <2>1 DEF DescribePublished, IInv, GateInv
    <3> QED
      BY <2>1, <3>1 DEF DescribePublished
  <2>2. CASE CheckpointFails
    BY ZenonT(60), <2>2 DEF CheckpointFails
  <2>3. CASE Kill \/ PowerLoss
    BY ZenonT(60), <2>3 DEF Kill, PowerLoss
  <2> QED
    BY ZenonT(60), <2>1, <2>2, <2>3
<1> QED
  BY ZenonT(60), <1>1, <1>2, <1>3, <1>4, <1>5, ResetStep

\* The steps before the freeze, and the freeze, which nobody with a permit sees.
LEMMA BeginStep ==
  ASSUME IInv, (\E kind \in Kind, q \in Request : Call(kind, q)) \/ Quiesce \/ Freeze PROVE IInv'
<1> DEFINE Shape == /\ ck' = [pc |-> ck'.pc, kind |-> ck'.kind, plan |-> ck'.plan, paths |-> ck'.paths,
                              digests |-> ck'.digests, temp |-> ck'.temp, cut |-> ck'.cut]
                    /\ ck'.temp = [files |-> ck'.temp.files, manifest |-> ck'.temp.manifest,
                                   descriptor |-> ck'.temp.descriptor]
                    /\ ck'.kind \in {"native", "generic"}
           Early == /\ DOMAIN ck'.temp.files = {} /\ ck'.temp.descriptor = None
                    /\ Located(ck'.paths)
<1>1. ASSUME NEW kind \in Kind, NEW q \in Request, Call(kind, q)
      PROVE  Shape /\ Early /\ ck.pc = "idle" /\ ck'.pc = "called" /\ UNCHANGED <<wvars, frozen>>
  <2>1. /\ ck' = [pc |-> "called", kind |-> kind, plan |-> PlanOf(tier, q.schema, q.generation),
                  paths |-> [c \in Chunks |-> PathTo(tier, FileOf[q.owner[c]])], digests |-> Digests(tier),
                  temp |-> EmptyTree, cut |-> None]
        /\ ck.pc = "idle" /\ UNCHANGED <<wvars, frozen>>
    BY ZenonT(60), <1>1 DEF Call, NoCheckpoint
  <2>2. kind \in {"native", "generic"}
    BY ZenonT(60), NamesAssumption
  <2>3. q.owner \in [Chunks -> Chunks]
    BY SMTT(60) DEF Request, Owner
  <2>4. \A c \in Chunks : ck'.paths[c].file = FileOf[q.owner[c]]
    BY ZenonT(60), <2>1 DEF PathTo
  <2>5. Located(ck'.paths)
    BY ZenonT(60), <2>3, <2>4 DEF Located
  <2>6. /\ EmptyTree = [files |-> EmptyTree.files, manifest |-> EmptyTree.manifest, descriptor |-> EmptyTree.descriptor]
        /\ DOMAIN EmptyTree.files = {} /\ EmptyTree.descriptor = None
    BY SMTT(60) DEF EmptyTree
  <2>7. ck'.pc = "called" /\ ck'.temp = EmptyTree /\ ck'.kind = kind
    BY ZenonT(60), <2>1
  <2>8. ck' = [pc |-> ck'.pc, kind |-> ck'.kind, plan |-> ck'.plan, paths |-> ck'.paths,
               digests |-> ck'.digests, temp |-> ck'.temp, cut |-> ck'.cut]
    BY ZenonT(60), <2>1
  <2> QED
    BY ZenonT(60), <2>1, <2>2, <2>5, <2>6, <2>7, <2>8
<1>2. ASSUME Quiesce \/ Freeze
      PROVE  /\ Shape /\ Located(ck'.paths) /\ ck'.temp = ck.temp
             /\ \/ Quiesce /\ ck.pc = "called" /\ ck'.pc = "quiesced" /\ ck'.cut = ck.cut
                \/ Freeze /\ ck.pc = "quiesced" /\ ck'.pc = "frozen" /\ ck'.cut = tier
  <2>1. ck.pc \in {"called", "quiesced"}
    BY Zenon, <1>2 DEF Quiesce, Freeze
  <2>2. Located(ck.paths) /\ ck.kind \in {"native", "generic"}
    BY ZenonT(60), <2>1 DEF IInv, CkInv, Located, ShapeInv
  <2>3. /\ ck'.temp = ck.temp /\ ck'.kind = ck.kind /\ ck'.paths = ck.paths
        /\ ck' = [pc |-> ck'.pc, kind |-> ck'.kind, plan |-> ck'.plan, paths |-> ck'.paths,
                  digests |-> ck'.digests, temp |-> ck'.temp, cut |-> ck'.cut]
        /\ \/ Quiesce /\ ck.pc = "called" /\ ck'.pc = "quiesced" /\ ck'.cut = ck.cut
           \/ Freeze /\ ck.pc = "quiesced" /\ ck'.pc = "frozen" /\ ck'.cut = tier
    BY ZenonT(60), <1>2 DEF Quiesce, Freeze, IInv, ShapeInv
  <2> QED
    BY ZenonT(60), <2>2, <2>3 DEF IInv, ShapeInv
<1>3. UNCHANGED <<tier, permits, wpc, backup, settled, boundary, failures>>
  BY ZenonT(60) DEF Call, Quiesce, Freeze, wvars, bvars
<1>4. Shape /\ Located(ck'.paths) /\ ck'.pc \in {"called", "quiesced", "frozen"} /\ ck.pc \in {"idle", "called", "quiesced"}
  BY Zenon, <1>1, <1>2
<1>5. ck'.pc = "frozen" => ck'.cut = tier
  BY ZenonT(60), <1>1, <1>2
<1>6. (\E entries \in SUBSET Entry : Holds(ck'.temp.files, entries, ck'.cut)) /\ ck'.temp.descriptor = None
  <2>1. ASSUME NEW kind \in Kind, NEW q \in Request, Call(kind, q)
        PROVE  (\E entries \in SUBSET Entry : Holds(ck'.temp.files, entries, ck'.cut)) /\ ck'.temp.descriptor = None
    BY ZenonT(60), <1>1, <2>1 DEF Holds
  <2>2. CASE Quiesce \/ Freeze
    <3>1. ck.pc \notin Frozen /\ ck.pc # "described"
      BY ZenonT(60), <1>2, <2>2 DEF Frozen
    <3>2. DOMAIN ck'.temp.files = {} /\ ck'.temp.descriptor = None
      BY ZenonT(60), <1>2, <2>2, <3>1 DEF IInv, CkInv
    <3> QED
      BY ZenonT(60), <3>2 DEF Holds
  <2> QED
    BY ZenonT(60), <2>1, <2>2
<1>7. DOMAIN ck'.temp.files = {}
  <2>1. CASE Quiesce \/ Freeze
    <3>1. ck.pc \notin Frozen
      BY ZenonT(60), <1>2, <2>1 DEF Frozen
    <3> QED
      BY ZenonT(60), <1>2, <2>1, <3>1 DEF IInv, CkInv
  <2> QED
    BY Zenon, <1>1, <2>1
<1>8. /\ ck'.pc \notin Admitting /\ ck'.pc \notin Staged /\ ck'.pc \notin Published /\ ck'.pc \in CkSteps
      /\ ck'.pc # "described" /\ ck'.pc # "checked" /\ ck'.pc # "idle" /\ (ck'.pc \in Frozen => ck'.pc = "frozen")
  BY ZenonT(60), <1>4 DEF Frozen, Admitting, Staged, Published, CkSteps
<1>9. CkInv'
  <2>1. ck'.pc \in Frozen => ck'.cut = tier'
    BY ZenonT(60), <1>3, <1>5, <1>8
  <2>2. ck'.temp.descriptor = IF ck'.pc = "described" THEN Descriptor' ELSE None
    BY Zenon, <1>6, <1>8
  <2> QED
    BY ZenonT(60), <1>4, <1>6, <1>7, <1>8, <2>1, <2>2 DEF CkInv, Located
<1>10. ShapeInv'
  <2>1. backup' # None => backup' = [files |-> backup'.files, manifest |-> backup'.manifest, descriptor |-> backup'.descriptor]
    BY Zenon, <1>3 DEF IInv, ShapeInv
  <2> QED
    BY ZenonT(60), <1>4, <1>8, <2>1 DEF ShapeInv
<1>11. GateInv' /\ frozen' \in BOOLEAN /\ external' \in Pinner \cup {"checkpoint", None}
  <2>1. CASE \E kind \in Kind, q \in Request : Call(kind, q)
    <3>1. ck.pc = "idle" /\ ck'.pc = "called" /\ UNCHANGED <<frozen, external>>
      BY ZenonT(60), <1>1, <2>1 DEF wvars
    <3>2. (frozen' <=> ck'.pc \in Frozen) /\ (external' = "checkpoint" <=> ck'.pc \notin {"idle", "called"})
      BY ZenonT(60), <3>1 DEF IInv, GateInv, Frozen
    <3> QED
      BY ZenonT(60), <1>3, <3>1, <3>2 DEF IInv, GateInv, TypeOK
  <2>2. CASE Quiesce
    <3>1. ck.pc = "called" /\ ck'.pc = "quiesced" /\ external = None /\ external' = "checkpoint" /\ frozen' = frozen
      BY ZenonT(60), <1>2, <2>2 DEF Quiesce
    <3>2. (frozen' <=> ck'.pc \in Frozen) /\ (external' = "checkpoint" <=> ck'.pc \notin {"idle", "called"})
      BY ZenonT(60), <3>1 DEF IInv, GateInv, Frozen
    <3>3. \A w \in Writer \cup Pinner : wpc[w] \notin {"waiting", "pinning"}
      BY ZenonT(60), <3>1, NamesAssumption DEF IInv, GateInv
    <3>4. GateInv'
      BY ZenonT(60), <1>3, <3>1, <3>2, <3>3 DEF IInv, GateInv
    <3> QED
      BY ZenonT(60), <3>1, <3>4 DEF IInv, TypeOK
  <2>3. CASE Freeze
    <3>1. ck.pc = "quiesced" /\ ck'.pc = "frozen" /\ permits = {} /\ frozen' = TRUE /\ external' = external
      BY ZenonT(60), <1>2, <2>3 DEF Freeze, wvars
    <3>2. (frozen' <=> ck'.pc \in Frozen) /\ (external' = "checkpoint" <=> ck'.pc \notin {"idle", "called"})
      BY ZenonT(60), <3>1 DEF IInv, GateInv, Frozen
    <3>3. GateInv'
      BY ZenonT(60), <1>3, <3>1, <3>2 DEF IInv, GateInv
    <3> QED
      BY ZenonT(60), <3>1, <3>3 DEF IInv, TypeOK
  <2> QED
    BY ZenonT(60), <2>1, <2>2, <2>3
<1>12. TypeOK' /\ TierInv' /\ OneBoundary' /\ DescriptorDescribes'
  <2>1. TypeOK' /\ TierInv'
    BY ZenonT(60), <1>3, <1>8, <1>11 DEF IInv, TypeOK, TierInv
  <2> QED
    BY ZenonT(60), <1>3, <2>1 DEF IInv, OneBoundary, DescriptorDescribes
<1> QED
  BY ZenonT(60), <1>9, <1>10, <1>11, <1>12 DEF IInv

\* The writers' steps.
LEMMA WriterStep ==
  ASSUME IInv,
         NEW w, \/ w \in Writer /\ \/ \E c \in Chunks : AppendRecord(w, c) \/ SealChunk(w, c)
                                   \/ PublishChunk(w) \/ PublishChunkFails(w)
                \/ w \in Pinner /\ (PinBegin(w) \/ PinCatalog(w) \/ PinManifest(w))
  PROVE  IInv'
<1>1. TypeOK /\ GateInv /\ TierInv
  BY ZenonT(60) DEF IInv
<1>2. /\ DOMAIN tier' = Entry /\ \A c \in Chunks : tier'[FileOf[c]] \in ChunkContent
      /\ TierInv' /\ (frozen => tier' = tier)
  BY ZenonT(60), <1>1, WriterTier
<1>3. /\ GateInv' /\ UNCHANGED <<ck, frozen, backup, settled, boundary>>
      /\ permits' \subseteq Writer \cup Pinner /\ external' \in Pinner \cup {"checkpoint", None}
      /\ failures' \in 0 .. MaxFailures
  BY ZenonT(60), <1>1, WriterGate
<1>4. TypeOK'
  BY ZenonT(60), <1>2, <1>3 DEF IInv, TypeOK
<1>5. OneBoundary' /\ DescriptorDescribes' /\ ShapeInv'
  BY ZenonT(60), <1>3 DEF IInv, OneBoundary, DescriptorDescribes, ShapeInv
<1>6. ck.pc \in Frozen => tier' = tier
  BY ZenonT(60), <1>2 DEF IInv, GateInv
<1>7. Descriptor' = Descriptor
  BY ZenonT(60), <1>3 DEF Descriptor
<1>8. CkInv'
  BY ZenonT(60), <1>3, <1>6, <1>7 DEF IInv, CkInv
<1> QED
  BY ZenonT(60), <1>2, <1>3, <1>4, <1>5, <1>8 DEF IInv

\* The tier starts consistent, with no checkpoint.
LEMMA InitIInv == Init => IInv
<1> SUFFICES ASSUME Init PROVE IInv
  BY ZenonT(60)
<1>1. ck = NoCheckpoint /\ backup = None /\ permits = {} /\ frozen = FALSE /\ external = None
  BY ZenonT(60) DEF Init
<1>2. /\ ck.pc = "idle" /\ ck.kind = None /\ ck.temp = EmptyTree
      /\ ck = [pc |-> ck.pc, kind |-> ck.kind, plan |-> ck.plan, paths |-> ck.paths,
               digests |-> ck.digests, temp |-> ck.temp, cut |-> ck.cut]
  BY ZenonT(60), <1>1 DEF NoCheckpoint
<1>3. /\ EmptyTree = [files |-> EmptyTree.files, manifest |-> EmptyTree.manifest, descriptor |-> EmptyTree.descriptor]
      /\ DOMAIN EmptyTree.files = {} /\ EmptyTree.descriptor = None
  BY SMTT(60) DEF EmptyTree
<1>4. /\ ck.pc \notin Frozen /\ ck.pc \notin Admitting /\ ck.pc \notin Staged /\ ck.pc \notin Published
      /\ ck.pc # "described" /\ ck.pc # "checked" /\ ck.pc \in CkSteps
  BY ZenonT(60), <1>2 DEF Frozen, Admitting, Staged, Published, CkSteps
<1>5. DOMAIN tier = Entry
  BY ZenonT(60) DEF Init
<1>6. ASSUME NEW c \in Chunks PROVE tier[FileOf[c]] \in ChunkContent /\ tier[FileOf[c]].chunk = c
  <2>1. FileOf[c] \in Entry /\ FileOf[c] # "catalog" /\ FileOf[c] # "pins"
    BY ZenonT(60), ChunkFiles DEF Authority
  <2>2. (CHOOSE d \in Chunks : FileOf[d] = FileOf[c]) = c
    BY ZenonT(60), ChunkFiles
  <2>3. tier[FileOf[c]] = [chunk |-> CHOOSE d \in Chunks : FileOf[d] = FileOf[c], records |-> 0, class |-> "open"]
    BY ZenonT(60), <2>1 DEF Init
  <2>4. tier[FileOf[c]] = [chunk |-> c, records |-> 0, class |-> "open"]
    BY ZenonT(60), <2>2, <2>3
  <2> QED
    BY SMTT(60), <2>4, NamesAssumption DEF ChunkContent, Classes
<1>7. TypeOK /\ TierInv
  <2>1. failures \in 0 .. MaxFailures
    BY NamesAssumption DEF Init
  <2>2. settled \in BOOLEAN /\ frozen \in BOOLEAN
    BY ZenonT(60) DEF Init
  <2> QED
    BY ZenonT(60), <1>1, <1>4, <1>5, <1>6, <2>1, <2>2 DEF TypeOK, TierInv
<1>8. GateInv
  <2>1. /\ wpc \in [Writer \cup Pinner -> Chunks \cup {"idle", "waiting", "pinning"}]
        /\ \A w \in Writer \cup Pinner : wpc[w] = "idle"
    BY DEF Init
  <2>2. "idle" \notin Chunks \cup {"pinning"} /\ "idle" \notin {"waiting", "pinning"} /\ None # "checkpoint"
    BY ZenonT(60), NamesAssumption
  <2>3. ck.pc \in {"idle", "called"}
    BY ZenonT(60), <1>2
  <2> QED
    BY ZenonT(60), <1>1, <1>4, <2>1, <2>2, <2>3 DEF GateInv
<1>9. ShapeInv /\ OneBoundary /\ DescriptorDescribes
  BY ZenonT(60), <1>1, <1>2, <1>3, <1>4 DEF ShapeInv, OneBoundary, DescriptorDescribes
<1>10. CkInv
  <2>1. Holds(ck.temp.files, {}, ck.cut) /\ DOMAIN ck.temp.files = {}
    BY ZenonT(60), <1>2, <1>3 DEF Holds
  <2>2. \E entries \in SUBSET Entry : Holds(ck.temp.files, entries, ck.cut)
    BY ZenonT(60), <2>1
  <2>3. ck.temp.descriptor = IF ck.pc = "described" THEN Descriptor ELSE None
    BY ZenonT(60), <1>2, <1>3, <1>4
  <2> QED
    BY ZenonT(60), <1>2, <1>4, <2>1, <2>2, <2>3 DEF CkInv
<1> QED
  BY ZenonT(60), <1>7, <1>8, <1>9, <1>10 DEF IInv

\* Every step of writers, checkpoint and faults keeps the invariant.
LEMMA IInvStep == IInv /\ [Next]_vars => IInv'
<1> SUFFICES ASSUME IInv, [Next]_vars PROVE IInv'
  BY ZenonT(60)
<1>1. CASE UNCHANGED vars
  <2>1. UNCHANGED <<tier, permits, external, wpc, frozen, ck, backup, settled, boundary, failures>>
    BY ZenonT(60), <1>1 DEF vars, wvars, bvars
  <2>2. TypeOK' /\ GateInv' /\ TierInv' /\ ShapeInv' /\ OneBoundary' /\ DescriptorDescribes'
    BY ZenonT(60), <2>1 DEF IInv, TypeOK, GateInv, TierInv, ShapeInv, OneBoundary,
         DescriptorDescribes
  <2>3. Descriptor' = Descriptor
    BY ZenonT(60), <2>1 DEF Descriptor
  <2>4. CkInv'
    BY ZenonT(60), <2>1, <2>3 DEF IInv, CkInv
  <2> QED
    BY ZenonT(60), <2>2, <2>4 DEF IInv
<1>2. CASE Next
  BY ZenonT(60), <1>2, WriterStep, BeginStep, CreateStep, CopyStep, VerifyStep, PublishStep,
       PublishedStep, EndStep,
     ChunkFiles DEF Next
<1> QED
  BY <1>1, <1>2

\* The invariant holds in every state of the tier.
LEMMA Invariance == Spec => []IInv
  BY InitIInv, IInvStep, PTL DEF Spec

\* For any writers, chunks and faults: a visible checkpoint of a live tier holds every
\* file as it was when the gate was frozen, a readable descriptor describes the files
\* beside it, and checkpoint and writers never wait for each other.
THEOREM CheckpointsConsistent == Spec => []CheckpointConsistent
<1>1. IInv => NoCircularWait
  <2> SUFFICES ASSUME IInv, frozen PROVE \A w \in Pinner : external # w
    BY ZenonT(60) DEF NoCircularWait
  <2>1. external = "checkpoint"
    BY ZenonT(60) DEF IInv, GateInv, Frozen
  <2> QED
    BY ZenonT(60), <2>1, NamesAssumption
<1>2. IInv => CheckpointConsistent
  BY ZenonT(60), <1>1 DEF IInv, CheckpointConsistent
<1> QED
  BY Invariance, <1>2, PTL

-----------------------------------------------------------------------------
(* The publication of snapshots, for any snapshots and manifests, any      *)
(* configuration and any number of faults.                                 *)

\* Nothing is published, or marked, at first.
LEMMA PublicationInitial == PublicationInit => PublicationIInv
  BY SMTT(60) DEF PublicationInit, PublicationIInv, Functions,
       InProgress, PublishedStays, NotResurrected

\* The tables keep their types through every step.
LEMMA PublicationFunctionsStep == PublicationIInv /\ [PublicationNext]_publicationVars => Functions'
<1> SUFFICES ASSUME PublicationIInv, [PublicationNext]_publicationVars PROVE Functions'
  OBVIOUS
<1> USE DEF PublicationIInv, Functions, heard
<1>1. ASSUME NEW m \in SnapshotManifest, NEW p \in Path, BeginSnapshot(m, p) PROVE Functions'
  BY <1>1 DEF BeginSnapshot
<1>2. CASE RenameManifest
  BY <1>2 DEF RenameManifest, InProgress
<1>3. CASE SyncDirectory
  BY <1>3 DEF SyncDirectory, InProgress
<1>4. CASE FinishSnapshot
  BY <1>4 DEF FinishSnapshot, InProgress
<1>5. CASE PublishFails
  BY SMTT(60), <1>5 DEF PublishFails
<1>6. CASE DeleteRepository
  BY <1>6 DEF DeleteRepository
<1>7. CASE Reconcile
  BY SMTT(60), <1>7 DEF Reconcile
<1>8. CASE PublicationPowerLoss
  BY SMTT(60), <1>8 DEF PublicationPowerLoss
<1>9. CASE StartDaemon \/ Started \/ StartUnconfigured \/ KillImport \/ UNCHANGED publicationVars
  BY SMTT(60), <1>9 DEF StartDaemon, Started, StartUnconfigured,
       KillImport, publicationVars
<1> QED
  BY SMTT(60), <1>1, <1>2, <1>3, <1>4, <1>5, <1>6, <1>7, <1>8, <1>9 DEF PublicationNext

\* A publication stays in progress until it returns or the process dies.
LEMMA PublicationInProgressStep == PublicationIInv /\ [PublicationNext]_publicationVars => InProgress'
<1> SUFFICES ASSUME PublicationIInv, [PublicationNext]_publicationVars PROVE InProgress'
  OBVIOUS
<1> USE DEF PublicationIInv, Functions, heard, InProgress
<1>1. ASSUME NEW m \in SnapshotManifest, NEW p \in Path, BeginSnapshot(m, p) PROVE InProgress'
  <2>1. m.snapshot \in Snapshot BY <1>1 DEF SnapshotManifest
  <2> QED BY <1>1, <2>1 DEF BeginSnapshot
<1>2. CASE RenameManifest
  BY <1>2 DEF RenameManifest
<1>3. CASE SyncDirectory
  BY SMTT(60), <1>3 DEF SyncDirectory
<1>4. CASE FinishSnapshot \/ PublishFails
  BY <1>4 DEF FinishSnapshot, PublishFails, Returned
<1>5. CASE DeleteRepository
  BY SMTT(60), <1>5 DEF DeleteRepository
<1>6. CASE Reconcile
  BY SMTT(60), <1>6 DEF Reconcile
<1>7. CASE PublicationPowerLoss \/ KillImport
  BY SMTT(60), <1>7 DEF PublicationPowerLoss, KillImport, Down
<1>8. CASE StartDaemon \/ Started \/ StartUnconfigured \/ UNCHANGED publicationVars
  BY SMTT(60), <1>8 DEF StartDaemon, Started, StartUnconfigured,
       publicationVars
<1> QED
  BY SMTT(60), <1>1, <1>2, <1>3, <1>4, <1>5, <1>6, <1>7, <1>8 DEF PublicationNext

\* What was announced is touched by no publication, reconciliation or fault.
LEMMA PublicationStaysStep == PublicationIInv /\ [PublicationNext]_publicationVars => PublishedStays'
<1> SUFFICES ASSUME PublicationIInv, [PublicationNext]_publicationVars PROVE PublishedStays'
  OBVIOUS
<1> USE DEF PublicationIInv, Functions, heard, PublishedStays
<1>1. ASSUME NEW m \in SnapshotManifest, NEW p \in Path, BeginSnapshot(m, p) PROVE PublishedStays'
  BY <1>1 DEF BeginSnapshot
<1>2. CASE RenameManifest
  BY SMTT(60), <1>2 DEF RenameManifest, InProgress
<1>3. CASE SyncDirectory
  BY <1>3 DEF SyncDirectory
<1>4. CASE FinishSnapshot
  <2>1. CASE UNCHANGED <<visibility, announced>>
    BY SMTT(60), <1>4, <2>1 DEF FinishSnapshot
  <2>2. CASE /\ visibility' = [visibility EXCEPT ![manifest.snapshot] = "Ready"]
             /\ announced' = announced \cup {[path |-> path, manifest |-> manifest]}
    <3>1. path \in Path /\ manifest \in SnapshotManifest /\ visible[path] = manifest /\ durable[path] = manifest
      BY Zenon, <1>4 DEF FinishSnapshot, InProgress
    <3>2. \A x \in Snapshot : visibility'[x] = IF x = manifest.snapshot THEN "Ready" ELSE visibility[x]
      BY Zenon, <2>2
    <3>3. \A m \in SnapshotManifest : m.snapshot \in Snapshot BY DEF SnapshotManifest
    <3>4. \A a \in announced : a.manifest \in SnapshotManifest BY Zenon
    <3>5. ASSUME NEW a \in announced'
          PROVE  /\ visibility'[a.manifest.snapshot] = "Ready"
                 /\ a.path \notin reused => visible[a.path] = a.manifest /\ durable[a.path] = a.manifest
      <4>1. CASE a \in announced BY Zenon, <3>2, <3>3, <3>4, <4>1
      <4>2. CASE a = [path |-> path, manifest |-> manifest]
        <5>1. a.path = path /\ a.manifest = manifest BY <4>2
        <5> QED BY Zenon, <3>1, <3>2, <3>3, <5>1
      <4> QED BY Zenon, <2>2, <3>5, <4>1, <4>2
    <3> QED BY Zenon, <1>4, <3>5 DEF FinishSnapshot
  <2> QED BY Zenon, <1>4, <2>1, <2>2 DEF FinishSnapshot
<1>5. CASE PublishFails
  BY SMTT(60), <1>5 DEF PublishFails
<1>6. CASE DeleteRepository
  BY SMTT(60), <1>6 DEF DeleteRepository
<1>7. CASE Reconcile
  <2>1. CASE UNCHANGED visibility BY SMTT(60), <1>7, <2>1 DEF Reconcile
  <2>2. CASE \E x : visibility' = [visibility EXCEPT ![x] = "Ready"]
    <3>1. \A m \in SnapshotManifest : m.snapshot \in Snapshot BY DEF SnapshotManifest
    <3>2. \A a \in announced : a.manifest \in SnapshotManifest BY Zenon
    <3>3. \A x \in Snapshot : visibility[x] = "Ready" => visibility'[x] = "Ready" BY Zenon, <2>2
    <3> QED BY Zenon, <1>7, <3>1, <3>2, <3>3 DEF Reconcile
  <2> QED BY Zenon, <1>7, <2>1, <2>2 DEF Reconcile
<1>8. CASE PublicationPowerLoss
  BY SMTT(60), <1>8 DEF PublicationPowerLoss
<1>9. CASE StartDaemon \/ Started \/ StartUnconfigured \/ KillImport \/ UNCHANGED publicationVars
  BY SMTT(60), <1>9 DEF StartDaemon, Started, StartUnconfigured,
       KillImport, publicationVars
<1> QED
  BY SMTT(60), <1>1, <1>2, <1>3, <1>4, <1>5, <1>6, <1>7, <1>8, <1>9 DEF PublicationNext

\* Only Begin gives a snapshot without a marker one.
LEMMA PublicationMarkersStep == PublicationIInv /\ [PublicationNext]_publicationVars => NotResurrected'
<1> SUFFICES ASSUME PublicationIInv, [PublicationNext]_publicationVars PROVE NotResurrected'
  OBVIOUS
<1> USE DEF PublicationIInv, Functions, heard, NotResurrected
<1>1. ASSUME NEW m \in SnapshotManifest, NEW p \in Path, BeginSnapshot(m, p) PROVE NotResurrected'
  BY SMTT(60), <1>1 DEF BeginSnapshot
<1>2. CASE FinishSnapshot
  BY SMTT(60), <1>2 DEF FinishSnapshot
<1>3. CASE DeleteRepository
  BY SMTT(60), <1>3 DEF DeleteRepository
<1>4. CASE Reconcile
  BY SMTT(60), <1>4 DEF Reconcile
<1>5. CASE RenameManifest \/ SyncDirectory \/ PublishFails
  BY SMTT(60), <1>5 DEF RenameManifest, SyncDirectory, PublishFails
<1>6. CASE StartDaemon \/ Started \/ StartUnconfigured \/ KillImport \/ PublicationPowerLoss \/ UNCHANGED publicationVars
  BY <1>6 DEF StartDaemon, Started, StartUnconfigured,
       KillImport, PublicationPowerLoss, publicationVars
<1> QED
  BY SMTT(60), <1>1, <1>2, <1>3, <1>4, <1>5, <1>6 DEF PublicationNext

\* The invariant holds in every state of a publication.
LEMMA PublicationInvariance == PublicationSpec => []PublicationIInv
<1>1. PublicationIInv /\ [PublicationNext]_publicationVars => PublicationIInv'
  BY SMTT(60), PublicationFunctionsStep, PublicationInProgressStep, PublicationStaysStep,
       PublicationMarkersStep DEF PublicationIInv
<1> QED
  BY PublicationInitial, <1>1, PTL DEF PublicationSpec

\* publish_snapshot_manifest's report holds through kills, power losses and
\* every later call until the repository is deleted.
THEOREM PublicationKept == PublicationSpec => []PublishedStays
<1>1. PublicationIInv => PublishedStays
  BY DEF PublicationIInv
<1> QED
  BY PublicationInvariance, <1>1, PTL

\* A leftover manifest of a deleted repository brings no snapshot back.
THEOREM DeletionFinal == PublicationSpec => []NotResurrected
<1>1. PublicationIInv => NotResurrected
  BY SMTT(60) DEF PublicationIInv
<1> QED
  BY PublicationInvariance, <1>1, PTL

\* A publication that is in no step, or ended, has no snapshot; paths and faults are
\* counted within their bounds.
LEMMA PublicationTypes == PublicationSpec => []PublicationTypeOK
<1> DEFINE Rest ==
      /\ publishing \in {"idle", "begun", "renamed", "written", "starting"}
      /\ path \in Path \cup {NoManifest} /\ manifest \in SnapshotManifest \cup {NoManifest}
      /\ nextPath \in 1 .. Len(ConfiguredManifests) + 1 /\ serving \in BOOLEAN
      /\ publicationFaults \in 0 .. MaxPublicationFaults
      /\ reused \subseteq Path /\ begun \subseteq Snapshot
<1>1. Len(ConfiguredManifests) \in Nat /\ MaxPublicationFaults \in Nat BY PublicationAssumption
<1>2. PublicationInit => Rest BY <1>1 DEF PublicationInit
<1>3. ASSUME Rest, PublicationIInv, [PublicationNext]_publicationVars PROVE Rest'
  <2> USE DEF heard
  <2>1. ASSUME NEW m \in SnapshotManifest, NEW p \in Path, BeginSnapshot(m, p) PROVE Rest'
    <3>1. m.snapshot \in Snapshot BY <2>1 DEF SnapshotManifest
    <3> QED BY Zenon, <1>3, <2>1, <3>1 DEF BeginSnapshot
  <2>2. CASE RenameManifest \/ SyncDirectory
    <3>1. path \in Path
      BY Zenon, <1>3, <2>2 DEF RenameManifest, SyncDirectory, PublicationIInv, InProgress
    <3> QED BY Zenon, <1>3, <2>2, <3>1 DEF RenameManifest, SyncDirectory
  <2>3. CASE FinishSnapshot \/ DeleteRepository
    BY Zenon, <1>3, <2>3 DEF FinishSnapshot, DeleteRepository, Returned
  <2>4. CASE PublishFails
    <3>1. publicationFaults' \in 0 .. MaxPublicationFaults BY <1>1, <1>3, <2>4 DEF PublishFails
    <3> QED BY Zenon, <1>3, <2>4, <3>1 DEF PublishFails, Returned
  <2>5. CASE StartDaemon \/ Started \/ StartUnconfigured
    <3>1. 1 \in 1 .. Len(ConfiguredManifests) + 1 BY <1>1
    <3> QED BY Zenon, <1>3, <2>5, <3>1 DEF StartDaemon, Started, StartUnconfigured
  <2>6. CASE Reconcile
    <3>1. nextPath' \in 1 .. Len(ConfiguredManifests) + 1 BY <1>1, <1>3, <2>6 DEF Reconcile
    <3>2. publishing' \in {publishing, "idle"} BY Zenon, <2>6 DEF Reconcile
    <3> QED BY Zenon, <1>3, <2>6, <3>1, <3>2 DEF Reconcile
  <2>7. CASE KillImport \/ PublicationPowerLoss
    <3>1. publicationFaults' \in 0 .. MaxPublicationFaults /\ 1 \in 1 .. Len(ConfiguredManifests) + 1
      BY <1>1, <1>3, <2>7 DEF KillImport, PublicationPowerLoss
    <3> QED BY Zenon, <1>3, <2>7, <3>1 DEF KillImport, PublicationPowerLoss, Down
  <2>8. CASE UNCHANGED publicationVars BY Zenon, <1>3, <2>8 DEF publicationVars
  <2> QED BY Zenon, <1>3, <2>1, <2>2, <2>3, <2>4, <2>5, <2>6, <2>7, <2>8 DEF PublicationNext
<1>4. Rest /\ PublicationIInv /\ [PublicationNext]_publicationVars => Rest' BY Zenon, <1>3
<1>5. PublicationIInv /\ Rest => PublicationTypeOK
  BY Zenon DEF PublicationIInv, Functions, PublicationTypeOK
<1> HIDE DEF Rest
<1> QED BY <1>2, <1>4, <1>5, PublicationInvariance, PTL DEF PublicationSpec

\* No publication demotes a Ready snapshot or replaces its manifest.
THEOREM ReadyKept == PublicationSpec => ReadyImmutable
<1> DEFINE Kept ==
      /\ \A x \in Snapshot : visibility[x] = "Ready" =>
           visibility'[x] = "Ready" \/ visibility' = [y \in Snapshot |-> NoManifest]
      /\ \A p \in Path : visible[p] # NoManifest /\ visibility[visible[p].snapshot] = "Ready" =>
           visible'[p] \in {visible[p], durable[p]} \/ visible'[p].snapshot # visible[p].snapshot
<1>1. ASSUME PublicationIInv, PublicationNext PROVE Kept
  <2> USE <1>1 DEF PublicationIInv, Functions, heard
  <2>1. ASSUME NEW m \in SnapshotManifest, NEW p \in Path, BeginSnapshot(m, p) PROVE Kept
    BY SMTT(60), <2>1 DEF BeginSnapshot
  <2>2. CASE RenameManifest
    BY SMTT(60), <2>2 DEF RenameManifest, InProgress
  <2>3. CASE FinishSnapshot
    BY SMTT(60), <2>3 DEF FinishSnapshot
  <2>4. CASE DeleteRepository
    BY SMTT(60), <2>4 DEF DeleteRepository
  <2>5. CASE Reconcile
    BY SMTT(60), <2>5 DEF Reconcile
  <2>6. CASE PublicationPowerLoss
    BY SMTT(60), <2>6 DEF PublicationPowerLoss
  <2>7. CASE SyncDirectory \/ PublishFails \/ StartDaemon \/ Started \/ StartUnconfigured \/ KillImport
    BY SMTT(60), <2>7 DEF SyncDirectory, PublishFails,
         StartDaemon, Started, StartUnconfigured, KillImport
  <2> QED
    BY SMTT(60), <1>1, <2>1, <2>2, <2>3, <2>4, <2>5, <2>6, <2>7 DEF PublicationNext
<1>2. PublicationIInv /\ [PublicationNext]_publicationVars => [Kept]_publicationVars
  BY SMTT(60), <1>1
<1> QED
  BY PublicationInvariance, <1>2, PTL DEF PublicationSpec, ReadyImmutable

\* Published snapshots are kept as they were published, and deleted ones stay
\* deleted, for any snapshots, manifests, configuration and faults.
THEOREM SnapshotsAreKept == PublicationSpec => SnapshotsKept
BY PublicationTypes, PublicationKept, DeletionFinal, ReadyKept, PTL DEF SnapshotsKept

-----------------------------------------------------------------------------
(* Restores from a backup, for any restorers, files and faults.            *)

\* The files of a backup are what TakenContent says.
LEMMA RestoreTaken ==
  ASSUME NEW n \in [Chunks -> 0 .. MaxRecords]
  PROVE  [e \in Entry |->
            IF e = "catalog" THEN [generation |-> 1, indexed |-> n, sealed |-> {}, pins |-> 0]
            ELSE IF e = "pins" THEN [pins |-> 0]
            ELSE LET c == CHOOSE c \in Chunks : FileOf[c] = e
                 IN [chunk |-> c, records |-> n[c], class |-> "open"]] \in [Entry -> TakenContent]
<1>1. [generation |-> 1, indexed |-> n, sealed |-> {}, pins |-> 0] \in TakenContent
  BY DEF TakenContent
<1>2. [pins |-> 0] \in TakenContent BY DEF TakenContent
<1>3. ASSUME NEW e \in Entry, e # "catalog", e # "pins"
      PROVE  LET c == CHOOSE c \in Chunks : FileOf[c] = e
             IN [chunk |-> c, records |-> n[c], class |-> "open"] \in TakenContent
  <2>1. e \in ChunkFile BY <1>3 DEF Entry, Authority
  <2>2. \E c \in Chunks : FileOf[c] = e BY Zenon, <2>1, RestoreAssumption
  <2>3. PICK c : c = CHOOSE x \in Chunks : FileOf[x] = e BY Zenon
  <2>4. c \in Chunks BY Zenon, <2>2, <2>3
  <2>5. [chunk |-> c, records |-> n[c], class |-> "open"] \in ChunkContent
    BY <2>4 DEF ChunkContent, Classes
  <2> QED BY Zenon, <2>3, <2>5 DEF TakenContent
<1> QED BY Zenon, <1>1, <1>2, <1>3

\* Nothing is restored at first, and the manifest names what was published.
LEMMA RestoreInitHolds == RestoreInit => RestoreIInv /\ RestoreTypeOK
<1> SUFFICES ASSUME RestoreInit PROVE RestoreIInv /\ RestoreTypeOK OBVIOUS
<1>1. PICK n \in [Chunks -> 0 .. MaxRecords] : \E files, d :
          /\ files = [e \in Entry |->
               IF e = "catalog" THEN [generation |-> 1, indexed |-> n, sealed |-> {}, pins |-> 0]
               ELSE IF e = "pins" THEN [pins |-> 0]
               ELSE LET c == CHOOSE c \in Chunks : FileOf[c] = e
                    IN [chunk |-> c, records |-> n[c], class |-> "open"]]
          /\ taken = files
          /\ published = [files |-> files, manifest |-> files, descriptor |-> d]
  BY ZenonT(60) DEF RestoreInit
<1>a. PICK files, d :
         /\ files = [e \in Entry |->
               IF e = "catalog" THEN [generation |-> 1, indexed |-> n, sealed |-> {}, pins |-> 0]
               ELSE IF e = "pins" THEN [pins |-> 0]
               ELSE LET c == CHOOSE c \in Chunks : FileOf[c] = e
                    IN [chunk |-> c, records |-> n[c], class |-> "open"]]
         /\ taken = files
         /\ published = [files |-> files, manifest |-> files, descriptor |-> d]
  BY Zenon, <1>1
<1>2. /\ rs = [r \in Restorer |-> NoRestore] /\ restored = None /\ used = FALSE
      /\ restoreFaults = 0 /\ lost = FALSE
  BY Zenon DEF RestoreInit
<1>3. files \in [Entry -> TakenContent] BY Zenon, <1>a, RestoreTaken
<1>4. /\ DOMAIN published = {"files", "manifest", "descriptor"}
      /\ published.manifest = files /\ published.files = files
  BY SMTT(60), <1>a
<1>5. NoRestore.pc = "idle" /\ NoRestore.files = << >> /\ DOMAIN << >> \subseteq Entry
  BY DEF NoRestore
<1>6. Checked BY ZenonT(60), <1>2, <1>5 DEF Checked
<1>7. RestoreIInv BY ZenonT(60), <1>a, <1>2, <1>3, <1>4, <1>6 DEF RestoreIInv, RestoredFaithful
<1>8. 0 \in 0 .. MaxRestoreFaults BY RestoreAssumption
<1>9. RestoreTypeOK BY ZenonT(60), <1>2, <1>3, <1>4, <1>5, <1>8 DEF RestoreTypeOK
<1> QED BY Zenon, <1>7, <1>9

\* A call that only changes its own progress.
LEMMA RestoreProgressStep ==
  ASSUME RestoreIInv, NEW r \in Restorer, NEW x, rs' = [rs EXCEPT ![r] = x],
         DOMAIN x = DOMAIN NoRestore, x.pc = "checked" => IsTaken(x.files),
         UNCHANGED <<published, restored, used, taken, lost>>
  PROVE  RestoreIInv'
<1>1. rs' = [q \in Restorer |-> rs'[q]] /\ rs'[r] = x /\ \A q \in Restorer \ {r} : rs'[q] = rs[q]
  BY Zenon DEF RestoreIInv
<1>2. DOMAIN NoRestore' = DOMAIN NoRestore BY Zenon DEF NoRestore
<1>3. \A q \in Restorer : DOMAIN rs'[q] = DOMAIN NoRestore /\ (rs'[q].pc = "checked" => IsTaken(rs'[q].files))
  BY ZenonT(60), <1>1 DEF RestoreIInv, Checked
<1>4. Checked' BY ZenonT(60), <1>3 DEF Checked, IsTaken
<1> QED BY ZenonT(60), <1>1, <1>2, <1>3, <1>4 DEF RestoreIInv, RestoredFaithful

\* Starting, copying, checking and giving up keep the invariant.
LEMMA RestoreRestorerStep ==
  ASSUME RestoreIInv, NEW r \in Restorer,
         \/ \E cold \in BOOLEAN, owner \in PathOwner : VerifyBackup(r, cold, owner)
         \/ RestoreFile(r) \/ VerifyRestored(r) \/ RestoreFails(r)
  PROVE  RestoreIInv'
<1>1. ASSUME NEW cold \in BOOLEAN, NEW owner \in PathOwner, VerifyBackup(r, cold, owner) PROVE RestoreIInv'
  <2>1. PICK d, p : rs' = [rs EXCEPT ![r] = [pc |-> "copying", cold |-> cold, descriptor |-> d,
                                             paths |-> p, files |-> << >>]]
    BY ZenonT(60), <1>1 DEF VerifyBackup
  <2> DEFINE x == [pc |-> "copying", cold |-> cold, descriptor |-> d, paths |-> p, files |-> << >>]
  <2>2. DOMAIN x = DOMAIN NoRestore /\ x.pc # "checked" BY SMTT(60) DEF NoRestore
  <2> QED BY ZenonT(60), <1>1, <2>1, <2>2, RestoreProgressStep DEF VerifyBackup
<1>2. CASE RestoreFile(r)
  <2>1. PICK f : rs' = [rs EXCEPT ![r] = [rs[r] EXCEPT !.files = f]]
    BY ZenonT(60), <1>2 DEF RestoreFile
  <2> DEFINE x == [rs[r] EXCEPT !.files = f]
  <2>2. rs[r].pc = "copying" /\ DOMAIN rs[r] = DOMAIN NoRestore
    BY Zenon, <1>2 DEF RestoreFile, RestoreIInv
  <2>3. DOMAIN x = DOMAIN NoRestore /\ x.pc # "checked" BY SMTT(60), <2>2 DEF NoRestore
  <2> QED BY ZenonT(60), <1>2, <2>1, <2>3, RestoreProgressStep DEF RestoreFile
<1>3. CASE VerifyRestored(r)
  <2> DEFINE x == [rs[r] EXCEPT !.pc = "checked"]
  <2>1. rs' = [rs EXCEPT ![r] = x] BY ZenonT(60), <1>3 DEF VerifyRestored
  <2>2. DOMAIN rs[r].files = Entry /\ \A e \in Entry : rs[r].files[e] = taken[e]
    BY Zenon, <1>3 DEF VerifyRestored, VerifyTree, RestoreIInv
  <2>3. DOMAIN rs[r] = DOMAIN NoRestore BY ZenonT(60) DEF RestoreIInv
  <2>4. DOMAIN x = DOMAIN NoRestore /\ x.files = rs[r].files
    BY <2>3 DEF NoRestore
  <2>5. IsTaken(x.files) BY ZenonT(60), <2>2, <2>4 DEF IsTaken
  <2> QED BY ZenonT(60), <1>3, <2>1, <2>4, <2>5, RestoreProgressStep DEF VerifyRestored
<1>4. CASE RestoreFails(r)
  <2>1. NoRestore.pc # "checked" BY SMTT(60) DEF NoRestore
  <2> QED BY ZenonT(60), <1>4, <2>1, RestoreProgressStep DEF RestoreFails
<1> QED BY ZenonT(60), <1>1, <1>2, <1>3, <1>4

\* The rename publishes a verified copy.
LEMMA RestorePublishStep ==
  ASSUME RestoreIInv, NEW r \in Restorer, PublishRestored(r)
  PROVE  RestoreIInv'
<1>1. IsTaken(rs[r].files)
  BY Zenon DEF PublishRestored, RestoreIInv, Checked
<1>2. restored' = rs[r].files /\ ~used' /\ taken' = taken /\ published' = published /\ lost' = lost
  BY Zenon DEF PublishRestored
<1>3. DOMAIN restored' = Entry /\ \A e \in Entry : restored'[e] = taken'[e]
  BY ZenonT(60), <1>1, <1>2 DEF IsTaken
<1>4. RestoredFaithful' BY Zenon, <1>3 DEF RestoredFaithful
<1>5. DOMAIN restored' \subseteq Entry BY Zenon, <1>3
<1>6. NoRestore.pc # "checked" BY DEF NoRestore
<1>7. rs' = [q \in Restorer |-> rs'[q]] /\ \A q \in Restorer : rs'[q] = NoRestore \/ rs'[q] = rs[q]
  BY ZenonT(60) DEF RestoreIInv, PublishRestored
<1>8. Checked' /\ \A q \in Restorer : DOMAIN rs'[q] = DOMAIN NoRestore
  <2>1. \A q \in Restorer : rs'[q].pc = "checked" => rs'[q] = rs[q] /\ IsTaken(rs[q].files)
    BY ZenonT(60), <1>6, <1>7 DEF RestoreIInv, Checked
  <2>2. Checked' BY ZenonT(60), <1>2, <2>1 DEF Checked, IsTaken
  <2> QED BY ZenonT(60), <1>7, <2>2 DEF RestoreIInv
<1>9. DOMAIN NoRestore' = DOMAIN NoRestore BY Zenon DEF NoRestore
<1> QED BY ZenonT(60), <1>2, <1>4, <1>5, <1>7, <1>8, <1>9 DEF RestoreIInv

\* Damage is done to the files and the descriptor, never to what was restored.
LEMMA RestoreDamageStep ==
  ASSUME RestoreIInv, NEW e \in Entry \cup {"descriptor"}, Damage(e)
  PROVE  RestoreIInv'
<1>1. DOMAIN published' = DOMAIN published /\ published'.manifest = published.manifest
  <2>1. CASE e \in Entry
    <3>1. published' = [published EXCEPT !.files[e] = Damaged]
      BY ZenonT(60), <2>1 DEF Damage
    <3> QED BY <3>1 DEF RestoreIInv
  <2>2. CASE e \notin Entry
    <3>1. PICK d : published' = [published EXCEPT !.descriptor = d]
      BY ZenonT(60), <2>2 DEF Damage
    <3> QED BY <3>1 DEF RestoreIInv
  <2> QED BY ZenonT(60), <2>1, <2>2
<1>2. UNCHANGED <<taken, rs, restored, used, lost>> BY Zenon DEF Damage
<1>3. Checked' BY ZenonT(60), <1>2 DEF RestoreIInv, Checked, IsTaken
<1>4. DOMAIN NoRestore' = DOMAIN NoRestore BY Zenon DEF NoRestore
<1> QED BY ZenonT(60), <1>1, <1>2, <1>3, <1>4 DEF RestoreIInv, RestoredFaithful

\* A power loss takes files of the destination, and part of its catalog.
LEMMA RestorePowerLossStep ==
  ASSUME RestoreIInv, RestorePowerLoss
  PROVE  RestoreIInv'
<1>1. UNCHANGED <<published, taken, used>> /\ lost' = TRUE /\ rs' = [r \in Restorer |-> NoRestore]
  BY Zenon DEF RestorePowerLoss
<1>2. NoRestore.pc # "checked" BY SMTT(60) DEF NoRestore
<1>3. \A r \in Restorer : DOMAIN rs'[r] = DOMAIN NoRestore' /\ rs'[r].pc # "checked"
  BY Zenon, <1>1, <1>2 DEF NoRestore
<1>4. rs' = [r \in Restorer |-> rs'[r]] BY ZenonT(60), <1>1
<1>5. RestoredFaithful' /\ (restored' # None => DOMAIN restored' \subseteq Entry) /\ (used' => restored' # None)
  <2>1. CASE restored = None
    <3>1. restored' = None BY Zenon, <2>1 DEF RestorePowerLoss
    <3> QED BY ZenonT(60), <1>1, <2>1, <3>1 DEF RestoreIInv, RestoredFaithful
  <2>2. CASE restored # None
    <3>1. PICK S \in SUBSET DOMAIN restored, P \in SUBSET {"catalog"} :
            restored' = [e \in S |-> IF e \in P THEN Damaged ELSE restored[e]]
      BY Zenon, <2>2 DEF RestorePowerLoss
    <3>2. DOMAIN restored' = S /\ \A e \in S : restored'[e] = restored[e] \/ (e = "catalog" /\ restored'[e] = Damaged)
      BY Zenon, <3>1
    <3>3. S \in SUBSET Entry BY Zenon, <2>2 DEF RestoreIInv
    <3>4. \A e \in S : restored[e] = taken[e] \/ (e = "catalog" /\ restored[e] = Damaged)
      BY Zenon, <2>2 DEF RestoreIInv, RestoredFaithful
    <3>5. \A e \in S : restored'[e] = taken'[e] \/ (e = "catalog" /\ restored'[e] = Damaged)
      BY Zenon, <1>1, <3>2, <3>4
    <3>6. restored' \in [S -> TakenContent \cup {Damaged}]
      <4>1. \A e \in S : restored[e] \in TakenContent \cup {Damaged}
        BY Zenon, <3>3, <3>4 DEF RestoreIInv
      <4> QED BY Zenon, <3>1, <4>1
    <3>7. restored' # None BY Zenon, <3>3, <3>6, RestoreAssumption
    <3> QED BY Zenon, <1>1, <3>2, <3>3, <3>5, <3>7 DEF RestoredFaithful
  <2> QED BY Zenon, <2>1, <2>2
<1>6. Checked' BY Zenon, <1>3 DEF Checked
<1> QED BY ZenonT(60), <1>1, <1>3, <1>4, <1>5, <1>6 DEF RestoreIInv

\* Every step keeps the invariant.
LEMMA RestoreStepHolds ==
  ASSUME RestoreIInv, [RestoreNext]_restoreVars
  PROVE  RestoreIInv'
<1>1. CASE Use
  <2>1. UNCHANGED <<published, taken, rs, restored, lost>> /\ restored # None
    BY ZenonT(60), <1>1 DEF Use
  <2>2. Checked' BY ZenonT(60), <2>1 DEF RestoreIInv, Checked, IsTaken
  <2>3. DOMAIN NoRestore' = DOMAIN NoRestore BY Zenon DEF NoRestore
  <2> QED BY ZenonT(60), <2>1, <2>2, <2>3 DEF RestoreIInv, RestoredFaithful
<1>2. CASE UNCHANGED restoreVars
  <2>1. UNCHANGED <<published, taken, rs, restored, used, lost>> BY Zenon, <1>2 DEF restoreVars
  <2>2. Checked' BY ZenonT(60), <2>1 DEF RestoreIInv, Checked, IsTaken
  <2>3. DOMAIN NoRestore' = DOMAIN NoRestore BY Zenon DEF NoRestore
  <2> QED BY ZenonT(60), <2>1, <2>2, <2>3 DEF RestoreIInv, RestoredFaithful
<1> QED
  BY ZenonT(60), <1>1, <1>2, RestoreRestorerStep, RestorePublishStep, RestoreDamageStep,
       RestorePowerLossStep DEF RestoreNext

\* The files of a backup and of its copies are entries, and faults are counted.
LEMMA RestoreTypeStep ==
  ASSUME RestoreIInv, RestoreTypeOK, [RestoreNext]_restoreVars
  PROVE  RestoreTypeOK'
<1> DEFINE WellTyped(x) == x.pc \in {"idle", "copying", "checked"} /\ DOMAIN x.files \subseteq Entry
<1>1. ASSUME NEW r \in Restorer, NEW x, WellTyped(x), rs' = [rs EXCEPT ![r] = x],
             UNCHANGED <<published, restoreFaults, lost>>, used' \in BOOLEAN,
             restored' = restored \/ restored' = rs[r].files
      PROVE  RestoreTypeOK'
  <2>1. \A q \in Restorer : WellTyped(rs'[q]) BY Zenon, <1>1 DEF RestoreTypeOK, RestoreIInv
  <2>2. restored' # None => DOMAIN restored' \subseteq Entry BY Zenon, <1>1 DEF RestoreTypeOK
  <2> QED BY Zenon, <1>1, <2>1, <2>2 DEF RestoreTypeOK
<1>2. WellTyped(NoRestore)
  <2>1. NoRestore.pc = "idle" /\ NoRestore.files = << >> /\ DOMAIN << >> \subseteq Entry
    BY DEF NoRestore
  <2> QED BY Zenon, <2>1
<1>3. ASSUME NEW r \in Restorer, NEW cold \in BOOLEAN, NEW owner \in PathOwner, VerifyBackup(r, cold, owner)
      PROVE  RestoreTypeOK'
  <2>1. PICK d, p : rs' = [rs EXCEPT ![r] = [pc |-> "copying", cold |-> cold, descriptor |-> d,
                                             paths |-> p, files |-> << >>]]
    BY ZenonT(60), <1>3 DEF VerifyBackup
  <2> DEFINE x == [pc |-> "copying", cold |-> cold, descriptor |-> d, paths |-> p, files |-> << >>]
  <2>2. x.pc = "copying" /\ x.files = << >> /\ DOMAIN << >> \subseteq Entry OBVIOUS
  <2>3. WellTyped(x) BY Zenon, <2>2
  <2>4. used \in BOOLEAN BY Zenon DEF RestoreTypeOK
  <2> QED BY Zenon, <1>1, <1>3, <2>1, <2>3, <2>4 DEF VerifyBackup
<1>4. ASSUME NEW r \in Restorer, RestoreFile(r) PROVE RestoreTypeOK'
  <2> DEFINE files == rs[r].files
             e == Order[Cardinality(DOMAIN files) + 1]
             x == [rs[r] EXCEPT !.files = PutRestored(files, e, published.files[e])]
  <2>1. rs' = [rs EXCEPT ![r] = x] BY Zenon, <1>4 DEF RestoreFile
  <2>2. DOMAIN files \subseteq Entry BY Zenon DEF RestoreTypeOK
  <2>3. e \in Entry
    <3>1. IsFiniteSet(Entry)
      <4>1. IsFiniteSet({"catalog"} \cup {"pins"}) BY Zenon, FS_Singleton, FS_AddElement
      <4>2. Authority = {"catalog"} \cup {"pins"} BY Zenon DEF Authority
      <4> QED BY Zenon, <4>1, <4>2, RestoreAssumption, FS_Union DEF Entry
    <3>2. Cardinality(DOMAIN files) \in Nat BY Zenon, <2>2, <3>1, FS_Subset, FS_CardinalityType
    <3>3. Cardinality(DOMAIN files) < Len(Order) BY Zenon, <1>4 DEF RestoreFile
    <3> QED BY <3>2, <3>3, RestoreAssumption
  <2>4. DOMAIN PutRestored(files, e, published.files[e]) \subseteq Entry
    BY Zenon, <2>2, <2>3 DEF PutRestored
  <2>5. DOMAIN rs[r] = DOMAIN NoRestore /\ rs[r].pc = "copying"
    BY Zenon, <1>4 DEF RestoreFile, RestoreIInv
  <2>6. x.pc = "copying" /\ x.files = PutRestored(files, e, published.files[e])
    BY <2>5 DEF NoRestore
  <2>7. WellTyped(x) BY Zenon, <2>4, <2>6
  <2>8. UNCHANGED <<published, restored, used, restoreFaults, lost>>
    BY Zenon, <1>4 DEF RestoreFile
  <2>9. used \in BOOLEAN BY Zenon DEF RestoreTypeOK
  <2> HIDE DEF x
  <2> QED BY Zenon, <1>1, <2>1, <2>7, <2>8, <2>9
<1>5. ASSUME NEW r \in Restorer, VerifyRestored(r) PROVE RestoreTypeOK'
  <2> DEFINE x == [rs[r] EXCEPT !.pc = "checked"]
  <2>1. rs' = [rs EXCEPT ![r] = x] /\ UNCHANGED <<published, restored, used, restoreFaults, lost>>
    BY Zenon, <1>5 DEF VerifyRestored
  <2>2. DOMAIN rs[r] = DOMAIN NoRestore /\ DOMAIN rs[r].files \subseteq Entry
    BY Zenon DEF RestoreIInv, RestoreTypeOK
  <2>3. x.pc = "checked" /\ x.files = rs[r].files BY <2>2 DEF NoRestore
  <2>4. WellTyped(x) BY Zenon, <2>2, <2>3
  <2>5. used \in BOOLEAN BY Zenon DEF RestoreTypeOK
  <2> HIDE DEF x
  <2> QED BY Zenon, <1>1, <2>1, <2>4, <2>5
<1>6. ASSUME NEW r \in Restorer, RestoreFails(r) \/ PublishRestored(r) PROVE RestoreTypeOK'
  <2>1. used \in BOOLEAN BY Zenon DEF RestoreTypeOK
  <2> QED BY Zenon, <1>1, <1>2, <1>6, <2>1 DEF RestoreFails, PublishRestored
<1>7. CASE Use BY Zenon, <1>7 DEF Use, RestoreTypeOK
<1>8. ASSUME NEW e \in Entry \cup {"descriptor"}, Damage(e) PROVE RestoreTypeOK'
  <2>1. DOMAIN published'.files = DOMAIN published.files
    <3>1. CASE e \in Entry
      <4>1. published' = [published EXCEPT !.files[e] = Damaged] BY Zenon, <1>8, <3>1 DEF Damage
      <4> QED BY <4>1 DEF RestoreIInv
    <3>2. CASE e \notin Entry
      <4>1. PICK d : published' = [published EXCEPT !.descriptor = d]
        BY ZenonT(60), <1>8, <3>2 DEF Damage
      <4> QED BY <4>1 DEF RestoreIInv
    <3> QED BY Zenon, <3>1, <3>2
  <2>2. restoreFaults' \in 0 .. MaxRestoreFaults
    BY <1>8, RestoreAssumption DEF Damage, RestoreTypeOK
  <2> QED BY Zenon, <1>8, <2>1, <2>2 DEF Damage, RestoreTypeOK
<1>9. CASE RestorePowerLoss
  <2>1. restoreFaults' \in 0 .. MaxRestoreFaults /\ lost' \in BOOLEAN /\ UNCHANGED <<published, used>>
    BY <1>9, RestoreAssumption DEF RestorePowerLoss, RestoreTypeOK
  <2>2. \A q \in Restorer : WellTyped(rs'[q]) BY Zenon, <1>2, <1>9 DEF RestorePowerLoss
  <2>3. restored' # None => DOMAIN restored' \subseteq Entry
    <3>1. CASE restored = None BY Zenon, <1>9, <3>1 DEF RestorePowerLoss
    <3>2. CASE restored # None
      <4>1. PICK kept \in SUBSET DOMAIN restored, torn \in SUBSET {"catalog"} :
              restored' = [e \in kept |-> IF e \in torn THEN Damaged ELSE restored[e]]
        BY Zenon, <1>9, <3>2 DEF RestorePowerLoss
      <4> QED BY Zenon, <3>2, <4>1 DEF RestoreTypeOK
    <3> QED BY Zenon, <3>1, <3>2
  <2> QED BY Zenon, <2>1, <2>2, <2>3 DEF RestoreTypeOK
<1>10. CASE UNCHANGED restoreVars BY Zenon, <1>10 DEF restoreVars, RestoreTypeOK
<1> QED
  BY Zenon, <1>3, <1>4, <1>5, <1>6, <1>7, <1>8, <1>9, <1>10 DEF RestoreNext

\* A restored destination holds what the checkpoint published unless the power has
\* failed since, and is never replaced once it is in use (restore_with_verification),
\* for any restorers, files and faults.
THEOREM RestoresFaithful == RestoreSpec => RestoreFaithful
<1>1. RestoreIInv /\ RestoreTypeOK => RestoredFaithful BY ZenonT(60) DEF RestoreIInv
<1>2. RestoreIInv /\ RestoreTypeOK /\ [RestoreNext]_restoreVars => (RestoreIInv /\ RestoreTypeOK)'
  BY Zenon, RestoreStepHolds, RestoreTypeStep
<1>3. RestoreIInv /\ [RestoreNext]_restoreVars => [used => used']_restoreVars
  <2> SUFFICES ASSUME RestoreIInv, RestoreNext, used PROVE used' BY Zenon
  <2>1. restored # None BY Zenon DEF RestoreIInv
  <2> QED
    BY ZenonT(60), <2>1 DEF RestoreNext, VerifyBackup, RestoreFile,
         VerifyRestored, PublishRestored, RestoreFails,
       Use, Damage, RestorePowerLoss
<1> QED BY RestoreInitHolds, <1>1, <1>2, <1>3, PTL DEF RestoreSpec, RestoreFaithful, UsedKept
=============================================================================
