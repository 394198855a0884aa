----------------------------- MODULE MCStorage -----------------------------
(***************************************************************************)
(* The cold tier and its host for TLC: checkpoints, restores, the rotating *)
(* writer, the catalog, the rebuild of its locations, the encodings of all *)
(* persistent records, the loopback image, the doctor's diagnostics,       *)
(* daemon processes, the catalog's mirror of the job queue, the walks over *)
(* the object graph, the publication of snapshots, the digests of a backup *)
(* and the probes of the clone domain.  The parts share no state here; a   *)
(* behaviour is one of one part.                                           *)
(***************************************************************************)
EXTENDS ColdCheckpoint, ColdRestore, RotatingWriter, LoopbackImage, DaemonLifecycle, SnapshotPublication,
        CloneProbe, SequencesExt

CONSTANTS Part  \* the parts whose behaviours are checked

\* The file of each chunk.
Files == [c \in Chunks |-> CASE c = "c1" -> "f1" [] c = "c2" -> "f2"]

\* The order of restoring, the encoded lengths of three objects, and the manifests
\* a daemon is configured with.
RestoreOrder == <<"catalog">> \o SetToSeq(ChunkFile) \o <<"pins">>
Lengths == [a |-> 1, b |-> 2, d |-> 5]
ManifestList == <<"m1", "m2">>

VARIABLES part,
          db,
          rdb, store, lpc, paths, entries, vetted, lfaults,
          format, value, bytes, change,
          command, output, report,
          disk, past, leftover, phase, work, ran, acked, reported, errors, crashes, mirror, journal, premature,
          data, odb, refs, alias, location, generation, ready, gpc, repo, snapshot, pending, seen, fetched, queued, marked,
          retained, outcome, changes, imports,
          first, second, digest

Index == INSTANCE Catalog
  WITH Key <- {<<"location", "x">>, <<"alias", "r", "x">>, <<"repository", "r">>, <<"snapshot", "r", "s">>,
               <<"snapshot", "q", "s">>, <<"gc_pin", "p">>, <<"meta", "object_location_rebuild_v1">>},
       Value <- {"Ready", "Incomplete"}, MaxBatch <- 2

\* Two files of the first generation, in the order of their names but not of their
\* chunk IDs, one of the next generation, and a copy of the first.
Locations == INSTANCE LocationRebuild
  WITH Content <- {"x", "y"}, FileOrder <- <<"a", "b", "c", "d">>, MaxRecords <- 2, MaxFaults <- 1, MaximumBatchEntries <- 1,
       Identity <- [f \in {"a", "b", "c", "d"} |-> [generation |-> IF f = "b" THEN 2 ELSE 1, chunk_id |-> IF f = "d" THEN 1 ELSE 2]],
       Stray <- [f \in {"c"} |-> "a"], db <- rdb, pc <- lpc, faults <- lfaults

Formats == {"file", "payload", "chunk_header", "sealed_footer", "object_location", "oid_alias_key", "repo_snapshot_key",
            "snapshot_visibility", "chunk_key", "chunk", "opaque_key", "current_generation", "pin_key",
            "workspace_manifest", "snapshot_manifest", "backup_manifest", "cold_descriptor", "instance_marker",
            "job", "scrub", "migration"}
Encoding == INSTANCE Encodings
  WITH MAX_RECOVERY_RECORD_BYTES <- 20, MAX_WORKSPACE_MANIFEST_BYTES <- 23, MAX_SNAPSHOT_MANIFEST_BYTES <- 32,
       MAX_JOB_RECORD_LEN <- 13, Format <- Formats, Digit <- 0 .. 5

Mirror == INSTANCE JobMirror
  WITH JobId <- {1}, Kind <- {"gc"}, Worker <- {"w"}, Serves <- [w \in {"w"} |-> {"gc"}],
       MaxAttempts <- 2, MaxErrors <- 1, MaxCrashes <- 1

\* Two repositories that share a history: a tag of the first and both refs of
\* the second, which are one commit, reach the same commits.  The tag and the
\* commit, or a tree, are malformed, or name what they do only in a message, or
\* a submodule that only the second repository has.
Header(k, o) == [key |-> k, oid |-> o]
GitObject(k, l) == [kind |-> k, lines |-> l]
Blank == Header("blank", None)
History == [g |-> GitObject("tag", <<Header("object", "c1"), Header("type", None)>>),
            c1 |-> GitObject("commit", <<Header("tree", "t1"), Header("parent", "c2")>>),
            c2 |-> GitObject("commit", <<Header("tree", "t2")>>), x |-> GitObject("commit", <<Header("tree", "t2")>>),
            t1 |-> GitObject("tree", <<Header("40000", "t2"), Header("100644", "b")>>),
            t2 |-> GitObject("tree", <<Header("100755", "b")>>), b |-> GitObject("blob", <<>>)]
Changed(g, c1) == [History EXCEPT !.g.lines = g, !.c1.lines = c1]
Histories ==
  {History,
   Changed(<<Header("object", "c2"), Blank, Header("object", "c1")>>, <<Header("tree", "t1"), Blank, Header("parent", "c2")>>),
   Changed(<<Header("object", "c1"), Header("object", "c2")>>, <<Header("tree", "t1"), Header("tree", "t2")>>),
   Changed(<<Header("type", None), Blank, Header("object", "c1")>>, <<Header("parent", "c2")>>),
   [History EXCEPT !.c1.lines = <<Header("tree", "t1"), Header("parent", None)>>]}
  \cup {[History EXCEPT !.t1.lines = l] : l \in {<<Header("160000", "x"), Header("120000", "b")>>, <<Header("777", "b")>>}}
Walks == INSTANCE ObjectGraph
  WITH Repo <- {"p", "q"}, Object <- DOMAIN History, MaxSnapshotRoots <- 2, MaxReferences <- 11, MaxObjects <- 5,
       Retained <- {<<>>, <<<<"q", "c2">>>>}, MaxGen <- 2, MaxLost <- 1, MaxImports <- 2, pc <- gpc, lost <- changes

\* Directories of two levels whose names and contents hold the numbers that
\* the stream of a directory uses as tags and lengths.
Sized(n, c) == [type |-> "file", size |-> n, content |-> c]
File(c) == Sized(Len(c), c)
Directory(c) == [type |-> "dir", children |-> c]
Shallow == {File(<<>>), File(<<3>>), File(<<1, 1>>), Directory(<<>>)}
Odd == {Sized(2, <<1>>), [type |-> "other"]}
Nested == {Directory(<<>>)} \cup {Directory([n \in {<<3>>} |-> e]) : e \in Shallow}
Entries == {File(<<>>), File(<<3>>), File(<<7, 7, 3>>), Directory(<<>>)}
  \cup {Directory([n \in {<<1>>} |-> e]) : e \in Shallow \cup Odd \cup Nested}
  \cup {Directory([n \in {<<1, 1>>} |-> e]) : e \in Shallow}
  \cup {Directory([n \in {<<1>>, <<3>>} |-> IF n = <<3>> THEN e ELSE d]) : e \in Shallow \cup Odd, d \in Shallow \cup Nested}
Hashes == INSTANCE AuthorityDigest WITH Entry <- Entries, MAX_RECOVERY_RECORD_BYTES <- 20

\* Command outputs: headings, rows with each word in turn, and quantities
\* around the largest number of seven bits.
Line(form) == [form |-> form, words |-> <<>>, quantity |-> [whole |-> 0, point |-> FALSE, fraction |-> <<>>, unit |-> 0]]
Word(is) == [is |-> is, n |-> 1]
Words == [is : {"id", "number", "none", "other"}, n : {1}] \cup {[is |-> "number", n |-> 200]}
Row(id, w, x) == [Line("words") EXCEPT !.words = <<Word(id), Word("number"), w, Word("none"), x>>]
Rows == {Row(id, w, x) : id \in {"id", "other"}, w \in Words, x \in Words}
          \cup {[Line("words") EXCEPT !.words = <<Word("id"), Word("number"), Word("number"), Word("none")>>]}
Quantities == [whole : {-1, 0, 1, 3, 127, 130}, point : {FALSE}, fraction : {<<>>}, unit : {-1, 0, 2, 6}]
  \cup [whole : {-1, 0, 1, 3, 31}, point : {TRUE}, fraction : {<<>>, <<5>>, <<0, 5>>, <<9, 9>>, <<2, 5, 0>>}, unit : {0, 2, 6}]
Trimmed == {[Line("trimmed") EXCEPT !.quantity = q] : q \in Quantities}
Outputs(lines) == [success : BOOLEAN, unsupported : BOOLEAN, utf8 : BOOLEAN, lines : lines]
Doctor == INSTANCE Diagnostics
  WITH MaxFraction <- 2, Width <- 7,
       Output <- [qgroup |-> Outputs({<<>>, <<Line("blank")>>} \cup {<<Line("heading"), Line("separator"), r>> : r \in Rows}
                                       \cup {<<r, Row("id", Word("number"), Word("none"))>> : r \in Rows}),
                  trim |-> Outputs({<<>>, <<Line("words")>>} \cup {<<t>> : t \in Trimmed} \cup {<<Line("blank"), t>> : t \in Trimmed}
                                     \cup {<<t, t>> : t \in Trimmed})]

lvars == <<rdb, store, lpc, paths, entries, vetted, lfaults>>
evars == <<format, value, bytes, change>>
ovars == <<command, output, report>>
jvars == <<disk, past, leftover, phase, work, ran, acked, reported, errors, crashes, mirror, journal, premature>>
wkvars == <<data, odb, refs, alias, location, generation, ready, gpc, repo, snapshot, pending, seen, fetched, queued, marked,
            retained, outcome, changes, imports>>
dvars == <<first, second, digest>>

\* A part that does not move has one initial state.
MCInit ==
  /\ part \in Part
  /\ Init /\ RotationInit /\ Index!Init /\ Locations!Init /\ ImageInit /\ Mirror!MirrorInit
  /\ RestoreInit
  /\ part # "restore" => published.descriptor = None /\ \A c \in Chunks : taken["catalog"].indexed[c] = 0
  /\ IF part = "encoding" THEN Encoding!Init
       ELSE format = "chunk_key" /\ value = <<>> /\ bytes = <<>> /\ change = "unwritten"
  /\ IF part = "doctor" THEN Doctor!Init
       ELSE command = "trim" /\ output = <<>> /\ report = Doctor!NotRun
  /\ ProcessInit
  /\ part # "processes" => /\ root = [p \in Process |-> "s"] /\ dir = [p \in Process |-> "d"]
                           /\ socket = [d \in RuntimeDir |-> Nobody] /\ rebuild = [r \in StateRoot |-> FALSE]
  /\ PublicationInit /\ Walks!Init
  /\ IF part = "objects" THEN data \in Histories ELSE data = History
  /\ refs = [p |-> <<"c2", "g">>, q |-> <<"c1", "c1">>]
  /\ odb = [r \in {"p", "q"} |-> Walks!Needed(Range(refs[r])) \cup (IF r = "q" THEN {"x"} ELSE {})]
  /\ IF part = "digests" THEN Hashes!Init ELSE first = <<>> /\ second = <<>> /\ digest = "none"
  /\ ProbeInit
  /\ part # "probes" => domain = "refuses" /\ nonce = [p \in Prober |-> 1]

tierVars == <<vars, restoreVars, rotationVars>>
catalogVars == <<db, lvars, wkvars, publicationVars, jvars>>
formatVars == <<evars, ovars, dvars>>
hostVars == <<imageVars, processVars, probeVars>>

Checkpointing == part = "checkpoint" /\ Next /\ UNCHANGED <<part, restoreVars, rotationVars, catalogVars, formatVars, hostVars>>
Restoring == part = "restore" /\ RestoreNext /\ UNCHANGED <<part, vars, rotationVars, catalogVars, formatVars, hostVars>>
Rotates == part = "rotating" /\ RotationNext /\ UNCHANGED <<part, vars, restoreVars, catalogVars, formatVars, hostVars>>
Indexing == part = "index" /\ Index!Next /\ UNCHANGED <<part, tierVars, lvars, wkvars, publicationVars, jvars, formatVars, hostVars>>
Rebuilding == part = "locations" /\ Locations!Next /\ UNCHANGED <<part, tierVars, db, wkvars, publicationVars, jvars, formatVars, hostVars>>
Mounting == part = "loopback" /\ ImageNext /\ UNCHANGED <<part, tierVars, catalogVars, formatVars, processVars, probeVars>>
Encodes == part = "encoding" /\ Encoding!Next /\ UNCHANGED <<part, tierVars, catalogVars, ovars, dvars, hostVars>>
Diagnosing == part = "doctor" /\ Doctor!Diagnose /\ UNCHANGED <<part, tierVars, catalogVars, evars, dvars, hostVars>>
Processing == part = "processes" /\ ProcessNext /\ UNCHANGED <<part, tierVars, catalogVars, formatVars, imageVars, probeVars>>
Mirroring == part = "mirror" /\ Mirror!MirrorNext /\ UNCHANGED <<part, tierVars, db, lvars, wkvars, publicationVars, formatVars, hostVars>>
Walking == part = "objects" /\ Walks!Next /\ UNCHANGED <<part, tierVars, db, lvars, publicationVars, jvars, formatVars, hostVars>>
Publishing == part = "snapshots" /\ PublicationNext /\ UNCHANGED <<part, tierVars, db, lvars, wkvars, jvars, formatVars, hostVars>>
Digesting == part = "digests" /\ Hashes!Next /\ UNCHANGED <<part, tierVars, catalogVars, evars, ovars, hostVars>>
Probing == part = "probes" /\ ProbeNext /\ UNCHANGED <<part, tierVars, catalogVars, formatVars, imageVars, processVars>>

MCNext ==
  \/ Checkpointing \/ Restoring \/ Rotates \/ Indexing \/ Rebuilding \/ Walking \/ Publishing \/ Mirroring
  \/ Encodes \/ Diagnosing \/ Digesting \/ Mounting \/ Processing \/ Probing
MCSpec == MCInit /\ [][MCNext]_<<part, tierVars, catalogVars, formatVars, hostVars>>

-----------------------------------------------------------------------------
\* Both catalogs do the same with a batch, a deleted repository leaves no snapshot,
\* and an alias is bound to one content (Catalog).
CatalogSound ==
  [](part = "index" => Index!BackendsAgree /\ Index!DeletionComplete) /\ Index!AliasesKept

\* Locations are cleared only after a preflight, what is located or aliased can be
\* read outside a rebuild, and a finished rebuild chose the best location of each
\* object (LocationRebuild).
RebuildSound ==
  /\ [](part = "locations" => Locations!TypeOK /\ Locations!Resolvable /\ Locations!ClearedVetted)
  /\ Locations!RebuiltBest

\* What is written is read back, damage is refused, an accepted form is the only
\* one of its value, and a record read at its location is the object, for every
\* reader (Encodings); authorities with one digest are the same (AuthorityDigest).
FormatsFaithful ==
  /\ part = "encoding" =>
       /\ Encoding!RoundTrip
       /\ Encoding!DamageRefused
       /\ Encoding!Canonical
       /\ Encoding!LocatedRead
       /\ Encoding!PayloadExact
  /\ part = "digests" => Hashes!DigestInjective

\* A supported report leaves nothing out, and the trim estimate is exact to the
\* byte (Diagnostics).
ReportsHonest == part = "doctor" => Doctor!DiagnosticsHonest /\ Doctor!TrimExact

\* The catalog claims no more of a job than its file, and never goes back
\* (JobMirror).
MirrorFollows ==
  [](part = "mirror" => Mirror!MirrorTypeOK /\ Mirror!MirrorNotAhead) /\ Mirror!MirrorForward

\* A Ready snapshot has all its objects, and what was published can be marked, as
\* exactly what is live (ObjectGraph).
WalksExact == part = "objects" =>
  Walks!TypeOK /\ Walks!SnapshotsComplete /\ Walks!PublishedMarkable /\ Walks!MarkSetExact

\* The lowest location of an object is selected, as the preflight's comment says
\* (LocationRebuild).
LowestSelected == part = "locations" => Locations!LowestSelected

\* A deleted repository has no aliases, as the documentation says (Catalog).
DeletionTakesAliases == part = "index" => Index!DeletionTakesAliases

\* A submodule's commit is not a missing object (ObjectGraph).
GitlinksExternal == part = "objects" => Walks!GitlinksExternal
=============================================================================
