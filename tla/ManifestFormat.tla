--------------------------- MODULE ManifestFormat ---------------------------
(***************************************************************************)
(* The manifests kept beside the catalog: of a workspace, of a repository  *)
(* snapshot, of a backup and of a cold-tier checkpoint, and the marker of  *)
(* the loopback image; and the daemon's own records, of jobs, of the scrub *)
(* schedule and of a migration.  The limits are scaled; their order is the *)
(* code's.                                                                 *)
(***************************************************************************)
EXTENDS RecordFormat

CONSTANTS MAX_WORKSPACE_MANIFEST_BYTES, MAX_SNAPSHOT_MANIFEST_BYTES, MAX_JOB_RECORD_LEN, None

WORKSPACE_MANIFEST_MAGIC == 21
SNAPSHOT_MANIFEST_MAGIC == 22
MANIFEST_MAGIC == 23
COLD_DESCRIPTOR_MAGIC == 24
MARKER_MAGIC == 25
VERSION == 1
MAX_NAME == 2              \* bytes of a name, and of a label
MAX_PATH == 3              \* bytes of a path in a backup
MAX_OPTIONAL_FIELDS == 2
MAX_OPTIONAL_FIELD_BYTES == 1
MAX_ENTRIES == 2           \* of a backup manifest or a checkpoint descriptor

Refuse(r) == [r EXCEPT !.ok = FALSE]
Got(r, length, entry) == [at |-> r.at + length, got |-> Append(r.got, entry), ok |-> TRUE]
DistinctTags(fields) == \A i, j \in DOMAIN fields : fields[i].tag = fields[j].tag => i = j
ValidFields(fields) ==
  DistinctTags(fields) /\ \A i \in DOMAIN fields : fields[i].tag # 0 /\ Len(fields[i].value) <= MAX_OPTIONAL_FIELD_BYTES
EncodeFields(fields) == Concat([i \in DOMAIN fields |-> <<fields[i].tag, Len(fields[i].value)>> \o fields[i].value])
ReadField(b, r) ==
  IF Available(b, r.at, 2) /\ b[r.at + 1] <= MAX_OPTIONAL_FIELD_BYTES /\ Available(b, r.at + 2, b[r.at + 1])
  THEN Got(r, 2 + b[r.at + 1], [tag |-> b[r.at], value |-> SubSeq(b, r.at + 2, r.at + 1 + b[r.at + 1])])
  ELSE Refuse(r)

-----------------------------------------------------------------------------
\* Workspace manifest.  The byte 0 stands for one no name may hold.
ValidWorkspaceManifest(m) ==
  /\ Len(m.name) \in 1 .. MAX_NAME /\ \A i \in DOMAIN m.name : m.name[i] # 0
  /\ m.copied + m.reflinked = m.regular + m.executable
  /\ Len(m.optional) <= MAX_OPTIONAL_FIELDS
  /\ ValidFields(m.optional)

LayoutWorkspaceManifest(m) ==
  <<WORKSPACE_MANIFEST_MAGIC, VERSION, m.id, m.snapshot, m.commit.algorithm, Len(m.commit.bytes)>>
    \o m.commit.bytes \o Zeros(2 - Len(m.commit.bytes)) \o <<m.generation, Len(m.name)>> \o m.name
    \o <<m.regular, m.executable, m.reflinked, m.copied, Len(m.optional)>> \o EncodeFields(m.optional)
EncodeWorkspaceManifest(m) ==
  {b \in {LayoutWorkspaceManifest(m)} : ValidWorkspaceManifest(m) /\ Len(b) <= MAX_WORKSPACE_MANIFEST_BYTES}

ReadWorkspaceField(b, r) ==
  IF Available(b, r.at, 2) /\ (b[r.at] = 0 \/ \E i \in DOMAIN r.got : r.got[i].tag = b[r.at])
  THEN Refuse(r) ELSE ReadField(b, r)

\* Fault: bytes after the last field are not looked at.
DecodeWorkspaceManifestOpen(b) ==
  IF ~(Available(b, 1, 10) /\ b[1] = WORKSPACE_MANIFEST_MAGIC /\ b[2] = VERSION /\ b[5] \in {1, 2} /\ b[6] = b[5]
         /\ b[10] <= MAX_NAME /\ Available(b, 11, b[10] + 5)) THEN {}
  ELSE LET c == 11 + b[10]
           fields == ReadEntries(b, c + 5, b[c + 4], ReadWorkspaceField)
       IN {m \in {[id |-> b[3], snapshot |-> b[4], commit |-> [algorithm |-> b[5], bytes |-> SubSeq(b, 7, 6 + b[6])],
                   generation |-> b[9], name |-> SubSeq(b, 11, c - 1), regular |-> b[c], executable |-> b[c + 1],
                   reflinked |-> b[c + 2], copied |-> b[c + 3], optional |-> fields.got]} :
             fields.ok /\ ValidWorkspaceManifest(m)}

DecodeWorkspaceManifest(b) ==
  IF ~(/\ Len(b) <= MAX_WORKSPACE_MANIFEST_BYTES
       /\ Available(b, 1, 10)
       /\ b[1] = WORKSPACE_MANIFEST_MAGIC
       /\ b[2] = VERSION
       /\ b[5] \in {1, 2}
       /\ b[6] = b[5]
       /\ AllZero(SubSeq(b, 7 + b[6], 8))
       /\ b[10] <= MAX_NAME
       /\ Available(b, 11, b[10] + 5)) THEN {}
  ELSE LET c == 11 + b[10]
           fields == ReadEntries(b, c + 5, b[c + 4], ReadWorkspaceField)
       IN {m \in {[id |-> b[3], snapshot |-> b[4], commit |-> [algorithm |-> b[5], bytes |-> SubSeq(b, 7, 6 + b[6])],
                   generation |-> b[9], name |-> SubSeq(b, 11, c - 1), regular |-> b[c], executable |-> b[c + 1],
                   reflinked |-> b[c + 2], copied |-> b[c + 3], optional |-> fields.got]} :
             /\ b[c + 4] <= MAX_OPTIONAL_FIELDS
             /\ fields.ok
             /\ fields.at = Len(b) + 1
             /\ ValidWorkspaceManifest(m)}

-----------------------------------------------------------------------------
\* Snapshot manifest.  A ref name starts with its namespace, whose first byte
\* is written as the kind: refs/heads before refs/tags.
ValidSnapshotManifest(m) ==
  /\ m.tool # <<>> /\ Len(m.tool) <= MAX_NAME
  /\ m.written + m.deduplicated = m.seen
  /\ \A i \in DOMAIN m.refs :
       /\ Len(m.refs[i].name) \in 1 .. MAX_NAME
       /\ m.refs[i].target.algorithm = m.format
       /\ m.refs[i].name[1] = m.refs[i].kind
       /\ i > 1 => Before(m.refs[i - 1].name, m.refs[i].name)
  /\ ValidFields(m.optional)

EncodeRef(f) == <<f.kind, Len(f.name)>> \o f.name \o <<f.target.algorithm, Len(f.target.bytes)>> \o f.target.bytes
LayoutSnapshotManifest(m) ==
  <<SNAPSHOT_MANIFEST_MAGIC, VERSION, m.repository, m.id, m.format, 1, 0, m.seen, m.written, m.deduplicated,
    Len(m.tool), Len(m.refs), Len(m.optional)>> \o m.tool
    \o Concat([i \in DOMAIN m.refs |-> EncodeRef(m.refs[i])]) \o EncodeFields(m.optional)
EncodeSnapshotManifest(m) ==
  {b \in {LayoutSnapshotManifest(m)} : ValidSnapshotManifest(m) /\ Len(b) <= MAX_SNAPSHOT_MANIFEST_BYTES}

ReadRef(b, r) ==
  IF ~(Available(b, r.at, 2) /\ b[r.at] \in {1, 2} /\ b[r.at + 1] <= MAX_NAME /\ Available(b, r.at + 2, b[r.at + 1] + 2))
  THEN Refuse(r)
  ELSE LET o == r.at + 2 + b[r.at + 1] IN
       IF b[o] \in {1, 2} /\ b[o + 1] = b[o] /\ Available(b, o + 2, b[o + 1])
       THEN Got(r, o + 2 + b[o + 1] - r.at,
                [kind |-> b[r.at], name |-> SubSeq(b, r.at + 2, o - 1),
                 target |-> [algorithm |-> b[o], bytes |-> SubSeq(b, o + 2, o + 1 + b[o + 1])]])
       ELSE Refuse(r)

MIN_REF_ENTRY == 5
MIN_FIELD == 2
DecodeSnapshotManifest(b) ==
  IF ~(/\ Len(b) <= MAX_SNAPSHOT_MANIFEST_BYTES
       /\ Available(b, 1, 13)
       /\ b[1] = SNAPSHOT_MANIFEST_MAGIC
       /\ b[2] = VERSION
       /\ b[5] \in {1, 2}
       /\ b[6] = 1
       /\ b[7] = 0
       /\ b[11] <= MAX_NAME
       /\ Available(b, 14, b[11])
       /\ b[12] <= (Len(b) - 13 - b[11]) \div MIN_REF_ENTRY) THEN {}
  ELSE LET refs == ReadEntries(b, 14 + b[11], b[12], ReadRef)
           fields == ReadEntries(b, refs.at, b[13], ReadField)
       IN {m \in {[repository |-> b[3], id |-> b[4], format |-> b[5], seen |-> b[8], written |-> b[9],
                   deduplicated |-> b[10], tool |-> SubSeq(b, 14, 13 + b[11]), refs |-> refs.got,
                   optional |-> fields.got]} :
             /\ refs.ok
             /\ b[13] <= (Len(b) + 1 - refs.at) \div MIN_FIELD
             /\ fields.ok
             /\ fields.at = Len(b) + 1
             /\ ValidSnapshotManifest(m)}

-----------------------------------------------------------------------------
\* Backup manifest.  In a path 0 is NUL, 1 is ".", 2 is "/", 3 a letter.
ValidatePathBytes(p) ==
  LET components == {<<i, j>> \in (1 .. Len(p)) \X (1 .. Len(p)) :
                       /\ i <= j /\ \A k \in i .. j : p[k] # 2
                       /\ i = 1 \/ p[i - 1] = 2
                       /\ j = Len(p) \/ p[j + 1] = 2}
  IN /\ p # <<>> /\ Len(p) <= MAX_PATH
     /\ \A i \in DOMAIN p : p[i] # 0
     /\ p[1] # 2 /\ p[Len(p)] # 2
     /\ \A i \in 1 .. Len(p) - 1 : ~(p[i] = 2 /\ p[i + 1] = 2)
     /\ \A c \in components : SubSeq(p, c[1], c[2]) \notin {<<1>>, <<1, 1>>}

ValidBackupFiles(files) == \A i \in DOMAIN files :
  ValidatePathBytes(files[i].path) /\ (i > 1 => Before(files[i - 1].path, files[i].path))

LayoutBackupManifest(files) ==
  LET payload == <<MANIFEST_MAGIC, Len(files)>>
                   \o Concat([i \in DOMAIN files |-> <<Len(files[i].path)>> \o files[i].path
                                                       \o <<files[i].bytes, files[i].sha256>>])
  IN Append(payload, Checksum(payload))
EncodeBackupManifest(files) ==
  {b \in {LayoutBackupManifest(files)} : Len(files) <= MAX_ENTRIES /\ ValidBackupFiles(files)}

ReadBackupFile(b, r) ==
  IF ~(Available(b, r.at, 1) /\ b[r.at] <= MAX_PATH /\ Available(b, r.at + 1, b[r.at] + 2)) THEN Refuse(r)
  ELSE LET end == r.at + b[r.at] IN
       Got(r, b[r.at] + 3, [path |-> SubSeq(b, r.at + 1, end), bytes |-> b[end + 1], sha256 |-> b[end + 2]])

\* Fault: the order of the paths is left to the writer.
DecodeBackupManifestUnordered(b) ==
  IF ~(Len(b) >= 3 /\ b[Len(b)] = Checksum(SubSeq(b, 1, Len(b) - 1)) /\ b[1] = MANIFEST_MAGIC) THEN {}
  ELSE LET p == SubSeq(b, 1, Len(b) - 1)
           files == ReadEntries(p, 3, b[2], ReadBackupFile)
       IN {f \in {files.got} : files.ok /\ files.at = Len(p) + 1}

DecodeBackupManifest(b) ==
  IF ~(/\ Len(b) >= 3
       /\ b[Len(b)] = Checksum(SubSeq(b, 1, Len(b) - 1))
       /\ b[1] = MANIFEST_MAGIC
       /\ b[2] <= MAX_ENTRIES
       /\ b[2] <= (Len(b) - 3) \div 4) THEN {}
  ELSE LET p == SubSeq(b, 1, Len(b) - 1)
           files == ReadEntries(p, 3, b[2], ReadBackupFile)
       IN {f \in {files.got} : files.ok /\ files.at = Len(p) + 1 /\ ValidBackupFiles(f)}

-----------------------------------------------------------------------------
\* Cold-tier checkpoint descriptor.  A chunk file holds at least its header.
ValidColdDescriptor(d) ==
  /\ Len(d.chunks) <= MAX_ENTRIES
  /\ \A i \in DOMAIN d.chunks :
       /\ d.chunks[i].valid_prefix >= 1
       /\ i > 1 => Before(<<d.chunks[i - 1].generation, d.chunks[i - 1].chunk_id>>,
                          <<d.chunks[i].generation, d.chunks[i].chunk_id>>)

LayoutColdDescriptor(d) ==
  LET c == d.chunks
      payload == <<COLD_DESCRIPTOR_MAGIC, VERSION, d.schema, d.active, Len(c)>>
                   \o Concat([i \in DOMAIN c |-> <<c[i].generation, c[i].chunk_id, c[i].class, 0, c[i].valid_prefix>>])
                   \o d.digests
  IN Append(payload, Checksum(payload))
EncodeColdDescriptor(d) == {b \in {LayoutColdDescriptor(d)} : ValidColdDescriptor(d)}

\* Open is 1, Sealed is 2.
ReadColdChunk(b, r) ==
  IF b[r.at + 2] \in {1, 2} /\ b[r.at + 3] = 0
  THEN Got(r, 5, [generation |-> b[r.at], chunk_id |-> b[r.at + 1], class |-> b[r.at + 2], valid_prefix |-> b[r.at + 4]])
  ELSE Refuse(r)

DecodeColdDescriptor(b) ==
  IF ~(/\ Len(b) >= 9
       /\ b[Len(b)] = Checksum(SubSeq(b, 1, Len(b) - 1))
       /\ b[1] = COLD_DESCRIPTOR_MAGIC
       /\ b[2] = VERSION
       /\ b[5] <= MAX_ENTRIES
       /\ Len(b) = 5 + 5 * b[5] + 3 + 1) THEN {}
  ELSE LET chunks == ReadEntries(b, 6, b[5], ReadColdChunk)
       IN {d \in {[schema |-> b[3], active |-> b[4], chunks |-> chunks.got,
                   digests |-> SubSeq(b, Len(b) - 3, Len(b) - 1)]} : chunks.ok /\ ValidColdDescriptor(d)}

-----------------------------------------------------------------------------
\* Instance marker.  The byte 0 stands for NUL and line ends, 4 for one that
\* is no UTF-8.
ValidateBtrfsLabel(l) == Len(l) \in 1 .. MAX_NAME /\ \A i \in DOMAIN l : l[i] # 0

LayoutInstanceMarker(m) == <<MARKER_MAGIC, VERSION, m.instance, m.filesystem, Len(m.label)>> \o m.label
WriteInstanceMarker(m) == {b \in {LayoutInstanceMarker(m)} : ValidateBtrfsLabel(m.label)}

ReadInstanceMarker(b) ==
  IF Len(b) >= 5 /\ b[1] = MARKER_MAGIC /\ b[2] = VERSION /\ Len(b) = 5 + b[5]
  THEN {m \in {[instance |-> b[3], filesystem |-> b[4], label |-> From(b, 6)]} :
          m.label # <<>> /\ \A i \in DOMAIN m.label : m.label[i] # 4}
  ELSE {}

-----------------------------------------------------------------------------
(* The daemon's records.  A job has a checksum for the header and one for  *)
(* the body.                                                               *)

RECORD_VERSION == 1
JOB_RECORD_MAGIC == 31
SCRUB_RECORD_MAGIC == 32
MIGRATION_RECORD_MAGIC == 33
JOB_HEADER_LEN == 9
JOB_TRAILER_LEN == 1
SCRUB_RECORD_LEN == 13
MIGRATION_RECORD_LEN == 10
SCRUB_FLAG_LAST_STARTED == 1
SCRUB_FLAG_LAST_COMPLETED == 2
MAX_CONSECUTIVE_SCRUB_FAILURES == 2

\* Queued 1, Running 2, Succeeded 3, Failed 4.  A job without an error has
\* last_error = <<>>, as an empty one is not valid.
ValidJob(j) ==
  /\ j.kind # <<>>
  /\ j.state # 1 => j.attempts # 0
  /\ j.state = 3 => j.last_error = <<>>
  /\ j.state = 4 => j.last_error # <<>>

LayoutJobRecord(j) ==
  LET header == <<RECORD_VERSION, j.state, JOB_RECORD_MAGIC, j.id, j.attempts,
                  Len(j.kind), Len(j.payload), Len(j.last_error)>>
      body == j.kind \o j.payload \o j.last_error
  IN Append(header, Checksum(header)) \o Append(body, Checksum(body))
EncodeJobRecord(j) == {b \in {LayoutJobRecord(j)} : ValidJob(j) /\ Len(b) <= MAX_JOB_RECORD_LEN}

\* Fault: only the header's checksum is compared.
DecodeJobRecordHeaderOnly(b) ==
  IF ~(/\ Len(b) >= JOB_HEADER_LEN + JOB_TRAILER_LEN /\ Len(b) <= MAX_JOB_RECORD_LEN
       /\ b[1] = RECORD_VERSION /\ b[3] = JOB_RECORD_MAGIC /\ b[9] = Checksum(SubSeq(b, 1, 8))
       /\ b[2] \in 1 .. 4 /\ Len(b) = JOB_HEADER_LEN + b[6] + b[7] + b[8] + JOB_TRAILER_LEN) THEN {}
  ELSE LET payload == JOB_HEADER_LEN + b[6]
           error == payload + b[7]
       IN {j \in {[id |-> b[4], state |-> b[2], attempts |-> b[5], kind |-> SubSeq(b, JOB_HEADER_LEN + 1, payload),
                   payload |-> SubSeq(b, payload + 1, error), last_error |-> SubSeq(b, error + 1, Len(b) - 1)]} :
             ValidJob(j)}

DecodeJobRecord(b) ==
  IF ~(/\ Len(b) >= JOB_HEADER_LEN + JOB_TRAILER_LEN
       /\ Len(b) <= MAX_JOB_RECORD_LEN
       /\ b[1] = RECORD_VERSION
       /\ b[3] = JOB_RECORD_MAGIC
       /\ b[9] = Checksum(SubSeq(b, 1, 8))
       /\ b[2] \in 1 .. 4
       /\ Len(b) = JOB_HEADER_LEN + b[6] + b[7] + b[8] + JOB_TRAILER_LEN
       /\ b[Len(b)] = Checksum(SubSeq(b, JOB_HEADER_LEN + 1, Len(b) - JOB_TRAILER_LEN))) THEN {}
  ELSE LET payload == JOB_HEADER_LEN + b[6]
           error == payload + b[7]
       IN {j \in {[id |-> b[4], state |-> b[2], attempts |-> b[5], kind |-> SubSeq(b, JOB_HEADER_LEN + 1, payload),
                   payload |-> SubSeq(b, payload + 1, error), last_error |-> SubSeq(b, error + 1, Len(b) - 1)]} :
             ValidJob(j)}

\* A scrub schedule.  A time that is absent is written as 0 without its flag.
ValidScrub(s) ==
  /\ s.interval \in 1 .. 2
  /\ s.run_state = 2 => s.last_started # None
  /\ s.failures <= MAX_CONSECUTIVE_SCRUB_FAILURES
Flags(s) == (IF s.last_started = None THEN 0 ELSE SCRUB_FLAG_LAST_STARTED)
              + (IF s.last_completed = None THEN 0 ELSE SCRUB_FLAG_LAST_COMPLETED)
OrZero(t) == IF t = None THEN 0 ELSE t

LayoutScrub(s) ==
  LET body == <<RECORD_VERSION, s.run_state, Flags(s), 0, SCRUB_RECORD_MAGIC, s.interval, s.next_due,
                OrZero(s.last_started), OrZero(s.last_completed), s.failures, s.recovered, 0>>
  IN Append(body, Checksum(body))
EncodeScrub(s) == {b \in {LayoutScrub(s)} : ValidScrub(s)}

\* The unused bytes before the checksum are covered by it and not read.
DecodeScrub(b) ==
  IF ~(/\ Len(b) = SCRUB_RECORD_LEN
       /\ b[1] = RECORD_VERSION
       /\ b[4] = 0 /\ b[5] = SCRUB_RECORD_MAGIC
       /\ b[3] \in 0 .. 3
       /\ b[13] = Checksum(SubSeq(b, 1, 12))
       /\ b[2] \in {1, 2}) THEN {}
  ELSE {s \in {[run_state |-> b[2], interval |-> b[6], next_due |-> b[7],
                last_started |-> IF b[3] % 2 = 1 THEN b[8] ELSE None,
                last_completed |-> IF b[3] \div 2 = 1 THEN b[9] ELSE None,
                failures |-> b[10], recovered |-> b[11]]} :
          /\ s.last_started = None => b[8] = 0
          /\ s.last_completed = None => b[9] = 0
          /\ ValidScrub(s)}

\* A migration: Copying 1, Validating 2, Published 3.
ValidMigration(r) == r.from # 0 /\ r.to > r.from /\ r.count # 0

LayoutMigration(r) ==
  LET body == <<RECORD_VERSION, r.state, 0, MIGRATION_RECORD_MAGIC, r.from, r.to, r.id, r.count, 0>>
  IN Append(body, Checksum(body))
EncodeMigration(r) == {b \in {LayoutMigration(r)} : ValidMigration(r)}
DecodeMigration(b) ==
  IF ~(/\ Len(b) = MIGRATION_RECORD_LEN
       /\ b[1] = RECORD_VERSION
       /\ b[3] = 0 /\ b[4] = MIGRATION_RECORD_MAGIC
       /\ b[9] = 0
       /\ b[10] = Checksum(SubSeq(b, 1, 9))
       /\ b[2] \in 1 .. 3) THEN {}
  ELSE {r \in {[id |-> b[7], from |-> b[5], to |-> b[6], state |-> b[2], count |-> b[8]]} : ValidMigration(r)}
=============================================================================
