----------------------------- MODULE Encodings -----------------------------
(***************************************************************************)
(* One record of one of the program's formats is written, perhaps changed  *)
(* while it lies on disk, and read back.  A change is a field overwritten, *)
(* the end cut off or more appended, or a field overwritten and all the    *)
(* checksums made to fit, as another version of the program might do.      *)
(***************************************************************************)
EXTENDS ManifestFormat

CONSTANTS Format,  \* the formats in use
          Digit    \* what a changed field may hold

VARIABLES format, value, bytes, change
vars == <<format, value, bytes, change>>

\* A file is a chunk file with one record, read through the catalog; a
\* payload is the stored form of an object, read with its record's metadata.
RecordOf(v) ==
  [kind |-> v.kind, codec |-> v.codec, flags |-> 0, raw_length |-> Len(v.raw),
   content_id |-> ContentId(v.kind, v.raw), primary_oid |-> v.oid, payload |-> EncodeObjectPayload(v.codec, v.raw)]
LocationOf(v) ==
  LET r == RecordOf(v) IN
  [generation |-> v.header.generation, chunk_id |-> v.header.chunk_id, offset |-> CHUNK_HEADER_LEN,
   record_length |-> Len(EncodeRecord(r)), stored_length |-> Len(r.payload), raw_length |-> Len(v.raw),
   kind |-> v.kind, codec |-> v.codec, flags |-> 0, payload_crc32c |-> Checksum(r.payload)]

Oids == {[algorithm |-> 1, bytes |-> <<3>>], [algorithm |-> 2, bytes |-> <<3, 0>>]}
Fields == {<<>>, <<[tag |-> 1, value |-> <<>>]>>, <<[tag |-> 2, value |-> <<3>>], [tag |-> 1, value |-> <<0>>]>>}

\* The values written, of every format.
Values(f) ==
  CASE f \in {"file", "payload"} ->
         [header : [generation : {1, 2}, chunk_id : {1}, created : {1}, flags : {0}], kind : {1, 3}, codec : Codec,
          raw : {<<>>, <<1>>, <<2, 0>>}, oid : Oids]
    [] f = "chunk_header" -> [generation : {1, 2}, chunk_id : {0, 3}, created : {1}, flags : {0}]
    [] f = "sealed_footer" -> [record_count : {0, 2}, final_length : {3}, records_crc32c : {1}]
    [] f = "object_location" ->
         [generation : {0, 1}, chunk_id : {2}, offset : {3}, record_length : {4}, stored_length : {1},
          raw_length : {0}, kind : ObjectKind, codec : Codec, flags : {0}, payload_crc32c : {5}]
    [] f = "oid_alias_key" -> [repo : {<<0, 1>>, <<1, 1>>}, oid : Oids]
    [] f = "repo_snapshot_key" -> [repo : {<<0, 1>>, <<1, 1>>}, snapshot : {<<1, 0>>}]
    [] f = "snapshot_visibility" -> {1, 2}
    [] f = "chunk_key" -> [generation : {0, 2}, chunk_id : {1}]
    [] f = "chunk" -> [state : {1, 2, 3}, size : {0, 4}, record_count : {1}]
    [] f = "opaque_key" -> {<<>>, <<1>>, <<0, 2>>}
    [] f = "current_generation" -> {0, 1}
    [] f = "pin_key" -> [pin : {"workspace", "explicit"}, id : {<<1, 1>>, <<1, 0>>, <<0, 1>>}]
    [] f = "workspace_manifest" ->
         [id : {1}, snapshot : {2}, commit : Oids, generation : {0}, name : {<<1>>, <<2, 1>>}, regular : {1},
          executable : {1}, reflinked : {1, 2}, copied : {0, 1}, optional : Fields]
    [] f = "snapshot_manifest" ->
         [repository : {1}, id : {2}, format : {1, 2}, seen : {2}, written : {1}, deduplicated : {1, 2}, tool : {<<5>>},
          refs : {<<>>} \cup {<<[kind |-> 1, name |-> <<1, 3>>, target |-> o],
                               [kind |-> k, name |-> <<2>>, target |-> o]>> : o \in Oids, k \in {1, 2}},
          optional : Fields]
    [] f = "backup_manifest" ->
         {<<>>} \cup {<<[path |-> <<1, 3>>, bytes |-> 0, sha256 |-> 1], [path |-> p, bytes |-> 2, sha256 |-> 5]>> :
                        p \in {<<3, 2, 3>>, <<1, 1>>, <<3>>}}
    [] f = "cold_descriptor" ->
         [schema : {1}, active : {2}, digests : {<<3, 4, 5>>},
          chunks : {<<>>} \cup {<<[generation |-> 1, chunk_id |-> 2, class |-> 2, valid_prefix |-> 3],
                                 [generation |-> g, chunk_id |-> 1, class |-> 1, valid_prefix |-> n]>> :
                                  g \in {1, 2}, n \in {0, 1}}]
    [] f = "instance_marker" -> [instance : {1}, filesystem : {2}, label : {<<>>, <<1>>, <<3, 0>>, <<2, 3>>}]
    [] f = "job" -> [id : {2}, state : 1 .. 4, attempts : {0, 1}, kind : {<<>>, <<1, 3>>}, payload : {<<>>, <<0>>},
                     last_error : {<<>>, <<4>>}]
    [] f = "scrub" -> [run_state : {1, 2}, interval : {0, 1}, next_due : {3}, last_started : {None, 0, 2},
                       last_completed : {None, 1}, failures : {0, 3}, recovered : {0}]
    [] f = "migration" -> [id : {4}, from : {0, 1}, to : {1, 2}, state : 1 .. 3, count : {0, 1}]

\* What is written of a value: the bytes themselves ...
Layout(f, v) ==
  CASE f = "file" -> EncodeChunkHeader(v.header) \o EncodeRecord(RecordOf(v))
    [] f = "payload" -> EncodeObjectPayload(v.codec, v.raw)
    [] f = "chunk_header" -> EncodeChunkHeader(v)
    [] f = "sealed_footer" -> EncodeSealedFooter(v)
    [] f = "object_location" -> EncodeObjectLocationValue(v)
    [] f = "oid_alias_key" -> EncodeOidAliasKey(v)
    [] f = "repo_snapshot_key" -> EncodeRepositorySnapshotKey(v)
    [] f = "snapshot_visibility" -> EncodeSnapshotVisibilityValue(v)
    [] f = "chunk_key" -> EncodeChunkKey(v)
    [] f = "chunk" -> EncodeChunkValue(v)
    [] f = "opaque_key" -> EncodeOpaqueKey(v)
    [] f = "current_generation" -> EncodeCurrentGenerationValue(v)
    [] f = "pin_key" -> EncodePinKey(v)
    [] f = "workspace_manifest" -> LayoutWorkspaceManifest(v)
    [] f = "snapshot_manifest" -> LayoutSnapshotManifest(v)
    [] f = "backup_manifest" -> LayoutBackupManifest(v)
    [] f = "cold_descriptor" -> LayoutColdDescriptor(v)
    [] f = "instance_marker" -> LayoutInstanceMarker(v)
    [] f = "job" -> LayoutJobRecord(v)
    [] f = "scrub" -> LayoutScrub(v)
    [] f = "migration" -> LayoutMigration(v)

\* ... unless its encoder refuses the value.
Encode(f, v) ==
  CASE f = "workspace_manifest" -> EncodeWorkspaceManifest(v)
    [] f = "snapshot_manifest" -> EncodeSnapshotManifest(v)
    [] f = "backup_manifest" -> EncodeBackupManifest(v)
    [] f = "cold_descriptor" -> EncodeColdDescriptor(v)
    [] f = "instance_marker" -> WriteInstanceMarker(v)
    [] f = "job" -> EncodeJobRecord(v)
    [] f = "scrub" -> EncodeScrub(v)
    [] f = "migration" -> EncodeMigration(v)
    [] OTHER -> {Layout(f, v)}

Decode(f, b) ==
  CASE f = "chunk_header" -> DecodeChunkHeader(b)
    [] f = "sealed_footer" -> DecodeSealedFooter(b)
    [] f = "object_location" -> DecodeObjectLocationValue(b)
    [] f = "oid_alias_key" -> DecodeOidAliasKey(b)
    [] f = "repo_snapshot_key" -> DecodeRepositorySnapshotKey(b)
    [] f = "snapshot_visibility" -> DecodeSnapshotVisibilityValue(b)
    [] f = "chunk_key" -> DecodeChunkKey(b)
    [] f = "chunk" -> DecodeChunkValue(b)
    [] f = "opaque_key" -> DecodeOpaqueKey(b)
    [] f = "current_generation" -> DecodeCurrentGenerationValue(b)
    [] f = "pin_key" -> DecodePinKey(b)
    [] f = "workspace_manifest" -> DecodeWorkspaceManifest(b)
    [] f = "snapshot_manifest" -> DecodeSnapshotManifest(b)
    [] f = "backup_manifest" -> DecodeBackupManifest(b)
    [] f = "cold_descriptor" -> DecodeColdDescriptor(b)
    [] f = "instance_marker" -> ReadInstanceMarker(b)
    [] f = "job" -> DecodeJobRecord(b)
    [] f = "scrub" -> DecodeScrub(b)
    [] f = "migration" -> DecodeMigration(b)

\* Where a format keeps checksums, and of which fields; 0 is the last field.
Sums(f, v) ==
  CASE f = "chunk_header" -> {[at |-> CHUNK_CRC_OFFSET, from |-> 1, to |-> CHUNK_HEADER_LEN]}
    [] f = "sealed_footer" -> {[at |-> SEALED_CHUNK_FOOTER_CRC_OFFSET, from |-> 1, to |-> SEALED_CHUNK_FOOTER_LEN]}
    [] f = "file" ->
         LET start == CHUNK_HEADER_LEN + RECORD_HEADER_LEN
             end == start + Len(RecordOf(v).payload)
         IN {[at |-> CHUNK_CRC_OFFSET, from |-> 1, to |-> CHUNK_HEADER_LEN],
             [at |-> CHUNK_HEADER_LEN + RECORD_CRC_OFFSET, from |-> CHUNK_HEADER_LEN + 1, to |-> start],
             [at |-> end + 1, from |-> start + 1, to |-> end]}
    [] f = "job" -> {[at |-> JOB_HEADER_LEN, from |-> 1, to |-> JOB_HEADER_LEN - 1],
                     [at |-> Len(Layout(f, v)), from |-> JOB_HEADER_LEN + 1, to |-> Len(Layout(f, v)) - 1]}
    [] f \in {"scrub", "migration", "backup_manifest", "cold_descriptor"} ->
         {[at |-> Len(Layout(f, v)), from |-> 1, to |-> Len(Layout(f, v)) - 1]}
    [] OTHER -> {}
Fitted(b, sums) == [i \in DOMAIN b |->
  LET s == {t \in sums : t.at = i} IN
  IF s = {} THEN b[i]
  ELSE LET t == CHOOSE t \in s : TRUE IN
       Checksum(IF t.at \in t.from .. t.to THEN WithZeroedField(SubSeq(b, t.from, t.to), t.at - t.from + 1)
                ELSE SubSeq(b, t.from, t.to))]

-----------------------------------------------------------------------------
Init == format \in Format /\ value \in Values(format) /\ bytes = <<>> /\ change = "unwritten"

Changed(b, kind) == bytes' = b /\ change' = kind /\ UNCHANGED <<format, value>>
Write == change = "unwritten" /\ \E b \in Encode(format, value) : Changed(b, "none")
Overwrite == \E i \in DOMAIN bytes, d \in Digit :
  change = "none" /\ d # bytes[i] /\ Changed([bytes EXCEPT ![i] = d], "overwritten")
Revise == \E i \in DOMAIN bytes, d \in Digit :
  /\ change = "none"
  /\ d # bytes[i]
  /\ Changed(Fitted([bytes EXCEPT ![i] = d], Sums(format, value)), "revised")
Cut == \E n \in 0 .. Len(bytes) - 1 : change = "none" /\ Changed(SubSeq(bytes, 1, n), "cut")
Extend == \E d \in Digit : change = "none" /\ Changed(Append(bytes, d), "extended")

Next == Write \/ Overwrite \/ Revise \/ Cut \/ Extend
Spec == Init /\ [][Next]_vars

-----------------------------------------------------------------------------
Whole == format \notin {"file", "payload"} /\ change # "unwritten"

\* What an encoder accepts its decoder reads back, and as nothing else: in
\* particular the two kinds of pin in one column family are told apart.
RoundTrip == Whole /\ change = "none" => Decode(format, bytes) = {value}

\* A record with a checksum that was overwritten, cut or extended is refused
\* or read as what was written: no torn or damaged record becomes another.
DamageRefused == Whole /\ Sums(format, value) # {} /\ change # "revised" => Decode(format, bytes) \subseteq {value}

\* Whatever a decoder accepts its encoder accepts, and in one form only: written
\* again the value gives the same bytes, so that nothing is lost, or refused,
\* when a record is rewritten; but the reader of the instance marker takes any
\* label.  The two headers take a prefix, and the unused field of the
\* scrub schedule is the one field no decoder looks at.
Canonical == Whole => \A v \in Decode(format, bytes) :
  LET b == Layout(format, v) IN
  /\ format # "instance_marker" => Encode(format, v) # {}
  /\ Len(b) <= Len(bytes)
  /\ format \notin {"chunk_header", "sealed_footer"} => Len(b) = Len(bytes)
  /\ \A i \in DOMAIN b : b[i] = bytes[i] \/ (format = "scrub" /\ i >= SCRUB_RECORD_LEN - 1)

\* Read at its location of the catalog, a record gives the bytes of the
\* object or nothing, even where all its own checksums were made to fit; and
\* the buffering and the streaming readers accept the same records, but for
\* the longest record the first takes.
LocatedRead == format = "file" /\ change # "unwritten" =>
  LET l == LocationOf(value) IN
  /\ StreamDecodedRecordAt(bytes, l) \subseteq {value.raw}
  /\ change = "none" => StreamDecodedRecordAt(bytes, l) = {value.raw}
  /\ l.record_length <= MAX_RECOVERY_RECORD_BYTES =>
       UNION {DecodeObjectPayload(r, r.payload) : r \in ReadRecordAt(bytes, l)} = StreamDecodedRecordAt(bytes, l)
  /\ ReadRecordAt(bytes, l) \subseteq StreamRecordAt(bytes, l)

\* A stored payload decodes to the object its record names, and any other
\* payload, one with a second frame included, is refused.
PayloadExact == format = "payload" /\ change # "unwritten" =>
  DecodeObjectPayload(RecordOf(value), bytes) = IF bytes = Layout(format, value) THEN {value.raw} ELSE {}
=============================================================================
