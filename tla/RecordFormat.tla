---------------------------- MODULE RecordFormat ----------------------------
(***************************************************************************)
(* The formats of the cold tier.  Chunk files: the chunk header, the       *)
(* object records with their padding and footers, the footer of a sealed   *)
(* chunk, the two payload codecs, and the three readers that fetch one     *)
(* record at a location of the catalog.  The catalog: the keys and values  *)
(* of its column families.                                                 *)
(*                                                                         *)
(* Byte strings are modelled at the scale of fields: a field of a fixed    *)
(* width is one number, whatever its width in bytes, and a field of        *)
(* variable length is one number per byte.  A decoder returns the set of   *)
(* the values it reads, empty when it refuses its input.                   *)
(***************************************************************************)
EXTENDS Integers, Sequences, SequencesExt

CONSTANTS MAX_RECOVERY_RECORD_BYTES  \* the longest record read_record_at takes

-----------------------------------------------------------------------------
(* Byte strings, in every format.                                          *)

Zeros(n) == [i \in 1 .. n |-> 0]
AllZero(s) == \A i \in DOMAIN s : s[i] = 0
From(s, i) == SubSeq(s, i, Len(s))

\* CRC-32C and SHA-256: what the decoders rely on is that no change of one
\* field keeps the checksum, which a polynomial over a prime field also gives.
Checksum(s) == FoldLeft(LAMBDA a, d : (a * 101 + d + 1) % 10007, 1, s)
WithZeroedField(s, i) == [s EXCEPT ![i] = 0]
WithChecksum(s, i) == [s EXCEPT ![i] = Checksum(WithZeroedField(s, i))]

\* The order of byte strings
Before(s, t) == \E n \in 0 .. Len(s) :
  /\ n < Len(t)
  /\ SubSeq(s, 1, n) = SubSeq(t, 1, n)
  /\ n = Len(s) \/ s[n + 1] < t[n + 1]

\* Of a list of entries: <<e1, e2>> |-> the bytes of e1 and then of e2.
Concat(ss) == FoldLeft(\o, <<>>, ss)

\* A reader of n entries, each by Step, from a reader state [at, got, ok].
Reader(at) == [at |-> at, got |-> <<>>, ok |-> TRUE]
ReadEntries(b, start, n, Step(_, _)) ==
  FoldLeft(LAMBDA r, i : IF r.ok THEN Step(b, r) ELSE r, Reader(start), [i \in 1 .. n |-> i])
\* take(length): nothing past the end of the input is read
Available(b, at, n) == at + n - 1 <= Len(b)

-----------------------------------------------------------------------------
(* Chunk files.                                                            *)

FORMAT_VERSION == 1
CHUNK_MAGIC == 11
SEALED_CHUNK_FOOTER_MAGIC == 12
RECORD_MAGIC == 13
RECORD_END_MAGIC == 14
ZSTD_FRAME == 15
CHUNK_HEADER_LEN == 9
SEALED_CHUNK_FOOTER_LEN == 8
RECORD_HEADER_LEN == 15
RECORD_FOOTER_LEN == 3
RECORD_ALIGNMENT == 4
CHUNK_CRC_OFFSET == 8
SEALED_CHUNK_FOOTER_CRC_OFFSET == 7
RECORD_CRC_OFFSET == 14

ObjectKind == 1 .. 4
Codec == {0, 1}          \* Raw, Zstd
OidLen(algorithm) == algorithm  \* Sha1 is the shorter

Align(n) == ((n + RECORD_ALIGNMENT - 1) \div RECORD_ALIGNMENT) * RECORD_ALIGNMENT

\* What every fixed header is checked for, in this order.
HeaderValid(b, magic, len, crc) ==
  /\ Len(b) >= len
  /\ b[1] = magic
  /\ b[2] = FORMAT_VERSION
  /\ b[3] = len
  /\ b[crc] = Checksum(WithZeroedField(SubSeq(b, 1, len), crc))
  /\ AllZero(SubSeq(b, crc + 1, len))

EncodeChunkHeader(h) ==
  WithChecksum(<<CHUNK_MAGIC, FORMAT_VERSION, CHUNK_HEADER_LEN, h.generation, h.chunk_id, h.created, h.flags, 0, 0>>,
               CHUNK_CRC_OFFSET)
DecodeChunkHeader(b) ==
  IF HeaderValid(b, CHUNK_MAGIC, CHUNK_HEADER_LEN, CHUNK_CRC_OFFSET)
  THEN {[generation |-> b[4], chunk_id |-> b[5], created |-> b[6], flags |-> b[7]]} ELSE {}

EncodeSealedFooter(f) ==
  WithChecksum(<<SEALED_CHUNK_FOOTER_MAGIC, FORMAT_VERSION, SEALED_CHUNK_FOOTER_LEN,
                 f.record_count, f.final_length, f.records_crc32c, 0, 0>>, SEALED_CHUNK_FOOTER_CRC_OFFSET)
DecodeSealedFooter(b) ==
  IF HeaderValid(b, SEALED_CHUNK_FOOTER_MAGIC, SEALED_CHUNK_FOOTER_LEN, SEALED_CHUNK_FOOTER_CRC_OFFSET)
  THEN {[record_count |-> b[4], final_length |-> b[5], records_crc32c |-> b[6]]} ELSE {}

\* An object ID in its fixed field: algorithm, length, bytes, zeros.
EncodeOidFixed(oid) == <<oid.algorithm, Len(oid.bytes)>> \o oid.bytes \o Zeros(2 - Len(oid.bytes))
DecodeOidFixed(b) ==
  IF b[1] \in {1, 2} /\ b[2] = OidLen(b[1]) /\ AllZero(From(b, 3 + b[2]))
  THEN {[algorithm |-> b[1], bytes |-> SubSeq(b, 3, 2 + b[2])]} ELSE {}

\* r: kind, codec, flags, raw_length, content_id, primary_oid, payload
EncodeRecord(r) ==
  LET stored == Len(r.payload)
      total == RECORD_HEADER_LEN + stored + RECORD_FOOTER_LEN
      header == <<RECORD_MAGIC, FORMAT_VERSION, RECORD_HEADER_LEN, r.kind, r.codec, r.flags, r.raw_length, stored,
                  r.content_id>> \o EncodeOidFixed(r.primary_oid) \o <<0, 0>>
  IN WithChecksum(header, RECORD_CRC_OFFSET) \o r.payload
       \o <<Checksum(r.payload), total, RECORD_END_MAGIC>> \o Zeros(Align(total) - total)

DecodeRecordMetadata(b) ==
  IF /\ HeaderValid(b, RECORD_MAGIC, RECORD_HEADER_LEN, RECORD_CRC_OFFSET)
     /\ b[4] \in ObjectKind
     /\ b[5] \in Codec
  THEN {[kind |-> b[4], codec |-> b[5], flags |-> b[6], raw_length |-> b[7], stored_length |-> b[8],
         content_id |-> b[9], primary_oid |-> oid] : oid \in DecodeOidFixed(SubSeq(b, 10, 13))}
  ELSE {}

EncodedRecordLenFromMetadata(m) == Align(RECORD_HEADER_LEN + m.stored_length + RECORD_FOOTER_LEN)

Record(m, payload) ==
  [kind |-> m.kind, codec |-> m.codec, flags |-> m.flags, raw_length |-> m.raw_length,
   content_id |-> m.content_id, primary_oid |-> m.primary_oid, payload |-> payload]

ValidateRecordFooter(footer, crc, length) ==
  /\ Len(footer) >= RECORD_FOOTER_LEN
  /\ footer[1] = crc
  /\ footer[2] = length
  /\ footer[3] = RECORD_END_MAGIC

\* Fault: the padding is not looked at.
DecodeRecordUnpadded(b) ==
  {Record(m, SubSeq(b, RECORD_HEADER_LEN + 1, RECORD_HEADER_LEN + m.stored_length)) :
     m \in {n \in DecodeRecordMetadata(b) :
              LET end == RECORD_HEADER_LEN + n.stored_length IN
              /\ Len(b) >= end + RECORD_FOOTER_LEN
              /\ ValidateRecordFooter(SubSeq(b, end + 1, end + RECORD_FOOTER_LEN),
                   Checksum(SubSeq(b, RECORD_HEADER_LEN + 1, end)), end + RECORD_FOOTER_LEN)}}

DecodeRecord(b) ==
  {Record(m, SubSeq(b, RECORD_HEADER_LEN + 1, RECORD_HEADER_LEN + m.stored_length)) :
     m \in {n \in DecodeRecordMetadata(b) :
              LET end == RECORD_HEADER_LEN + n.stored_length
                  total == end + RECORD_FOOTER_LEN
              IN /\ Len(b) >= total
                 /\ b[end + 2] = total
                 /\ b[end + 3] = RECORD_END_MAGIC
                 /\ b[end + 1] = Checksum(SubSeq(b, RECORD_HEADER_LEN + 1, end))
                 /\ Len(b) >= Align(total)
                 /\ AllZero(SubSeq(b, total + 1, Align(total)))}}

-----------------------------------------------------------------------------
\* Payloads.  A Zstd frame knows its own end: marker, length, bytes.
EncodeObjectPayload(codec, raw) == IF codec = 0 THEN raw ELSE <<ZSTD_FRAME, Len(raw)>> \o raw

ContentId(kind, raw) == Checksum(<<kind, Len(raw)>> \o raw)

\* What the decoder of one frame yields, and the bytes left after it.
FirstFrame(s) ==
  IF Len(s) >= 2 /\ s[1] = ZSTD_FRAME /\ Len(s) >= 2 + s[2]
  THEN {[raw |-> SubSeq(s, 3, 2 + s[2]), rest |-> From(s, 3 + s[2])]} ELSE {}
Decoded(codec, stored) == IF codec = 0 THEN {[raw |-> stored, rest |-> <<>>]} ELSE FirstFrame(stored)

\* ValidatingObjectWriter: no byte beyond the declared length is let through,
\* and at the end the length and the content must be the declared ones.
WriteAccepts(raw, length) == Len(raw) <= length
Finish(m, raw) == Len(raw) = m.raw_length /\ ContentId(m.kind, raw) = m.content_id

\* Fault: what follows the first frame is not looked at.
DecodePayloadPrefix(m, stored) ==
  {d.raw : d \in {e \in Decoded(m.codec, stored) : WriteAccepts(e.raw, m.raw_length) /\ Finish(m, e.raw)}}

DecodeObjectPayload(m, stored) ==
  {d.raw : d \in {e \in Decoded(m.codec, stored) :
                    WriteAccepts(e.raw, m.raw_length) /\ e.rest = <<>> /\ Finish(m, e.raw)}}

VerifyObjectRecord(r) == DecodeObjectPayload(r, r.payload) # {}

-----------------------------------------------------------------------------
\* Reading the record at a location of the catalog.
Located(file, l) ==
  /\ l.offset >= CHUNK_HEADER_LEN
  /\ l.offset + l.record_length <= Len(file)
  /\ \E h \in DecodeChunkHeader(file) : h.generation = l.generation /\ h.chunk_id = l.chunk_id

\* Both streaming readers compare the record header with the location ...
ValidateStreamLocation(m, l) ==
  /\ m.stored_length = l.stored_length
  /\ m.raw_length = l.raw_length
  /\ m.kind = l.kind
  /\ m.codec = l.codec
  /\ m.flags = l.flags

\* ... and the footer and padding after the payload.
StreamedRecords(file, l) ==
  IF ~Located(file, l) THEN {}
  ELSE LET b == From(file, l.offset + 1)
       IN {m \in DecodeRecordMetadata(b) :
             LET end == RECORD_HEADER_LEN + m.stored_length
                 crc == Checksum(SubSeq(b, RECORD_HEADER_LEN + 1, end))
             IN /\ ValidateStreamLocation(m, l)
                /\ EncodedRecordLenFromMetadata(m) = l.record_length
                /\ ValidateRecordFooter(SubSeq(b, end + 1, end + RECORD_FOOTER_LEN), crc, end + RECORD_FOOTER_LEN)
                /\ crc = l.payload_crc32c
                /\ AllZero(SubSeq(b, end + RECORD_FOOTER_LEN + 1, l.record_length))}
StoredPayload(file, l, m) ==
  SubSeq(file, l.offset + RECORD_HEADER_LEN + 1, l.offset + RECORD_HEADER_LEN + m.stored_length)

StreamRecordAt(file, l) == {Record(m, StoredPayload(file, l, m)) : m \in StreamedRecords(file, l)}

StreamDecodedRecordAt(file, l) ==
  UNION {DecodeObjectPayload(m, StoredPayload(file, l, m)) : m \in StreamedRecords(file, l)}

\* Fault: the location's fields are not compared with the record.
ReadRecordUnchecked(file, l) ==
  IF ~Located(file, l) THEN {}
  ELSE {r \in DecodeRecord(SubSeq(file, l.offset + 1, l.offset + l.record_length)) : VerifyObjectRecord(r)}

ReadRecordAt(file, l) ==
  IF ~Located(file, l) THEN {}
  ELSE {r \in DecodeRecord(SubSeq(file, l.offset + 1, l.offset + l.record_length)) :
          /\ l.record_length <= MAX_RECOVERY_RECORD_BYTES
          /\ EncodedRecordLenFromMetadata([stored_length |-> Len(r.payload)]) = l.record_length
          /\ Len(r.payload) = l.stored_length
          /\ r.raw_length = l.raw_length
          /\ r.kind = l.kind
          /\ r.codec = l.codec
          /\ r.flags = l.flags
          /\ Checksum(r.payload) = l.payload_crc32c
          /\ VerifyObjectRecord(r)}

-----------------------------------------------------------------------------
(* The catalog.  Every key and value starts with the catalog version; an   *)
(* identifier is two numbers.                                              *)

CATALOG_VERSION == 1
IN_PROGRESS_MARKER == 1
EXPLICIT_GC_PIN_KEY_TAG == 1
ID_LEN == 2

\* A key or value of fixed length; check_version comes after the length.
Versioned(b, len) == Len(b) = len /\ b[1] = CATALOG_VERSION

EncodeObjectLocationKey(id) == <<CATALOG_VERSION>> \o id
DecodeObjectLocationKey(b) == IF Versioned(b, 1 + ID_LEN) THEN {From(b, 2)} ELSE {}

EncodeObjectLocationValue(l) ==
  <<CATALOG_VERSION, l.generation, l.chunk_id, l.offset, l.record_length, l.stored_length, l.raw_length,
    l.kind, l.codec, l.flags, l.payload_crc32c>>
DecodeObjectLocationValue(b) ==
  IF Versioned(b, 11) /\ b[8] \in 1 .. 4 /\ b[9] \in {0, 1}
  THEN {[generation |-> b[2], chunk_id |-> b[3], offset |-> b[4], record_length |-> b[5], stored_length |-> b[6],
         raw_length |-> b[7], kind |-> b[8], codec |-> b[9], flags |-> b[10], payload_crc32c |-> b[11]]}
  ELSE {}

\* An alias key: repository, algorithm, length, object ID
EncodeOidAliasKey(a) ==
  <<CATALOG_VERSION>> \o a.repo \o <<a.oid.algorithm, Len(a.oid.bytes)>> \o a.oid.bytes
DecodeOidAliasKey(b) ==
  IF /\ Len(b) >= 1 + ID_LEN + 2
     /\ b[1] = CATALOG_VERSION
     /\ b[4] \in {1, 2}
     /\ b[5] = b[4]
     /\ Len(b) = 1 + ID_LEN + 2 + b[5]
  THEN {[repo |-> SubSeq(b, 2, 3), oid |-> [algorithm |-> b[4], bytes |-> From(b, 6)]]} ELSE {}

EncodeRepositorySnapshotKey(k) == <<CATALOG_VERSION>> \o k.repo \o k.snapshot
DecodeRepositorySnapshotKey(b) ==
  IF Versioned(b, 1 + 2 * ID_LEN) THEN {[repo |-> SubSeq(b, 2, 3), snapshot |-> From(b, 4)]} ELSE {}

\* Incomplete is 1, Ready is 2.
EncodeSnapshotVisibilityValue(v) == <<CATALOG_VERSION, v>>
DecodeSnapshotVisibilityValue(b) == IF Versioned(b, 2) /\ b[2] \in {1, 2} THEN {b[2]} ELSE {}

EncodeChunkKey(c) == <<CATALOG_VERSION, c.generation, c.chunk_id>>
DecodeChunkKey(b) == IF Versioned(b, 3) THEN {[generation |-> b[2], chunk_id |-> b[3]]} ELSE {}
EncodeChunkValue(c) == <<CATALOG_VERSION, c.state, c.size, c.record_count>>
DecodeChunkValue(b) ==
  IF Versioned(b, 4) /\ b[2] \in {1, 2, 3} THEN {[state |-> b[2], size |-> b[3], record_count |-> b[4]]} ELSE {}

\* Names, job IDs and metadata keys are the rest of the key, whatever it is.
EncodeOpaqueKey(k) == <<CATALOG_VERSION>> \o k
DecodeOpaqueKey(b) == IF b # <<>> /\ b[1] = CATALOG_VERSION THEN {From(b, 2)} ELSE {}

EncodeCurrentGenerationValue(g) == <<CATALOG_VERSION, g>>
DecodeCurrentGenerationValue(b) == IF Versioned(b, 2) THEN {b[2]} ELSE {}

DecodeObjectLocationRebuildMarker(b) == {k \in DecodeOpaqueKey(b) : k = <<IN_PROGRESS_MARKER>>}

\* One column family holds the pins of workspaces and the explicit ones.
EncodeWorkspaceKey(id) == <<CATALOG_VERSION>> \o id
DecodeWorkspaceKey(b) == IF Versioned(b, 1 + ID_LEN) THEN {From(b, 2)} ELSE {}

\* Fault: the domain byte is taken for enough to tell the two pins apart.
EncodeGcPinKeyShort(id) == <<CATALOG_VERSION, EXPLICIT_GC_PIN_KEY_TAG>> \o From(id, ID_LEN)

EncodeGcPinKey(id) == <<CATALOG_VERSION, EXPLICIT_GC_PIN_KEY_TAG>> \o id
DecodeGcPinKey(b) == IF Versioned(b, 2 + ID_LEN) /\ b[2] = EXPLICIT_GC_PIN_KEY_TAG THEN {From(b, 3)} ELSE {}

EncodePinKey(p) == IF p.pin = "workspace" THEN EncodeWorkspaceKey(p.id) ELSE EncodeGcPinKey(p.id)
DecodePinKey(b) == {[pin |-> "workspace", id |-> i] : i \in DecodeWorkspaceKey(b)}
              \cup {[pin |-> "explicit", id |-> i] : i \in DecodeGcPinKey(b)}
=============================================================================
