--------------------------- MODULE RotatingWriter ---------------------------
(***************************************************************************)
(* RotatingChunkWriter: appends records to an active chunk, seals it and   *)
(* opens the next one when a record would take it past the target, and     *)
(* gives an oversized record a chunk of its own.  A step of a rotation can *)
(* fail, which ends the writer's use; the caller then makes a new writer   *)
(* at an identity it chooses, which the code does not check.               *)
(***************************************************************************)
EXTENDS Integers, Sequences

CONSTANTS Object,
          EncodedLen,   \* the length of each object's record
          ChunkHeaderLen, ChunkFooterLen, TargetSize, \* a target has room for both
          MaxChunks,    \* bound on the chunk identities
          MaxFiles,     \* bound on the files made
          MaxRotationFailures,  \* bound on failures and restarts
          NoChunk

ChunkId == 1 .. MaxChunks
RotationFile == 1 .. MaxFiles
RecordLocation == [chunk : ChunkId, offset : Nat]

\* Lengths are natural numbers, and NoChunk is no identity, location, object or
\* state.
RotationConstants ==
  /\ EncodedLen \in [Object -> Nat] /\ ChunkHeaderLen \in Nat /\ ChunkFooterLen \in Nat /\ TargetSize \in Nat
  /\ MaxChunks \in Nat /\ MaxFiles \in Nat /\ MaxRotationFailures \in Nat
  /\ NoChunk \notin ChunkId /\ NoChunk \notin RotationFile /\ NoChunk \notin RecordLocation /\ NoChunk \notin Object
  /\ NoChunk \notin {"open", "sealed"}
ASSUME RotationAssumption == RotationConstants

VARIABLES
  held,      \* the complete records of each file, in order
  length,    \* next_offset: the length of its header and these records
  chunkFile, \* the ending of each file's name, "open" or "sealed", or NoChunk
  identity,  \* the chunk identity in its header and its name, or NoChunk
  meta,      \* each chunk's catalog metadata: NoChunk, "open" or "sealed"
  located,   \* the location of each indexed object, or NoChunk
  active, nextChunk, mine,  \* the writer: active file, next identity, files made
  behind,    \* where writers began that did not begin past every file
  step, object,          \* the append in progress
  rotationFailures

chunkDisk == <<held, length, chunkFile, identity, meta, located>>
rotationVars == <<chunkDisk, active, nextChunk, mine, behind, step, object, rotationFailures>>

\* Every variable has its type.
RotationTypeOK ==
  /\ held \in [RotationFile -> Seq([object : Object, offset : Nat])] /\ length \in [RotationFile -> Nat]
  /\ chunkFile \in [RotationFile -> {NoChunk, "open", "sealed"}] /\ identity \in [RotationFile -> ChunkId \cup {NoChunk}]
  /\ meta \in [ChunkId -> {NoChunk, "open", "sealed"}] /\ located \in [Object -> RecordLocation \cup {NoChunk}]
  /\ active \in RotationFile \cup {NoChunk} /\ nextChunk \in 1 .. MaxChunks + 1 /\ mine \subseteq RotationFile
  /\ behind \subseteq ChunkId
  /\ step \in {"none", "idle", "seal", "create", "write", "seal oversized", "create after", "unusable"}
  /\ object \in Object \cup {NoChunk} /\ rotationFailures \in 0 .. MaxRotationFailures

RotationInit ==
  /\ held = [f \in RotationFile |-> << >>] /\ length = [f \in RotationFile |-> ChunkHeaderLen]
  /\ chunkFile = [f \in RotationFile |-> NoChunk] /\ identity = [f \in RotationFile |-> NoChunk]
  /\ meta = [k \in ChunkId |-> NoChunk]
  /\ located = [o \in Object |-> NoChunk]
  /\ active = NoChunk /\ nextChunk = 1 /\ mine = {} /\ behind = {} /\ step = "none" /\ object = NoChunk /\ rotationFailures = 0

Oversized(o) == ChunkHeaderLen + EncodedLen[o] + ChunkFooterLen > TargetSize

\* Fault: the footer is left out of the sum.
WouldExceedFooterless(o) == length[active] + EncodedLen[o] > TargetSize /\ held[active] # << >>

WouldExceedTarget(o) ==
  length[active] + EncodedLen[o] + ChunkFooterLen > TargetSize /\ held[active] # << >>

\* There is a file of chunk k with this ending.
FileNamed(k, ending) == \E f \in RotationFile : chunkFile[f] = ending /\ identity[f] = k

\* The file {next_chunk_id}.open is made, with its header.
MakeFile(f) ==
  /\ chunkFile[f] = NoChunk /\ \A g \in RotationFile : g < f => chunkFile[g] # NoChunk
  /\ chunkFile' = [chunkFile EXCEPT ![f] = "open"] /\ identity' = [identity EXCEPT ![f] = nextChunk]

\* ChunkWriter::append: a complete record of o at the end of the active chunk.
PutRecord(o) ==
  /\ held' = [held EXCEPT ![active] = Append(@, [object |-> o, offset |-> length[active]])]
  /\ length' = [length EXCEPT ![active] = @ + EncodedLen[o]]

-----------------------------------------------------------------------------
\* RotatingChunkWriter::create.  The caller names the first identity; only the
\* comment of finish says that it is "the next chunk ID".
CreateWriter(first) ==
  /\ step = "none"
  /\ behind' = behind \cup {k \in {first} : \E f \in RotationFile : chunkFile[f] # NoChunk /\ k <= identity[f]}
  /\ nextChunk' = first /\ mine' = {} /\ step' = "create after"
  /\ UNCHANGED <<chunkDisk, active, object, rotationFailures>>

\* append_and_index up to the rotation; a known object adds only an alias.
AppendAndIndex(o) ==
  /\ step = "idle" /\ active # NoChunk
  /\ IF located[o] # NoChunk THEN UNCHANGED <<step, object>>
     ELSE object' = o /\ step' = IF WouldExceedTarget(o) THEN "seal" ELSE "write"
  /\ UNCHANGED <<chunkDisk, active, nextChunk, mine, behind, rotationFailures>>

\* A call on a writer without an active chunk panics.
Panic ==
  /\ step = "unusable" /\ step' = "none"
  /\ UNCHANGED <<chunkDisk, active, nextChunk, mine, behind, object, rotationFailures>>

\* seal_and_publish, which goes on only if the catalog does not have the chunk
\* sealed and no .sealed file is in the way.
Sealable == meta[identity[active]] # "sealed" /\ ~FileNamed(identity[active], "sealed")
SealActive ==
  /\ Sealable
  /\ chunkFile' = [chunkFile EXCEPT ![active] = "sealed"] /\ meta' = [meta EXCEPT ![identity[active]] = "sealed"]

\* seal_current: the active chunk is taken first.
SealCurrent ==
  /\ step \in {"seal", "seal oversized"} /\ SealActive
  /\ active' = NoChunk
  /\ step' = IF step = "seal" THEN "create" ELSE "create after"
  /\ UNCHANGED <<held, length, identity, located, nextChunk, mine, behind, object, rotationFailures>>

\* Fault: a writer whose sealing failed keeps its chunk and goes on.
SealFailsKeeping ==
  /\ step \in {"seal", "seal oversized"} /\ rotationFailures < MaxRotationFailures
  /\ \E renamed \in BOOLEAN : chunkFile' = IF renamed THEN [chunkFile EXCEPT ![active] = "sealed"] ELSE chunkFile
  /\ step' = "idle" /\ object' = NoChunk /\ rotationFailures' = rotationFailures + 1
  /\ UNCHANGED <<held, length, identity, meta, located, active, nextChunk, mine, behind>>

\* It is refused, or fails before or after the rename, also in finish; there is
\* no active chunk any more.
SealFails ==
  /\ step \in {"idle", "seal", "seal oversized"} /\ active # NoChunk
  /\ \/ ~Sealable /\ UNCHANGED <<chunkFile, rotationFailures>>
     \/ /\ rotationFailures < MaxRotationFailures /\ rotationFailures' = rotationFailures + 1
        /\ \/ UNCHANGED chunkFile
           \/ Sealable /\ chunkFile' = [chunkFile EXCEPT ![active] = "sealed"]
  /\ active' = NoChunk /\ step' = "unusable" /\ object' = NoChunk
  /\ UNCHANGED <<held, length, identity, meta, located, nextChunk, mine, behind>>

\* Fault: the identity is used up only by the chunk after it.
CreateNextSame ==
  /\ step \in {"create", "create after"} /\ nextChunk \in ChunkId
  /\ ~FileNamed(nextChunk, "open") /\ meta[nextChunk] # "sealed"
  /\ \E f \in RotationFile : MakeFile(f) /\ active' = f /\ mine' = mine \cup {f}
  /\ meta' = [meta EXCEPT ![nextChunk] = "open"] /\ UNCHANGED nextChunk
  /\ step' = IF step = "create" THEN "write" ELSE "idle"
  /\ object' = IF step = "create" THEN object ELSE NoChunk
  /\ UNCHANGED <<held, length, located, behind, rotationFailures>>

\* create_next: the identity is used up, the file made and then published.  An
\* .open file of that name is in the way, or metadata that says sealed; a
\* .sealed file is not looked for.
CreateNext ==
  /\ step \in {"create", "create after"} /\ nextChunk \in ChunkId
  /\ ~FileNamed(nextChunk, "open") /\ meta[nextChunk] # "sealed"
  /\ \E f \in RotationFile : MakeFile(f) /\ active' = f /\ mine' = mine \cup {f}
  /\ meta' = [meta EXCEPT ![nextChunk] = "open"] /\ nextChunk' = nextChunk + 1
  /\ step' = IF step = "create" THEN "write" ELSE "idle"
  /\ object' = IF step = "create" THEN object ELSE NoChunk
  /\ UNCHANGED <<held, length, located, behind, rotationFailures>>

\* It fails: on the name; on the metadata, and the file stays; or on an I/O error,
\* with or without a file.
CreateFails ==
  /\ step \in {"create", "create after"} /\ nextChunk \in ChunkId
  /\ \/ FileNamed(nextChunk, "open") /\ UNCHANGED <<chunkFile, identity, rotationFailures>>
     \/ /\ ~FileNamed(nextChunk, "open") /\ meta[nextChunk] = "sealed" /\ UNCHANGED rotationFailures
        /\ \E f \in RotationFile : MakeFile(f)
     \/ /\ ~FileNamed(nextChunk, "open")
        /\ rotationFailures < MaxRotationFailures /\ rotationFailures' = rotationFailures + 1
        /\ UNCHANGED <<chunkFile, identity>> \/ \E f \in RotationFile : MakeFile(f)
  /\ nextChunk' = nextChunk + 1 /\ step' = "unusable" /\ object' = NoChunk
  /\ UNCHANGED <<held, length, meta, located, active, mine, behind>>

\* ChunkWriter::append_and_index on the active chunk.
WriteRecord ==
  /\ step = "write"
  /\ PutRecord(object)
  /\ located' = [located EXCEPT ![object] = [chunk |-> identity[active], offset |-> length[active]]]
  /\ IF Oversized(object) THEN step' = "seal oversized" /\ UNCHANGED object
     ELSE step' = "idle" /\ object' = NoChunk
  /\ UNCHANGED <<chunkFile, identity, meta, active, nextChunk, mine, behind, rotationFailures>>

\* Fault: the catalog is told before the record is durable.
WriteFailsIndexed ==
  /\ step = "write" /\ rotationFailures < MaxRotationFailures /\ rotationFailures' = rotationFailures + 1
  /\ located' = [located EXCEPT ![object] = [chunk |-> identity[active], offset |-> length[active]]]
  /\ step' = "idle" /\ object' = NoChunk
  /\ UNCHANGED <<held, length, chunkFile, identity, meta, active, nextChunk, mine, behind>>

\* The write fails, or the catalog does and the record stays unindexed.
WriteFails ==
  /\ step = "write" /\ rotationFailures < MaxRotationFailures /\ rotationFailures' = rotationFailures + 1
  /\ PutRecord(object) \/ UNCHANGED <<held, length>>
  /\ step' = "idle" /\ object' = NoChunk
  /\ UNCHANGED <<chunkFile, identity, meta, located, active, nextChunk, mine, behind>>

\* finish: the active chunk is sealed and none is left.
FinishWriter ==
  /\ step = "idle" /\ active # NoChunk /\ SealActive
  /\ active' = NoChunk /\ step' = "unusable"
  /\ UNCHANGED <<held, length, identity, located, nextChunk, mine, behind, object, rotationFailures>>

\* The process ends at any step.
Restart ==
  /\ step # "none" /\ rotationFailures < MaxRotationFailures /\ rotationFailures' = rotationFailures + 1
  /\ active' = NoChunk /\ step' = "none" /\ object' = NoChunk /\ mine' = {}
  /\ UNCHANGED <<chunkDisk, nextChunk, behind>>

RotationNext ==
  \/ \E k \in ChunkId : CreateWriter(k)
  \/ \E o \in Object : AppendAndIndex(o)
  \/ Panic \/ SealCurrent \/ SealFails \/ CreateNext \/ CreateFails
  \/ WriteRecord \/ WriteFails \/ FinishWriter \/ Restart

RotationSpec == RotationInit /\ [][RotationNext]_rotationVars

-----------------------------------------------------------------------------
\* A file and its footer never exceed the target, unless the file holds one
\* record that no chunk of that size could hold, whatever failed in between
\* (RotatingChunkWriter::append_and_index).
WithinTarget ==
  \A f \in RotationFile :
    \/ held[f] = << >>
    \/ length[f] + ChunkFooterLen <= TargetSize
    \/ Len(held[f]) = 1 /\ Oversized(held[f][1].object)

\* Where a record ends
RecordEnd(r) == r.offset + EncodedLen[r.object]

\* The records of a file follow its header and each other without a gap, and
\* the length the writer goes by is where they end (ChunkWriter::append).
Contiguous ==
  \A f \in RotationFile :
    /\ length[f] = IF held[f] = << >> THEN ChunkHeaderLen ELSE RecordEnd(held[f][Len(held[f])])
    /\ \A i \in DOMAIN held[f] : held[f][i].offset = IF i = 1 THEN ChunkHeaderLen ELSE RecordEnd(held[f][i - 1])

\* While a writer has an active chunk, every other chunk it made is sealed, in
\* the directory and in the catalog: rotation leaves no second writable chunk
\* (seal_current, create_next).
OthersSealed ==
  active # NoChunk =>
    /\ chunkFile[active] = "open" /\ meta[identity[active]] = "open"
    /\ \A f \in mine \ {active} : chunkFile[f] = "sealed" /\ meta[identity[f]] = "sealed"

\* A location names a chunk the catalog knows, and a file of that chunk has the
\* record at that very place (ChunkWriter::append_and_index, create_and_publish).
LocatedHeld ==
  \A o \in Object : located[o] # NoChunk =>
    /\ meta[located[o].chunk] # NoChunk
    /\ \E f \in RotationFile : identity[f] = located[o].chunk
         /\ \E i \in DOMAIN held[f] : held[f][i] = [object |-> o, offset |-> located[o].offset]

\* As long as every writer begins past the files there are, as the comment of
\* finish asks, no chunk gets a second file, so a location means one file,
\* whatever failed.  A writer that begins at a chunk whose seal failed past its
\* rename makes an .open file beside the .sealed one (create_next).
OneFileEach ==
  behind = {} =>
    \A f, g \in RotationFile : chunkFile[f] # NoChunk /\ chunkFile[g] # NoChunk /\ identity[f] = identity[g] => f = g

\* A location is where the object's record is, all chunks of a writer but the active
\* one are sealed, records lie end to end, a chunk of several records stays within
\* the target, and writers that begin past the files give each chunk one file.
RotationSafe == RotationTypeOK /\ LocatedHeld /\ OthersSealed /\ Contiguous /\ WithinTarget /\ OneFileEach

-----------------------------------------------------------------------------
(* What a step preserves: there is an active chunk exactly while one may   *)
(* be written or sealed, a file that is not there holds nothing, the       *)
(* record about to be written fits, and identities only go up.             *)

Pending ==
  /\ active # NoChunk <=> step \in {"idle", "seal", "write", "seal oversized"}
  /\ active # NoChunk => active \in mine
  /\ step \in {"seal", "create", "write", "seal oversized"} => object \in Object
  /\ step = "write" => ~WouldExceedTarget(object)

Made ==
  /\ \A f \in RotationFile : chunkFile[f] = NoChunk => held[f] = << >> /\ f \notin mine
  /\ \A f \in RotationFile : chunkFile[f] # NoChunk => identity[f] \in ChunkId
  /\ step \in {"create", "create after"} => \A f \in mine : chunkFile[f] = "sealed" /\ meta[identity[f]] = "sealed"

\* The identities of a writer's files, and of all files if none began behind one.
Ahead ==
  /\ step \notin {"none", "unusable"} => \A f \in mine : identity[f] < nextChunk
  /\ \A f, g \in mine : identity[f] = identity[g] => f = g
  /\ behind = {} /\ step \notin {"none", "unusable"} =>
       \A f \in RotationFile : chunkFile[f] # NoChunk => identity[f] < nextChunk

RotationIInv ==
  /\ RotationTypeOK /\ Pending /\ Made /\ Ahead
  /\ OthersSealed /\ LocatedHeld /\ Contiguous /\ WithinTarget /\ OneFileEach
=============================================================================
