----------------------------- MODULE ChunkStore -----------------------------
(***************************************************************************)
(* The cold object store of one generation: append-only chunk files and    *)
(* the catalog that indexes them (crates reflink-forest-store and          *)
(* reflink-forest-index).                                                  *)
(*                                                                         *)
(* A chunk file is a header, a sequence of complete records, and after     *)
(* sealing a footer.  The model keeps apart what the running kernel shows  *)
(* (name, header, recs, footer, junk) and what a power loss must preserve  *)
(* (dname, "durable" headers and footers, the first synced[c] records).    *)
(* Offsets are record ordinals: a chunk is append-only, so the n-th record *)
(* always has the same offset.                                             *)
(*                                                                         *)
(* Every library call borrows the catalog mutably, so calls do not         *)
(* interleave with each other; they are split into the steps at which the  *)
(* process can be killed, the machine can lose power or a system call can  *)
(* fail.  A failed call returns an error and leaves what it has done.      *)
(***************************************************************************)
EXTENDS Integers, Sequences

CONSTANTS Chunk,        \* chunk identifiers
          Content,      \* ContentIds
          Key,          \* (RepoId, native Git OID) pairs
          None,         \* no value
          Size,         \* Size[x]: encoded length of the record of x
          FooterLen,    \* encoded length of the sealed footer
          Oversize,     \* contents whose record is over MAX_RECOVERY_RECORD_BYTES
          MaxRecords,   \* bound: records in one chunk
          MaxCrashes,   \* bound: kills and power losses
          ShortWrites,  \* may a failing write leave some of its bytes?
          SyncErrorDropsPages, \* does the kernel forget the pages a failed fdatasync covered?
          SyncPersistsEntry    \* does fdatasync of a new file also persist its directory entry?

ASSUME SizeAssumption == Size \in [Content -> Nat \ {0}] /\ FooterLen \in Nat \ {0}
ASSUME OversizeAssumption == Oversize \subseteq Content
ASSUME BoundAssumption == MaxRecords \in Nat /\ MaxCrashes \in Nat
ASSUME FaultAssumption == {ShortWrites, SyncErrorDropsPages, SyncPersistsEntry} \subseteq BOOLEAN

VARIABLES
  name,     \* the extension the chunk's file is visible under
  dname,    \* the directory entry a power loss preserves
  header,   \* the chunk header: missing, in the page cache, or on disk
  recs,     \* the complete records of the file, by content
  synced,   \* how many of them recovery is sure to find after a power loss
  footer,   \* the sealed footer: missing, in the page cache, or on disk
  junk,     \* bytes after the last record, or after the footer when there is one
  dropped,  \* the chunks a failed fdatasync lost pages of
  loc,      \* catalog: object_locations
  alias,    \* catalog: oid_aliases
  cstate,   \* catalog: state of the chunk
  ccount,   \* catalog: record_count of the chunk
  writer,   \* the chunk the live ChunkWriter appends to
  pc, cur, id, key, \* the library call in progress: its next step and arguments
  crashes   \* kills and power losses so far

fileVars == <<name, dname, header, recs, synced, footer, junk, dropped>>
catalogVars == <<loc, alias, cstate, ccount>>
callVars == <<pc, cur, id, key>>
vars == <<fileVars, catalogVars, writer, callVars, crashes>>

Names == {"absent", "open", "sealed"}
Persistence == {"none", "cached", "durable"}
CatalogStates == {"absent", "Open", "Sealed"}
Location == [chunk : Chunk, pos : Nat]
Steps == {"idle", "createSync", "createDirSync", "createPublish",
          "appendSync", "appendApply",
          "sealFooter", "sealSync", "rename", "dirSync", "publishSealed",
          "republishOpen"}

ASSUME NoneAssumption == None \notin Chunk \cup Content \cup Key \cup Location

FilesOK ==
  /\ name \in [Chunk -> Names]
  /\ dname \in [Chunk -> Names]
  /\ header \in [Chunk -> Persistence]
  /\ recs \in [Chunk -> Seq(Content)]
  /\ synced \in [Chunk -> Nat]
  /\ footer \in [Chunk -> Persistence]
  /\ junk \in [Chunk -> Nat]
  /\ dropped \subseteq Chunk

CatalogOK ==
  /\ loc \in [Content -> Location \cup {None}]
  /\ alias \in [Key -> Content \cup {None}]
  /\ cstate \in [Chunk -> CatalogStates]
  /\ ccount \in [Chunk -> Nat]

CallOK ==
  /\ writer \in Chunk \cup {None}
  /\ pc \in Steps
  /\ pc = "idle" \/ cur \in Chunk
  /\ pc \in {"appendSync", "appendApply"} => id \in Content /\ key \in Key
  /\ crashes \in 0 .. MaxCrashes

\* The state of the files, of the catalog and of the call in progress.  A call
\* always knows its chunk, and a location is always a chunk and a position.
TypeOK == FilesOK /\ CatalogOK /\ CallOK

Init ==
  /\ name = [c \in Chunk |-> "absent"]
  /\ dname = [c \in Chunk |-> "absent"]
  /\ header = [c \in Chunk |-> "none"]
  /\ recs = [c \in Chunk |-> <<>>]
  /\ synced = [c \in Chunk |-> 0]
  /\ footer = [c \in Chunk |-> "none"]
  /\ junk = [c \in Chunk |-> 0]
  /\ dropped = {}
  /\ loc = [x \in Content |-> None]
  /\ alias = [k \in Key |-> None]
  /\ cstate = [c \in Chunk |-> "absent"]
  /\ ccount = [c \in Chunk |-> 0]
  /\ writer = None
  /\ pc = "idle" /\ cur = None /\ id = None /\ key = None
  /\ crashes = 0

-----------------------------------------------------------------------------
(* Helpers. *)

Return == pc' = "idle" /\ cur' = None /\ id' = None /\ key' = None
Goto(step) == pc' = step /\ UNCHANGED <<cur, id, key>>
Call(step, c) == pc' = step /\ cur' = c /\ id' = None /\ key' = None

\* Bytes left of m after n bytes were written over them.
Overwritten(m, n) == IF m > n THEN m - n ELSE 0
Longer(m, n) == IF m > n THEN m ELSE n

\* Fault: a sealed chunk is taken for a writable one.
AnyChunkWritable(c) == cstate[c] \in CatalogStates

\* ensure_catalog_writable
CatalogWritable(c) == cstate[c] \in {"absent", "Open"}

\* Fault: a name may be bound again.
AnyAlias(k, x) == alias[k] \in Content \cup {None}

\* put_oid_alias in a batch: a name never changes its content.
AliasAccepts(k, x) == alias[k] \in {None, x}

\* verify_sealed_file: header, footer as the very last bytes, strict records.
Verifies(c) ==
  /\ header[c] # "none"
  /\ footer[c] # "none"
  /\ junk[c] = 0
  /\ \A i \in DOMAIN recs[c] : recs[c][i] \notin Oversize

\* scan_records, not strict: n records precede the first one it does not accept.
ScanEnds(s, n) ==
  /\ n \in 0 .. Len(s)
  /\ \A i \in 1 .. n : s[i] \notin Oversize
  /\ n < Len(s) => s[n + 1] \in Oversize

\* A successful fdatasync of the chunk.
SyncData(c) ==
  /\ synced' = [synced EXCEPT ![c] = IF c \in dropped THEN @ ELSE Len(recs[c])]
  /\ header' = [header EXCEPT ![c] = "durable"]
  /\ dname' = [dname EXCEPT ![c] = IF SyncPersistsEntry THEN name[c] ELSE @]

\* A failed one: nothing is known to be durable, and the pages may be gone.
SyncFails(c) ==
  /\ dropped' = IF SyncErrorDropsPages /\ synced[c] < Len(recs[c]) THEN dropped \cup {c} ELSE dropped
  /\ UNCHANGED <<synced, header, dname>>

-----------------------------------------------------------------------------
(* ChunkWriter::create_and_publish.  The caller picks an identifier neither *)
(* extension of which exists; create_new refuses an existing `.open` file. *)

Create(c) ==
  /\ pc = "idle" /\ writer = None /\ name[c] = "absent"
  /\ name' = [name EXCEPT ![c] = "open"]
  /\ recs' = [recs EXCEPT ![c] = <<>>]
  /\ \/ header' = [header EXCEPT ![c] = "cached"] /\ Call("createSync", c)
     \/ ShortWrites /\ UNCHANGED <<header, callVars>>
  /\ UNCHANGED <<dname, synced, footer, junk, dropped, catalogVars, writer, crashes>>

CreateSync ==
  /\ pc = "createSync"
  /\ \/ SyncData(cur) /\ Goto("createDirSync")
     \/ UNCHANGED <<synced, header, dname>> /\ Return
  /\ UNCHANGED <<name, recs, footer, junk, dropped, catalogVars, writer, crashes>>

CreateDirSync ==
  /\ pc = "createDirSync"
  /\ \/ dname' = [dname EXCEPT ![cur] = name[cur]] /\ Goto("createPublish")
     \/ UNCHANGED dname /\ Return
  /\ UNCHANGED <<name, header, recs, synced, footer, junk, dropped, catalogVars, writer, crashes>>

\* publish_open: the size and record count of the writable chunk.
PublishOpen(c) ==
  /\ CatalogWritable(c)
  /\ cstate' = [cstate EXCEPT ![c] = "Open"]
  /\ ccount' = [ccount EXCEPT ![c] = Len(recs[c])]

CreatePublish ==
  /\ pc = "createPublish"
  /\ \/ PublishOpen(cur) /\ writer' = cur
     \/ UNCHANGED <<cstate, ccount, writer>>
  /\ Return
  /\ UNCHANGED <<fileVars, loc, alias, crashes>>

-----------------------------------------------------------------------------
(* ChunkWriter::append_and_index on the live writer.                       *)

\* Content the catalog already locates only gains an alias; a rejected alias
\* or a failing batch changes nothing.
IndexAlias(k, x) ==
  /\ pc = "idle" /\ writer # None /\ CatalogWritable(writer)
  /\ loc[x] # None
  /\ AliasAccepts(k, x)
  /\ alias' = [alias EXCEPT ![k] = x]
  /\ UNCHANGED <<fileVars, loc, cstate, ccount, writer, callVars, crashes>>

\* append: write the record at next_offset, which only a complete write moves.
AppendRecord(k, x) ==
  /\ pc = "idle" /\ writer # None /\ CatalogWritable(writer)
  /\ loc[x] = None
  /\ Len(recs[writer]) < MaxRecords
  /\ \/ /\ recs' = [recs EXCEPT ![writer] = Append(@, x)]
        /\ junk' = [junk EXCEPT ![writer] = Overwritten(@, Size[x])]
        /\ pc' = "appendSync" /\ cur' = writer /\ id' = x /\ key' = k
     \/ /\ ShortWrites
        /\ \E n \in 1 .. Size[x] - 1 : junk' = [junk EXCEPT ![writer] = Longer(@, n)]
        /\ UNCHANGED <<recs, callVars>>
  /\ UNCHANGED <<name, dname, header, synced, footer, dropped, catalogVars, writer, crashes>>

\* Fault: the record is indexed before it is synchronized.
AppendWithoutSync ==
  /\ pc = "appendSync"
  /\ Goto("appendApply")
  /\ UNCHANGED <<fileVars, catalogVars, writer, crashes>>

AppendSync ==
  /\ pc = "appendSync"
  /\ \/ SyncData(cur) /\ Goto("appendApply") /\ UNCHANGED dropped
     \/ SyncFails(cur) /\ Return
  /\ UNCHANGED <<name, recs, footer, junk, catalogVars, writer, crashes>>

\* One batch publishes the location, the alias and the chunk's new size; when
\* the alias conflicts or the batch fails, the record stays as an orphan.
AppendApply ==
  /\ pc = "appendApply"
  /\ \/ /\ AliasAccepts(key, id)
        /\ loc' = [loc EXCEPT ![id] = [chunk |-> cur, pos |-> Len(recs[cur])]]
        /\ alias' = [alias EXCEPT ![key] = id]
        /\ cstate' = [cstate EXCEPT ![cur] = "Open"]
        /\ ccount' = [ccount EXCEPT ![cur] = Len(recs[cur])]
     \/ UNCHANGED catalogVars
  /\ Return
  /\ UNCHANGED <<fileVars, writer, crashes>>

-----------------------------------------------------------------------------
(* ChunkWriter::seal_and_publish consumes the writer, whatever happens.    *)

Seal ==
  /\ pc = "idle" /\ writer # None
  /\ IF CatalogWritable(writer)
     THEN \/ SyncData(writer) /\ Call("sealFooter", writer) /\ UNCHANGED dropped
          \/ SyncFails(writer) /\ UNCHANGED callVars
     ELSE UNCHANGED <<synced, header, dname, dropped, callVars>>
  /\ writer' = None
  /\ UNCHANGED <<name, recs, footer, junk, catalogVars, crashes>>

SealFooter ==
  /\ pc = "sealFooter"
  /\ \/ /\ footer' = [footer EXCEPT ![cur] = "cached"]
        /\ junk' = [junk EXCEPT ![cur] = Overwritten(@, FooterLen)]
        /\ Goto("sealSync")
     \/ /\ ShortWrites
        /\ \E n \in 1 .. FooterLen - 1 : junk' = [junk EXCEPT ![cur] = Longer(@, n)]
        /\ UNCHANGED footer /\ Return
  /\ UNCHANGED <<name, dname, header, recs, synced, dropped, catalogVars, writer, crashes>>

SealSync ==
  /\ pc = "sealSync"
  /\ \/ footer' = [footer EXCEPT ![cur] = "durable"] /\ Goto("rename")
     \/ UNCHANGED footer /\ Return
  /\ UNCHANGED <<name, dname, header, recs, synced, junk, dropped, catalogVars, writer, crashes>>

Rename ==
  /\ pc = "rename"
  /\ \/ name' = [name EXCEPT ![cur] = "sealed"] /\ Goto("dirSync")
     \/ UNCHANGED name /\ Return
  /\ UNCHANGED <<dname, header, recs, synced, footer, junk, dropped, catalogVars, writer, crashes>>

DirSync ==
  /\ pc = "dirSync"
  /\ \/ dname' = [dname EXCEPT ![cur] = name[cur]] /\ Goto("publishSealed")
     \/ UNCHANGED dname /\ Return
  /\ UNCHANGED <<name, header, recs, synced, footer, junk, dropped, catalogVars, writer, crashes>>

\* Fault: the sealed metadata keeps the count of the last indexed record.
PublishSealedStaleCount ==
  /\ pc = "publishSealed"
  /\ cstate' = [cstate EXCEPT ![cur] = "Sealed"]
  /\ Return
  /\ UNCHANGED <<fileVars, loc, alias, ccount, writer, crashes>>

\* publish_sealed_metadata.  Nothing ever records ChunkState::Retired.
PublishSealed ==
  /\ pc = "publishSealed"
  /\ \/ /\ cstate' = [cstate EXCEPT ![cur] = "Sealed"]
        /\ ccount' = [ccount EXCEPT ![cur] = Len(recs[cur])]
     \/ UNCHANGED <<cstate, ccount>>
  /\ Return
  /\ UNCHANGED <<fileVars, loc, alias, writer, crashes>>

-----------------------------------------------------------------------------
(* Recovery after a restart, or after a failed call.                       *)

\* recover_file: cut the file after the last record the scan accepts, and
\* synchronize it if anything was cut.  synchronized says whether that worked.
RecoverFile(c, synchronized) ==
  \E n \in 0 .. Len(recs[c]) :
    LET truncates == n < Len(recs[c]) \/ junk[c] > 0 \/ footer[c] # "none"
        flushed == truncates /\ synchronized
    IN /\ header[c] # "none"
       /\ ScanEnds(recs[c], n)
       /\ truncates \/ synchronized
       /\ recs' = [recs EXCEPT ![c] = SubSeq(@, 1, n)]
       /\ junk' = [junk EXCEPT ![c] = 0]
       /\ footer' = [footer EXCEPT ![c] = "none"]
       /\ synced' = [synced EXCEPT ![c] = IF (flushed /\ c \notin dropped) \/ n < @ THEN n ELSE @]
       /\ header' = [header EXCEPT ![c] = IF flushed THEN "durable" ELSE @]
       /\ dname' = [dname EXCEPT ![c] = IF flushed /\ SyncPersistsEntry THEN name[c] ELSE @]
       /\ UNCHANGED <<name, dropped>>

OpenRecovered(c) ==
  /\ pc = "idle" /\ writer = None /\ name[c] = "open"
  /\ ~Verifies(c)
  /\ \/ RecoverFile(c, TRUE) /\ writer' = c
     \/ RecoverFile(c, FALSE) /\ UNCHANGED writer
  /\ UNCHANGED <<catalogVars, callVars, crashes>>

\* reconcile_chunk, by what it finds.  A chunk it cannot accept is an error
\* that changes nothing.
ReconcileSealed(c) ==
  /\ pc = "idle" /\ name[c] = "sealed"
  /\ Verifies(c)
  /\ Call("publishSealed", c)
  /\ UNCHANGED <<fileVars, catalogVars, writer, crashes>>

ReconcileInterruptedSeal(c) ==
  /\ pc = "idle" /\ writer # c /\ name[c] = "open"
  /\ Verifies(c)
  /\ Call("rename", c)
  /\ UNCHANGED <<fileVars, catalogVars, writer, crashes>>

ReconcileOpen(c) ==
  /\ pc = "idle" /\ writer # c /\ name[c] = "open"
  /\ ~Verifies(c)
  /\ CatalogWritable(c)
  /\ \/ RecoverFile(c, TRUE) /\ Call("republishOpen", c)
     \/ RecoverFile(c, FALSE) /\ UNCHANGED callVars
  /\ UNCHANGED <<catalogVars, writer, crashes>>

RepublishOpen ==
  /\ pc = "republishOpen"
  /\ \/ PublishOpen(cur)
     \/ UNCHANGED <<cstate, ccount>>
  /\ Return
  /\ UNCHANGED <<fileVars, loc, alias, writer, crashes>>

-----------------------------------------------------------------------------
(* Failures of the process and of the machine.                             *)

\* The process dies; the kernel keeps what was written.
Kill ==
  /\ crashes < MaxCrashes
  /\ pc # "idle" \/ writer # None
  /\ Return /\ writer' = None
  /\ crashes' = crashes + 1
  /\ UNCHANGED <<fileVars, catalogVars>>

\* The machine loses power: of what was not synchronized, any directory entry,
\* header or footer may be lost, a prefix of the records survives, and a torn
\* write may remain after it.  The catalog's synchronous batches survive.
LosePower(lostNames, lostBytes, torn, kept) ==
  LET gone == {c \in lostNames : dname[c] = "absent"}
      After(p, c) == IF p # "cached" THEN p
                     ELSE IF c \in lostBytes THEN "none" ELSE "durable"
      dirty(c) == kept[c] < Len(recs[c]) \/ junk[c] > 0 \/ c \in lostBytes
  IN /\ crashes < MaxCrashes
     /\ \A c \in Chunk : kept[c] \in synced[c] .. Len(recs[c])
     /\ \A c \in lostBytes : header[c] = "cached" => kept[c] = 0
     /\ \A c \in torn : dirty(c)
     /\ name' = [c \in Chunk |-> IF c \in lostNames THEN dname[c] ELSE name[c]]
     /\ dname' = name'
     /\ header' = [c \in Chunk |-> IF c \in gone THEN "none" ELSE After(header[c], c)]
     /\ recs' = [c \in Chunk |-> IF c \in gone THEN <<>> ELSE SubSeq(recs[c], 1, kept[c])]
     /\ synced' = [c \in Chunk |-> IF c \in gone THEN 0 ELSE kept[c]]
     /\ footer' = [c \in Chunk |-> IF c \in gone THEN "none" ELSE After(footer[c], c)]
     /\ junk' = [c \in Chunk |-> IF c \in gone THEN 0
                                 ELSE IF c \in torn THEN 1
                                 ELSE IF footer[c] = "durable" THEN junk[c] ELSE 0]
     /\ dropped' = {}
     /\ Return /\ writer' = None
     /\ crashes' = crashes + 1
     /\ UNCHANGED catalogVars

PowerLoss ==
  \E lostNames \in SUBSET {c \in Chunk : name[c] # dname[c]},
     lostBytes \in SUBSET {c \in Chunk : "cached" \in {header[c], footer[c]}},
     torn \in SUBSET {c \in Chunk : footer[c] # "durable"},
     kept \in [Chunk -> 0 .. MaxRecords] :
    LosePower(lostNames, lostBytes, torn, kept)

-----------------------------------------------------------------------------
CallStep ==
  \/ CreateSync \/ CreateDirSync \/ CreatePublish
  \/ AppendSync \/ AppendApply
  \/ SealFooter \/ SealSync \/ Rename \/ DirSync \/ PublishSealed
  \/ RepublishOpen

Reconcile(c) == ReconcileSealed(c) \/ ReconcileInterruptedSeal(c) \/ ReconcileOpen(c)

Next ==
  \/ \E c \in Chunk : Create(c) \/ OpenRecovered(c) \/ Reconcile(c)
  \/ \E k \in Key, x \in Content : IndexAlias(k, x) \/ AppendRecord(k, x)
  \/ Seal
  \/ CallStep
  \/ Kill
  \/ PowerLoss

Spec == Init /\ [][Next]_vars

-----------------------------------------------------------------------------
(* Properties.                                                             *)

\* read_record_at at the catalog's location finds the record of x, now and
\* after any power loss.
Readable(x) ==
  /\ loc[x] # None
  /\ LET c == loc[x].chunk
         n == loc[x].pos
     IN /\ name[c] # "absent" /\ dname[c] # "absent"
        /\ header[c] = "durable"
        /\ n \in 1 .. synced[c] /\ n <= Len(recs[c])
        /\ recs[c][n] = x

\* Every location in the catalog names a complete, synchronized record of that
\* very content, whatever kill, power loss, failed call or recovery came before:
\* the order append, fdatasync, catalog batch of append_and_index is never undone.
IndexedDurable == \A x \in Content : loc[x] # None => Readable(x)

\* A name resolves to a content the catalog locates: append_and_index puts the
\* alias in the batch that puts the location, or after it.
AliasResolves == \A k \in Key : alias[k] # None => loc[alias[k]] # None

\* The metadata of a sealed chunk counts exactly the records of its file, and
\* all of them are synchronized: seal_and_publish and reconcile_chunk agree on
\* what was sealed.
SealedComplete ==
  \A c \in Chunk : cstate[c] = "Sealed" =>
    /\ ccount[c] = Len(recs[c])
    /\ synced[c] = Len(recs[c])

\* Once the catalog says Sealed, no step, crash or reconciliation changes the
\* chunk's records or makes the catalog call it writable again, even when a
\* power loss brings its `.open` name back.
SealedImmutable ==
  [][\A c \in Chunk : cstate[c] = "Sealed" =>
       /\ cstate'[c] = "Sealed"
       /\ recs'[c] = recs[c]]_vars

\* The names clients can resolve, as a write-once map.
resolves == [k \in Key |-> IF alias[k] # None /\ Readable(alias[k]) THEN alias[k] ELSE None]

Abstract == INSTANCE DurableMap WITH map <- resolves

\* Kills, power losses, orphan records, failed calls and recoveries are
\* invisible to clients: the store implements a write-once durable map.
ImplementsDurableMap == Abstract!Spec

-----------------------------------------------------------------------------
(* The inductive invariant behind IndexedDurable.                          *)

\* What the operating system and the callers must provide for it: a failed
\* fdatasync keeps the pages dirty, one that succeeds on a new file persists
\* its directory entry, and no record exceeds what recovery accepts.
Benign == ~SyncErrorDropsPages /\ SyncPersistsEntry /\ Oversize = {}

\* A file with synchronized records is found again after a power loss, and only
\* a file whose records are all synchronized has a footer.
FilesInv ==
  /\ dropped = {}
  /\ \A c \in Chunk :
       /\ synced[c] <= Len(recs[c])
       /\ synced[c] > 0 => name[c] # "absent" /\ dname[c] # "absent" /\ header[c] = "durable"
       /\ name[c] = "absent" => header[c] = "none" /\ footer[c] = "none"
       /\ header[c] = "none" => recs[c] = <<>>
       /\ footer[c] # "none" => synced[c] = Len(recs[c])

\* The live writer appends to a file with a header and without a footer.
WriterInv ==
  writer # None => name[writer] # "absent" /\ header[writer] # "none" /\ footer[writer] = "none"

\* What a call has established before each of its steps.
CallInv ==
  /\ pc # "idle" => name[cur] # "absent"
  /\ pc \in {"createSync", "createDirSync", "createPublish"} =>
       writer = None /\ header[cur] # "none" /\ footer[cur] = "none"
  /\ pc \in {"appendSync", "appendApply"} =>
       /\ writer = cur /\ loc[id] = None /\ cstate[cur] # "Sealed"
       /\ recs[cur] # <<>> /\ recs[cur][Len(recs[cur])] = id
  /\ pc = "appendApply" => synced[cur] = Len(recs[cur])
  /\ pc = "sealFooter" => writer = None /\ header[cur] # "none" /\ synced[cur] = Len(recs[cur])
  /\ pc \in {"sealSync", "rename", "dirSync", "publishSealed"} => footer[cur] # "none"

\* Together with the safety properties this is preserved by every step of the
\* store: the order write, fdatasync, batch, footer, rename of the code is what
\* makes each conjunct hold when the next step relies on it.
IInv == FilesInv /\ WriterInv /\ CallInv /\ IndexedDurable /\ AliasResolves /\ SealedComplete

-----------------------------------------------------------------------------
(* Statements of the repository that the code does not keep.               *)

\* "A complete footer in an `.open` name means the crash happened after footer
\* synchronization but before rename" (reconcile_chunk): so a file that bears
\* the `.sealed` name never loses its footer.
SealedFileKeepsFooter == \A c \in Chunk : name[c] = "sealed" => footer[c] # "none"

\* "A sealed chunk ends with this fixed 64-byte footer" (docs/format-v1.md).
SealedEndsWithFooter ==
  \A c \in Chunk : name[c] = "sealed" /\ footer[c] # "none" => junk[c] = 0
=============================================================================
