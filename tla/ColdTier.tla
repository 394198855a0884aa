------------------------------ MODULE ColdTier ------------------------------
(***************************************************************************)
(* What a cold-tier backup is made of and what the backup code checks of   *)
(* it.  A tree maps the files of a directory to their contents: one file   *)
(* per chunk, the catalog (a directory taken as one entry) and the pins    *)
(* manifest, for which the configuration and the schema metadata, which    *)
(* are treated alike, stand as well.  A digest is a collision-free         *)
(* function of the content, so it is the content; the bytes of a chunk are *)
(* its header, its records and, once sealed, a footer.  The names of the   *)
(* files sort the same way by path component and by byte.                  *)
(***************************************************************************)
EXTENDS Integers, Functions

CONSTANTS Chunks,          \* the identities of the chunks, in ascending order
          ChunkFile,       \* their file names
          FileOf,          \* the file that holds each chunk
          MaxRecords,      \* bound on the records of a chunk
          CatalogVersion,  \* the schema the catalog code reads
          None

ASSUME FileOfAssumption == FileOf \in [Chunks -> ChunkFile] /\ IsInjective(FileOf)

Authority == {"catalog", "pins"}
Entry == ChunkFile \cup Authority

Classes == {"open", "sealed"}
Damaged == [damaged |-> TRUE]

ChunkContent == [chunk : Chunks, records : 0 .. MaxRecords, class : Classes]

\* The length of a chunk file, in units of a record header: the header, the
\* records and the footer, which is shorter than a record header.
Size(content) == 1 + 2 * content.records + (IF content.class = "sealed" THEN 1 ELSE 0)

-----------------------------------------------------------------------------
(* The descriptor and the caller's map from chunks to files.               *)

\* A ColdTierCheckpointPlan for the chunks a caller saw.
PlanOf(tier, schema, generation) ==
  [schema |-> schema, generation |-> generation,
   prefix |-> [c \in Chunks |-> Size(tier[FileOf[c]])],
   class |-> [c \in Chunks |-> tier[FileOf[c]].class]]

\* validate_cold_descriptor: every prefix holds a chunk header.
ValidDescriptor(plan) == \A c \in Chunks : plan.prefix[c] >= 1

\* The path of a chunk: the name of its file and the suffix that says what it is.
PathTo(tier, file) == [file |-> file, suffix |-> tier[file].class]

\* chunk_path_has_classification.
HasClassification(path, class) == path.suffix = class

\* ColdTierChunkPaths::new: no two chunks share a path.
ValidPaths(paths) == IsInjective(paths)

\* validate_cold_tier_layout; no chunk path overlaps an authority.
ValidLayout(plan, paths) ==
  ValidPaths(paths) /\ \A c \in Chunks : HasClassification(paths[c], plan.class[c])

-----------------------------------------------------------------------------
(* Verification of a tree.                                                 *)

\* Are the bytes from the header to the end of the file complete records?
\* A footer is neither a record nor long enough to be the header of one.
RecordsToTheEnd(content) == content.class # "sealed"

\* checked_cold_chunk_path: is there a regular file at the path?
FileAt(tree, path) == path.file \in DOMAIN tree /\ tree[path.file].class = path.suffix

\* verify_cold_chunk_file.
VerifyColdChunkFile(tree, path, c, plan) ==
  /\ path.file \in DOMAIN tree /\ tree[path.file] \in ChunkContent
  /\ FileAt(tree, path)
  /\ Size(tree[path.file]) = plan.prefix[c]
  /\ tree[path.file].chunk = c
  /\ RecordsToTheEnd(tree[path.file])

\* verify_cold_descriptor_chunks; before there is a manifest it is None.
VerifyChunks(tree, plan, paths, manifest) ==
  \A c \in Chunks :
    /\ manifest # None => /\ paths[c].file \in DOMAIN manifest
                          /\ FileAt(manifest, paths[c])
                          /\ Size(manifest[paths[c].file]) = plan.prefix[c]
    /\ VerifyColdChunkFile(tree, paths[c], c, plan)

\* ColdTierAuthoritativePaths::digests.
Digests(tree) == [a \in Authority |-> tree[a]]

\* verify_cold_descriptor_authority.
VerifyAuthority(tree, digests) == Authority \subseteq DOMAIN tree /\ Digests(tree) = digests

\* verify_tree: the files the manifest names have the bytes it names.
VerifyTree(tree, manifest) ==
  DOMAIN manifest \subseteq DOMAIN tree /\ \A e \in DOMAIN manifest : tree[e] = manifest[e]

\* RocksDbCatalog::validate_checkpoint, and the generation it reports.
ValidCatalog(tree, generation) ==
  "catalog" \in DOMAIN tree /\ tree["catalog"] # Damaged /\ tree["catalog"].generation = generation

=============================================================================
