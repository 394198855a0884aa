----------------------------- MODULE ColdRestore -----------------------------
(***************************************************************************)
(* Restores from a published cold-tier backup.  A restore verifies the     *)
(* backup, copies the files of its manifest into a private directory,      *)
(* verifies the copy and renames it to the destination.  Several restores  *)
(* may race for one destination, the backup can be damaged at any time,    *)
(* and any step can fail or be the last one before the power is lost.      *)
(***************************************************************************)
EXTENDS ColdTier, Sequences, FiniteSets

CONSTANTS Restorer,
          Order,      \* the entries in the order of the manifest
          MaxRestoreFaults   \* bound on damages and power losses

\* What a checkpoint of open chunks publishes.
TakenContent ==
  [generation : {1}, indexed : [Chunks -> 0 .. MaxRecords], sealed : {{}}, pins : {0}]
    \cup [pins : {0}] \cup ChunkContent

\* Chunk files hold chunks, the order is one of files, and None is no tree of files.
ASSUME RestoreAssumption ==
  /\ IsFiniteSet(ChunkFile) /\ \A file \in ChunkFile : \E c \in Chunks : FileOf[c] = file
  /\ Order \in Seq(Entry) /\ MaxRestoreFaults \in Nat
  /\ \A S \in SUBSET Entry : None \notin [S -> TakenContent \cup {Damaged}]

VARIABLES
  published,    \* the published tree
  taken,     \* ghost: the files as the checkpoint published them
  rs,        \* the restore calls
  restored,  \* the files at the destination, or None
  used,      \* has the restored tier been opened and written to?
  restoreFaults, lost  \* faults so far, and whether the power was lost

restoreVars == <<published, taken, rs, restored, used, restoreFaults, lost>>

NoRestore == [pc |-> "idle", cold |-> FALSE, descriptor |-> None, paths |-> None, files |-> << >>]

\* Every variable has its type.
RestoreTypeOK ==
  /\ DOMAIN published.files = Entry
  /\ \A r \in Restorer : rs[r].pc \in {"idle", "copying", "checked"} /\ DOMAIN rs[r].files \subseteq Entry
  /\ restored # None => DOMAIN restored \subseteq Entry
  /\ used \in BOOLEAN /\ restoreFaults \in 0 .. MaxRestoreFaults /\ lost \in BOOLEAN

\* Every backup a checkpoint can publish: of open chunks, with its descriptor
\* or, after a generic checkpoint that did not end, without one.
RestoreInit ==
  \E n \in [Chunks -> 0 .. MaxRecords], described \in BOOLEAN :
    LET files == [e \in Entry |->
          IF e = "catalog" THEN [generation |-> 1, indexed |-> n, sealed |-> {}, pins |-> 0]
          ELSE IF e = "pins" THEN [pins |-> 0]
          ELSE LET c == CHOOSE c \in Chunks : FileOf[c] = e
               IN [chunk |-> c, records |-> n[c], class |-> "open"]]
    IN /\ taken = files
       /\ published = [files |-> files, manifest |-> files,
                    descriptor |-> IF described
                      THEN [plan |-> PlanOf(files, CatalogVersion, 1), digests |-> Digests(files)]
                      ELSE None]
       /\ rs = [r \in Restorer |-> NoRestore] /\ restored = None /\ used = FALSE
       /\ restoreFaults = 0 /\ lost = FALSE

PutRestored(files, e, content) == [x \in DOMAIN files \cup {e} |-> IF x = e THEN content ELSE files[x]]

\* The chunk whose file the caller names for each chunk: its own, or not.
PathOwner == {[c \in Chunks |-> c]} \cup {f \in [Chunks -> Chunks] : \A c \in Chunks : f[c] # c}

\* load_cold_tier_descriptor and the verification of the backup; the plain
\* restore has no descriptor.
VerifyBackup(r, cold, owner) ==
  /\ rs[r].pc = "idle" /\ restored = None
  /\ LET d == published.descriptor
         paths == [c \in Chunks |-> PathTo(published.manifest, FileOf[owner[c]])] IN
       /\ cold => /\ d # None /\ d # Damaged
                  /\ d.plan.schema = CatalogVersion
                  /\ ValidLayout(d.plan, paths)
                  /\ VerifyAuthority(published.files, d.digests)
                  /\ VerifyChunks(published.files, d.plan, paths, published.manifest)
       /\ VerifyTree(published.files, published.manifest)
       /\ rs' = [rs EXCEPT ![r] = [pc |-> "copying", cold |-> cold, descriptor |-> d,
                                   paths |-> paths, files |-> << >>]]
  /\ UNCHANGED <<published, restored, used, taken, restoreFaults, lost>>

\* The copy of one file, in the order of the manifest.
RestoreFile(r) ==
  /\ rs[r].pc = "copying" /\ Len(Order) > Cardinality(DOMAIN rs[r].files)
  /\ LET e == Order[Cardinality(DOMAIN rs[r].files) + 1] IN
       rs' = [rs EXCEPT ![r].files = PutRestored(@, e, published.files[e])]
  /\ UNCHANGED <<published, restored, used, taken, restoreFaults, lost>>

\* Fault: only the backup is verified, not the copy.
VerifyCopied(r) ==
  /\ rs[r].pc = "copying" /\ DOMAIN rs[r].files = DOMAIN published.manifest
  /\ rs' = [rs EXCEPT ![r].pc = "checked"]
  /\ UNCHANGED <<published, restored, used, taken, restoreFaults, lost>>

\* verify_tree and the verification closure on the private copy.
VerifyRestored(r) ==
  /\ rs[r].pc = "copying" /\ DOMAIN rs[r].files = DOMAIN published.manifest
  /\ VerifyTree(rs[r].files, published.manifest)
  /\ rs[r].cold => /\ VerifyAuthority(rs[r].files, rs[r].descriptor.digests)
                   /\ VerifyChunks(rs[r].files, rs[r].descriptor.plan, rs[r].paths, published.manifest)
                   /\ ValidCatalog(rs[r].files, rs[r].descriptor.plan.generation)
  /\ rs' = [rs EXCEPT ![r].pc = "checked"]
  /\ UNCHANGED <<published, restored, used, taken, restoreFaults, lost>>

\* Fault: an existing destination is replaced.
PublishOver(r) ==
  /\ rs[r].pc = "checked"
  /\ restored' = rs[r].files /\ used' = FALSE
  /\ rs' = [rs EXCEPT ![r] = NoRestore]
  /\ UNCHANGED <<published, taken, restoreFaults, lost>>

\* The rename, the parent's synchronization and, for a catalog, its opening.
PublishRestored(r) ==
  /\ rs[r].pc = "checked" /\ restored = None
  /\ restored' = rs[r].files /\ used' = FALSE
  /\ rs' = [rs EXCEPT ![r] = NoRestore]
  /\ UNCHANGED <<published, taken, restoreFaults, lost>>

\* The owner of the restored tier opens it and writes to it.
Use ==
  /\ restored # None /\ ~used /\ used' = TRUE
  /\ UNCHANGED <<published, taken, rs, restored, restoreFaults, lost>>

\* A check or an I/O step fails, or the destination has appeared meanwhile.
RestoreFails(r) ==
  /\ rs[r].pc # "idle"
  /\ rs' = [rs EXCEPT ![r] = NoRestore]
  /\ UNCHANGED <<published, restored, used, taken, restoreFaults, lost>>

-----------------------------------------------------------------------------
\* A file or the descriptor of the backup changes on its medium.
Damage(e) ==
  /\ restoreFaults < MaxRestoreFaults /\ restoreFaults' = restoreFaults + 1
  /\ published' = IF e \in Entry THEN [published EXCEPT !.files[e] = Damaged]
               ELSE [published EXCEPT !.descriptor = IF @ = None THEN None ELSE Damaged]
  /\ UNCHANGED <<taken, rs, restored, used, lost>>

\* The power fails: the entries of the restored subdirectories were never
\* synchronized, so files may be missing, of the catalog's directory too.  Temporary
\* trees keep names nobody reads.
RestorePowerLoss ==
  /\ restoreFaults < MaxRestoreFaults /\ restoreFaults' = restoreFaults + 1 /\ lost' = TRUE
  /\ rs' = [r \in Restorer |-> NoRestore]
  /\ IF restored = None THEN UNCHANGED restored
     ELSE \E kept \in SUBSET DOMAIN restored, torn \in SUBSET {"catalog"} :
            restored' = [e \in kept |-> IF e \in torn THEN Damaged ELSE restored[e]]
  /\ UNCHANGED <<published, taken, used>>

RestoreNext ==
  \/ \E r \in Restorer : \/ \E cold \in BOOLEAN, owner \in PathOwner : VerifyBackup(r, cold, owner)
                         \/ RestoreFile(r) \/ VerifyRestored(r) \/ PublishRestored(r) \/ RestoreFails(r)
  \/ Use
  \/ \E e \in Entry \cup {"descriptor"} : Damage(e)
  \/ RestorePowerLoss

RestoreSpec == RestoreInit /\ [][RestoreNext]_restoreVars

-----------------------------------------------------------------------------
\* A restored destination holds what the checkpoint published, whatever happens
\* to the backup while it is copied, and it is complete unless the power has failed
\* since: then files may be missing, and the catalog part of what it was
\* (restore_with_verification).
RestoredFaithful ==
  restored # None =>
    /\ \A e \in DOMAIN restored :
         \/ restored[e] = taken[e]
         \/ lost /\ e = "catalog" /\ restored[e] = Damaged
    /\ ~lost => DOMAIN restored = Entry

\* A restore never replaces a tier that has been restored and used
\* (restore_with_verification).
UsedKept == [][used => used']_restoreVars

-----------------------------------------------------------------------------
(* The inductive invariant of these properties.                            *)

\* A tree of files is everything the checkpoint published.
IsTaken(files) == DOMAIN files = Entry /\ \A e \in Entry : files[e] = taken[e]

Checked == \A r \in Restorer : rs[r].pc = "checked" => IsTaken(rs[r].files)

\* Nobody changes the manifest, a copy that was verified is what it names, and a
\* destination that was used exists.
RestoreIInv ==
  /\ DOMAIN published = {"files", "manifest", "descriptor"}
  /\ taken \in [Entry -> TakenContent] /\ published.manifest = taken
  /\ rs = [r \in Restorer |-> rs[r]]
  /\ \A r \in Restorer : DOMAIN rs[r] = DOMAIN NoRestore
  /\ Checked
  /\ RestoredFaithful /\ (restored # None => DOMAIN restored \subseteq Entry)
  /\ used => restored # None

\* A published restore is what the checkpoint published unless the power has failed
\* since, and a restored tier that is in use is never replaced.
RestoreFaithful == [](RestoreTypeOK /\ RestoredFaithful) /\ UsedKept
=============================================================================
