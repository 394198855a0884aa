-------------------------- MODULE ChunkStoreProofs --------------------------
(***************************************************************************)
(* Safety and refinement of the chunk store, for every set of chunks,      *)
(* contents and names and every bound.  The last part is about the writer  *)
(* that rotates chunks: each record lies where the one before it ends, and *)
(* the length the writer keeps is where the last one does.                 *)
(***************************************************************************)
EXTENDS ChunkStore, RotatingWriter, TLAPS

-----------------------------------------------------------------------------
(* Types.                                                                  *)

\* A prefix of a sequence has its type.
LEMMA SubSeqType ==
  ASSUME NEW S, NEW s \in Seq(S), NEW n \in 0 .. Len(s)
  PROVE  /\ SubSeq(s, 1, n) \in Seq(S)
         /\ Len(SubSeq(s, 1, n)) = n
         /\ \A i \in 1 .. n : SubSeq(s, 1, n)[i] = s[i]
OBVIOUS

\* Recovery keeps the files' types.
LEMMA RecoverFileType ==
  ASSUME FilesOK, NEW c \in Chunk, NEW b \in BOOLEAN, RecoverFile(c, b)
  PROVE  FilesOK'
  BY SubSeqType DEF FilesOK, RecoverFile, Names, Persistence

\* Synchronizing a file keeps them.
LEMMA SyncType ==
  ASSUME FilesOK, NEW c \in Chunk, SyncData(c) \/ SyncFails(c)
  PROVE  /\ dname' \in [Chunk -> Names]
         /\ header' \in [Chunk -> Persistence]
         /\ synced' \in [Chunk -> Nat]
  <1>1. CASE SyncData(c)
    <2>1. Len(recs[c]) \in Nat
      BY DEF FilesOK
    <2>2. synced' \in [Chunk -> Nat]
      BY <1>1, <2>1 DEF FilesOK, SyncData
    <2>3. header' \in [Chunk -> Persistence]
      BY <1>1 DEF FilesOK, SyncData, Persistence
    <2>4. dname' \in [Chunk -> Names]
      BY <1>1 DEF FilesOK, SyncData
    <2>5. QED
      BY <2>2, <2>3, <2>4
  <1>2. CASE SyncFails(c)
    BY <1>2 DEF FilesOK, SyncFails
  <1>3. QED
    BY <1>1, <1>2

\* So does a power loss.
LEMMA PowerLossType == ASSUME FilesOK, PowerLoss PROVE FilesOK'
  BY SMTT(60), BoundAssumption, SubSeqType DEF FilesOK, PowerLoss, LosePower, Names, Persistence

\* Every step keeps the files' types.
LEMMA FilesStep == ASSUME TypeOK, Next PROVE FilesOK'
  <1> USE DEF TypeOK, catalogVars, callVars, fileVars
  <1>1. ASSUME NEW c \in Chunk, Create(c) PROVE FilesOK'
    <2>1. recs' \in [Chunk -> Seq(Content)]
      <3>1. <<>> \in Seq(Content)
        OBVIOUS
      <3>2. QED
        BY <1>1, <3>1 DEF FilesOK, Create
    <2>2. QED
      BY Zenon, <1>1, <2>1 DEF FilesOK, Create, Names, Persistence
  <1>2. ASSUME NEW c \in Chunk, OpenRecovered(c) PROVE FilesOK'
    BY Zenon, <1>2, RecoverFileType DEF OpenRecovered
  <1>3. ASSUME NEW c \in Chunk, ReconcileSealed(c) \/ ReconcileInterruptedSeal(c) PROVE FilesOK'
    BY <1>3 DEF FilesOK, ReconcileSealed, ReconcileInterruptedSeal
  <1>4. ASSUME NEW c \in Chunk, ReconcileOpen(c) PROVE FilesOK'
    BY Zenon, <1>4, RecoverFileType DEF ReconcileOpen
  <1>5. ASSUME NEW k \in Key, NEW x \in Content, IndexAlias(k, x) PROVE FilesOK'
    BY ZenonT(60), <1>5 DEF FilesOK, IndexAlias
  <1>6. ASSUME NEW k \in Key, NEW x \in Content, AppendRecord(k, x) PROVE FilesOK'
    <2>1. writer \in Chunk /\ Size[x] \in Nat /\ junk[writer] \in Nat
      BY <1>6, SizeAssumption DEF FilesOK, CallOK, AppendRecord
    <2>2. recs' \in [Chunk -> Seq(Content)]
      <3>1. Append(recs[writer], x) \in Seq(Content)
        BY <2>1 DEF FilesOK
      <3>2. QED
        BY ZenonT(60), <1>6, <2>1, <3>1 DEF FilesOK, AppendRecord
    <2>3. junk' \in [Chunk -> Nat]
      <3>1. Overwritten(junk[writer], Size[x]) \in Nat
        BY <2>1 DEF Overwritten
      <3>2. \A n \in 1 .. Size[x] - 1 : Longer(junk[writer], n) \in Nat
        BY <2>1 DEF Longer
      <3>3. PICK n \in Nat : junk' = [junk EXCEPT ![writer] = n]
        BY Zenon, <1>6, <3>1, <3>2 DEF AppendRecord
      <3>4. QED
        BY <2>1, <3>3 DEF FilesOK
    <2>4. QED
      BY ZenonT(60), <1>6, <2>2, <2>3 DEF FilesOK, AppendRecord
  <1>7. CASE Seal
    <2>1. writer \in Chunk
      BY <1>7 DEF CallOK, Seal
    <2>2. SyncData(writer) \/ SyncFails(writer) \/ UNCHANGED <<synced, header, dname>>
      BY <1>7 DEF Seal
    <2>3. dropped' \subseteq Chunk
      BY <1>7, <2>1 DEF FilesOK, Seal, SyncFails
    <2>4. QED
      BY <1>7, <2>1, <2>2, <2>3, SyncType DEF FilesOK, Seal
  <1>8. CASE CreateSync
    <2>1. cur \in Chunk
      BY <1>8 DEF CallOK, CreateSync
    <2>2. QED
      BY Zenon, <1>8, <2>1, SyncType DEF FilesOK, CreateSync
  <1>9. CASE AppendSync
    <2>1. cur \in Chunk
      BY <1>9 DEF CallOK, AppendSync
    <2>2. dropped' \subseteq Chunk
      BY <1>9, <2>1 DEF FilesOK, AppendSync, SyncFails
    <2>3. QED
      BY ZenonT(60), <1>9, <2>1, <2>2, SyncType DEF FilesOK, AppendSync
  <1>10. CASE SealFooter
    <2>1. cur \in Chunk /\ FooterLen \in Nat /\ junk[cur] \in Nat
      BY <1>10, SizeAssumption DEF CallOK, FilesOK, SealFooter
    <2>2. junk' \in [Chunk -> Nat]
      <3>1. \A n \in Nat : Overwritten(junk[cur], FooterLen) \in Nat /\ Longer(junk[cur], n) \in Nat
        BY <2>1 DEF Overwritten, Longer
      <3>2. \E m \in Nat : junk' = [junk EXCEPT ![cur] = m]
        BY SMTT(60), <1>10, <2>1, <3>1 DEF SealFooter
      <3>3. QED
        BY <2>1, <3>2 DEF FilesOK
    <2>3. QED
      BY Zenon, <1>10, <2>1, <2>2 DEF FilesOK, SealFooter, Persistence
  <1>11. CASE CreateDirSync \/ SealSync \/ Rename \/ DirSync
    BY ZenonT(60), <1>11 DEF FilesOK, CallOK, CreateDirSync, SealSync, Rename, DirSync, Names,
         Persistence
  <1>12. CASE CreatePublish \/ AppendApply \/ PublishSealed \/ RepublishOpen \/ Kill
    BY <1>12 DEF FilesOK, CreatePublish, AppendApply, PublishSealed, RepublishOpen, Kill
  <1>13. CASE PowerLoss
    BY <1>13, PowerLossType
  <1>14. QED
    BY <1>1, <1>2, <1>3, <1>4, <1>5, <1>6, <1>7, <1>8, <1>9, <1>10, <1>11, <1>12, <1>13
    DEF Next, CallStep, Reconcile

\* Every step keeps the catalog's types.
LEMMA CatalogStep == ASSUME TypeOK, Next PROVE CatalogOK'
  <1> USE DEF TypeOK, catalogVars
  <1>1. ASSUME NEW c \in Chunk, PublishOpen(c) PROVE /\ cstate' \in [Chunk -> CatalogStates]
                                                    /\ ccount' \in [Chunk -> Nat]
    <2>1. Len(recs[c]) \in Nat
      BY DEF FilesOK
    <2>2. QED
      BY <1>1, <2>1 DEF CatalogOK, PublishOpen, CatalogStates
  <1>2. ASSUME NEW k \in Key, NEW x \in Content, IndexAlias(k, x) PROVE CatalogOK'
    BY <1>2 DEF CatalogOK, IndexAlias
  <1>3. CASE CreatePublish \/ RepublishOpen
    <2>1. cur \in Chunk
      BY <1>3 DEF CallOK, CreatePublish, RepublishOpen
    <2>2. QED
      BY <1>1, <1>3, <2>1 DEF CatalogOK, CreatePublish, RepublishOpen
  <1>4. CASE AppendApply
    <2>1. cur \in Chunk /\ id \in Content /\ key \in Key
      BY <1>4 DEF CallOK, AppendApply
    <2>2. CASE UNCHANGED catalogVars
      BY <2>2 DEF CatalogOK
    <2>3. CASE loc' # loc \/ alias' # alias \/ cstate' # cstate \/ ccount' # ccount
      <3>1. Len(recs[cur]) \in Nat
        BY <2>1 DEF FilesOK
      <3>2. PICK n \in Nat : n = Len(recs[cur])
        BY <3>1
      <3>3. ccount' \in [Chunk -> Nat]
        BY <1>4, <2>1, <2>3, <3>2 DEF CatalogOK, AppendApply
      <3>4. cstate' \in [Chunk -> CatalogStates] /\ alias' \in [Key -> Content \cup {None}]
        BY ZenonT(60), <1>4, <2>1, <2>3 DEF CatalogOK, AppendApply, CatalogStates
      <3>5. loc' \in [Content -> Location \cup {None}]
        BY SMTT(60), <1>4, <2>1, <2>3, <3>2 DEF CatalogOK, AppendApply, Location
      <3>6. QED
        BY <3>3, <3>4, <3>5 DEF CatalogOK
    <2>4. QED
      BY <2>2, <2>3
  <1>5. CASE PublishSealed
    <2>1. cur \in Chunk
      BY <1>5 DEF CallOK, PublishSealed
    <2>2. Len(recs[cur]) \in Nat
      BY <2>1 DEF FilesOK
    <2>3. ccount' \in [Chunk -> Nat]
      BY Zenon, <1>5, <2>1, <2>2 DEF CatalogOK, PublishSealed
    <2>4. cstate' \in [Chunk -> CatalogStates] /\ UNCHANGED <<loc, alias>>
      BY Zenon, <1>5, <2>1 DEF CatalogOK, PublishSealed, CatalogStates
    <2>5. QED
      BY Zenon, <2>3, <2>4 DEF CatalogOK
  <1>6. CASE UNCHANGED catalogVars
    BY <1>6 DEF CatalogOK
  <1>7. QED
    BY ZenonT(60), <1>2, <1>3, <1>4, <1>5, <1>6
    DEF Next, CallStep, Reconcile, Create, OpenRecovered, ReconcileSealed, ReconcileInterruptedSeal,
        ReconcileOpen, AppendRecord, Seal, CreateSync, CreateDirSync, AppendSync, SealFooter,
        SealSync, Rename, DirSync, Kill, PowerLoss, LosePower

\* Every step keeps the types of the call in progress.
LEMMA CallStepType == ASSUME TypeOK, Next PROVE CallOK'
  <1> USE DEF TypeOK, CallOK, callVars, Return, Goto, Call, Steps
  <1>1. ASSUME NEW c \in Chunk, Create(c) \/ OpenRecovered(c) \/ Reconcile(c) PROVE CallOK'
    BY ZenonT(60), <1>1 DEF Create, OpenRecovered, Reconcile, ReconcileSealed,
         ReconcileInterruptedSeal, ReconcileOpen
  <1>2. ASSUME NEW k \in Key, NEW x \in Content, IndexAlias(k, x) \/ AppendRecord(k, x) PROVE CallOK'
    BY ZenonT(60), <1>2 DEF IndexAlias, AppendRecord
  <1>3. CASE Seal
    BY ZenonT(60), <1>3 DEF Seal
  <1>4. CASE CallStep
    BY ZenonT(60), <1>4 DEF CallStep, CreateSync, CreateDirSync, CreatePublish, AppendSync,
         AppendApply,
                SealFooter, SealSync, Rename, DirSync, PublishSealed, RepublishOpen
  <1>5. CASE Kill \/ PowerLoss
    BY <1>5, BoundAssumption DEF Kill, PowerLoss, LosePower
  <1>6. QED
    BY <1>1, <1>2, <1>3, <1>4, <1>5 DEF Next

\* Every step keeps the types.
LEMMA TypeStep == ASSUME TypeOK, [Next]_vars PROVE TypeOK'
  <1>1. CASE Next
    BY ZenonT(60), <1>1, FilesStep, CatalogStep, CallStepType DEF TypeOK
  <1>2. CASE UNCHANGED vars
    BY ZenonT(60), <1>2 DEF TypeOK, FilesOK, CatalogOK, CallOK, vars, fileVars, catalogVars,
         callVars
  <1>3. QED
    BY <1>1, <1>2

\* The store starts with its types.
LEMMA TypeInit == Init => TypeOK
  BY BoundAssumption DEF Init, TypeOK, FilesOK, CatalogOK, CallOK, Names, Persistence,
       CatalogStates, Steps

\* No operation, failure or recovery leaves the state space of the model: in
\* particular every catalog location is a chunk and a position, and a
\* call in progress always has its arguments.
THEOREM TypeCorrect == Spec => []TypeOK
  BY TypeInit, TypeStep, PTL DEF Spec

-----------------------------------------------------------------------------
(* The helpers of the operations, under the inductive invariant.           *)

\* What synchronizing a file makes durable.
LEMMA SyncEffect ==
  ASSUME Benign, FilesOK, dropped = {}, NEW c \in Chunk, SyncData(c)
  PROVE  /\ synced'[c] = Len(recs[c]) /\ header'[c] = "durable" /\ dname'[c] = name[c]
         /\ \A d \in Chunk \ {c} : /\ synced'[d] = synced[d]
                                   /\ header'[d] = header[d]
                                   /\ dname'[d] = dname[d]
  BY ZenonT(60) DEF Benign, FilesOK, SyncData

\* Recovery cuts no record when all of them are acceptable.
LEMMA RecoverEffect ==
  ASSUME Benign, FilesOK, FilesInv, NEW c \in Chunk, NEW b \in BOOLEAN, RecoverFile(c, b)
  PROVE  /\ name' = name /\ recs' = recs /\ dropped' = {}
         /\ header[c] # "none" /\ header'[c] \in {header[c], "durable"}
         /\ synced'[c] >= synced[c] /\ synced'[c] <= Len(recs[c])
         /\ synced'[c] # synced[c] => header'[c] = "durable" /\ dname'[c] = name[c]
         /\ dname'[c] \in {dname[c], name[c]}
         /\ footer'[c] = "none"
         /\ \A d \in Chunk \ {c} : /\ synced'[d] = synced[d]
                                   /\ header'[d] = header[d]
                                   /\ footer'[d] = footer[d]
                                   /\ dname'[d] = dname[d]
  <1>1. PICK n \in 0 .. Len(recs[c]) :
          LET truncates == n < Len(recs[c]) \/ junk[c] > 0 \/ footer[c] # "none"
              flushed == truncates /\ b
          IN /\ header[c] # "none"
             /\ ScanEnds(recs[c], n)
             /\ recs' = [recs EXCEPT ![c] = SubSeq(@, 1, n)]
             /\ footer' = [footer EXCEPT ![c] = "none"]
             /\ synced' = [synced EXCEPT ![c] = IF (flushed /\ c \notin dropped) \/ n < @ THEN n ELSE @]
             /\ header' = [header EXCEPT ![c] = IF flushed THEN "durable" ELSE @]
             /\ dname' = [dname EXCEPT ![c] = IF flushed /\ SyncPersistsEntry THEN name[c] ELSE @]
             /\ UNCHANGED <<name, dropped>>
    BY Zenon DEF RecoverFile
  <1>2. recs[c] \in Seq(Content) /\ n = Len(recs[c])
    BY SMTT(60), <1>1 DEF Benign, FilesOK, ScanEnds
  <1>3. SubSeq(recs[c], 1, n) = recs[c]
    BY SMTT(60), <1>2
  <1>4. recs' = recs
    BY <1>1, <1>3 DEF FilesOK
  <1>5. synced[c] \in Nat /\ synced[c] <= n
    BY ZenonT(60), <1>2 DEF FilesOK, FilesInv
  <1>6. QED
    BY <1>1, <1>2, <1>4, <1>5 DEF Benign, FilesOK, FilesInv

\* A power loss keeps the synchronized records, and what it keeps is on disk.
LEMMA PowerLossEffect ==
  ASSUME FilesOK, FilesInv, PowerLoss, NEW c \in Chunk
  PROVE  /\ dname'[c] = name'[c] /\ name'[c] \in {name[c], dname[c]}
         /\ synced'[c] = Len(recs'[c]) /\ synced[c] <= synced'[c] /\ synced'[c] <= Len(recs[c])
         /\ \A i \in 1 .. synced'[c] : recs'[c][i] = recs[c][i]
         /\ synced'[c] > 0 => name'[c] # "absent" /\ header'[c] = "durable"
         /\ name'[c] = "absent" => header'[c] = "none" /\ footer'[c] = "none"
         /\ synced[c] = Len(recs[c]) => recs'[c] = recs[c]
  <1> DEFINE After(p, lostBytes) == IF p # "cached" THEN p
                                    ELSE IF c \in lostBytes THEN "none" ELSE "durable"
  <1>0. PICK lostNames \in SUBSET {d \in Chunk : name[d] # dname[d]},
             lostBytes \in SUBSET {d \in Chunk : "cached" \in {header[d], footer[d]}},
             torn \in SUBSET {d \in Chunk : footer[d] # "durable"},
             kept \in [Chunk -> 0 .. MaxRecords] :
          LosePower(lostNames, lostBytes, torn, kept)
    BY ZenonT(60) DEF PowerLoss
  <1>1. LET gone == c \in lostNames /\ dname[c] = "absent"
        IN /\ kept[c] \in synced[c] .. Len(recs[c])
           /\ c \in lostBytes /\ header[c] = "cached" => kept[c] = 0
           /\ name'[c] = IF c \in lostNames THEN dname[c] ELSE name[c]
           /\ dname'[c] = name'[c]
           /\ header'[c] = IF gone THEN "none" ELSE After(header[c], lostBytes)
           /\ recs'[c] = IF gone THEN <<>> ELSE SubSeq(recs[c], 1, kept[c])
           /\ synced'[c] = IF gone THEN 0 ELSE kept[c]
           /\ footer'[c] = IF gone THEN "none" ELSE After(footer[c], lostBytes)
    BY ZenonT(60), <1>0 DEF LosePower
  <1>2. /\ recs[c] \in Seq(Content) /\ synced[c] \in Nat /\ Len(recs[c]) \in Nat
        /\ header[c] \in Persistence
    BY SMTT(60) DEF FilesOK
  <1>3. CASE c \in lostNames /\ dname[c] = "absent"
    <2>1. synced[c] = 0
      BY SMTT(60), <1>2, <1>3 DEF FilesInv
    <2>2. synced[c] = Len(recs[c]) => recs[c] = <<>>
      BY SMTT(60), <1>2, <2>1
    <2>3. name[c] # "absent" /\ name'[c] = "absent"
      BY ZenonT(60), <1>1, <1>3
    <2>4. QED
      BY SMTT(60), <1>1, <1>2, <1>3, <2>1, <2>2, <2>3
  <1>4. CASE ~(c \in lostNames /\ dname[c] = "absent")
    <2>1. kept[c] \in 0 .. Len(recs[c])
      BY SMTT(60), <1>1, <1>2
    <2>2. recs'[c] = SubSeq(recs[c], 1, kept[c]) /\ synced'[c] = kept[c]
      BY <1>1, <1>4
    <2>3. Len(recs'[c]) = kept[c] /\ \A i \in 1 .. kept[c] : recs'[c][i] = recs[c][i]
      BY SMTT(60), <1>2, <2>1, <2>2, SubSeqType
    <2>4. synced[c] = Len(recs[c]) => recs'[c] = recs[c]
      <3>1. synced[c] = Len(recs[c]) => kept[c] = Len(recs[c])
        BY SMTT(60), <1>1, <1>2
      <3>2. SubSeq(recs[c], 1, Len(recs[c])) = recs[c]
        BY SMTT(60), <1>2
      <3>3. QED
        BY ZenonT(60), <2>2, <3>1, <3>2
    <2>5. kept[c] > 0 => header[c] # "none" /\ name[c] # "absent"
      BY SMTT(60), <1>2, <2>1 DEF FilesInv
    <2>6. name'[c] = "absent" => name[c] = "absent" /\ header'[c] = "none" /\ footer'[c] = "none"
      BY ZenonT(60), <1>1, <1>4 DEF FilesInv
    <2>7. kept[c] > 0 => header'[c] = "durable"
      BY SMTT(60), <1>1, <1>2, <1>4, <2>5 DEF Persistence
    <2>8. QED
      BY SMTT(60), <1>1, <1>2, <2>1, <2>2, <2>3, <2>4, <2>5, <2>6, <2>7
  <1>5. QED
    BY ZenonT(60), <1>3, <1>4

-----------------------------------------------------------------------------
(* The inductive invariant.                                                *)

\* Every step preserves what is known of the files.
LEMMA FilesInvStep == ASSUME Benign, TypeOK, IInv, Next PROVE FilesInv'
  <1> DEFINE Good(c) ==
        /\ synced[c] <= Len(recs[c])
        /\ synced[c] > 0 => name[c] # "absent" /\ dname[c] # "absent" /\ header[c] = "durable"
        /\ name[c] = "absent" => header[c] = "none" /\ footer[c] = "none"
        /\ header[c] = "none" => recs[c] = <<>>
        /\ footer[c] # "none" => synced[c] = Len(recs[c])
  <1> USE DEF TypeOK, catalogVars, callVars, fileVars
  <1>1. FilesInv /\ FilesOK /\ WriterInv /\ CallInv /\ CallOK
    BY ZenonT(60) DEF IInv
  <1>2. ASSUME NEW c \in Chunk, Create(c) PROVE FilesInv'
    <2>1. recs[c] = <<>> /\ synced[c] = 0
      BY SMTT(60), <1>1, <1>2 DEF FilesInv, FilesOK, Create
    <2>2. recs' = recs
      BY ZenonT(60), <1>2, <2>1 DEF FilesOK, Create
    <2>3. QED
      BY ZenonT(60), <1>1, <1>2, <2>1, <2>2 DEF FilesInv, FilesOK, Create
  <1>3. ASSUME NEW c \in Chunk, NEW b \in BOOLEAN, RecoverFile(c, b), name[c] = "open" PROVE FilesInv'
    <2>1. \A d \in Chunk : Good(d)'
      <3> SUFFICES ASSUME NEW d \in Chunk PROVE Good(d)'
        BY ZenonT(60)
      <3>1. synced[c] \in Nat /\ synced'[c] \in Nat /\ Len(recs[c]) \in Nat
        BY SMTT(60), <1>3, RecoverFileType DEF FilesOK
      <3>2. CASE d = c
        BY ZenonT(60), <1>1, <1>3, <3>1, <3>2, RecoverEffect DEF FilesInv
      <3>3. CASE d # c
        BY ZenonT(60), <1>1, <1>3, <3>3, RecoverEffect DEF FilesInv
      <3>4. QED
        BY ZenonT(60), <3>2, <3>3
    <2>2. QED
      BY ZenonT(60), <1>1, <1>3, <2>1, RecoverEffect DEF FilesInv
  <1>4. ASSUME NEW c \in Chunk, OpenRecovered(c) \/ ReconcileOpen(c) PROVE FilesInv'
    BY ZenonT(60), <1>3, <1>4 DEF OpenRecovered, ReconcileOpen
  <1>5. ASSUME NEW k \in Key, NEW x \in Content, AppendRecord(k, x) PROVE FilesInv'
    <2>1. writer \in Chunk /\ WriterInv
      BY ZenonT(60), <1>1, <1>5 DEF CallOK, AppendRecord
    <2>2. CASE UNCHANGED recs
      BY ZenonT(60), <1>1, <1>5, <2>2 DEF FilesInv, AppendRecord
    <2>3. CASE recs' = [recs EXCEPT ![writer] = Append(@, x)]
      <3>1. /\ Len(Append(recs[writer], x)) = Len(recs[writer]) + 1
            /\ Len(recs[writer]) \in Nat /\ synced[writer] \in Nat
        BY SMTT(60), <2>1 DEF FilesOK
      <3>2. /\ recs'[writer] = Append(recs[writer], x)
            /\ \A d \in Chunk \ {writer} : recs'[d] = recs[d]
        BY ZenonT(60), <2>1, <2>3 DEF FilesOK
      <3>3. Good(writer)'
        <4>1. UNCHANGED <<writer, synced, name, dname, header, footer>>
          BY ZenonT(60), <1>5, <2>3 DEF AppendRecord
        <4>2. Good(writer) /\ header[writer] # "none" /\ footer[writer] = "none" /\ name[writer] # "absent"
          BY ZenonT(60), <1>1, <2>1, NoneAssumption DEF FilesInv, WriterInv
        <4>3. PICK n \in Nat, m \in Nat : n = synced[writer] /\ m = Len(recs[writer])
          BY Zenon, <3>1
        <4>4. n <= m /\ Len(Append(recs[writer], x)) = m + 1 BY Zenon, <3>1, <4>2, <4>3
        <4>5. n <= m + 1 BY ONLY SMTT(60), <4>4, n \in Nat, m \in Nat
        <4> QED BY ZenonT(60), <3>2, <4>1, <4>2, <4>3, <4>4, <4>5
      <3>4. \A d \in Chunk \ {writer} : Good(d)'
        BY ZenonT(60), <1>1, <1>5, <3>2 DEF FilesInv, AppendRecord
      <3>5. QED
        BY ZenonT(60), <1>1, <1>5, <2>1, <3>3, <3>4 DEF FilesInv, AppendRecord
    <2>4. QED
      BY ZenonT(60), <1>5, <2>2, <2>3 DEF AppendRecord
  <1>6. ASSUME NEW c \in Chunk, SyncData(c), name[c] # "absent",
               UNCHANGED <<name, recs, footer, dropped>> PROVE FilesInv'
    <2>1. Len(recs[c]) <= Len(recs[c])
      BY SMTT(60) DEF FilesOK
    <2>2. Good(c)'
      BY ZenonT(60), <1>1, <1>6, <2>1, SyncEffect DEF FilesInv
    <2>3. \A d \in Chunk \ {c} : Good(d)'
      BY ZenonT(60), <1>1, <1>6, SyncEffect DEF FilesInv
    <2>4. QED
      BY ZenonT(60), <1>1, <1>6, <2>2, <2>3 DEF FilesInv
  <1>7. ASSUME UNCHANGED <<name, recs, footer, synced, header, dname, dropped>> PROVE FilesInv'
    BY ZenonT(60), <1>1, <1>7 DEF FilesInv
  <1>8. CASE Seal
    <2>1. writer \in Chunk /\ name[writer] # "absent"
      BY ZenonT(60), <1>1, <1>8 DEF CallOK, Seal, WriterInv
    <2>2. (SyncData(writer) /\ UNCHANGED dropped) \/ UNCHANGED <<synced, header, dname, dropped>>
      BY <1>8 DEF Seal, SyncFails, Benign
    <2>3. QED
      BY ZenonT(60), <1>6, <1>7, <1>8, <2>1, <2>2 DEF Seal
  <1>9. CASE CreateSync \/ AppendSync
    <2>1. cur \in Chunk /\ name[cur] # "absent"
      BY <1>1, <1>9 DEF CallOK, CallInv, CreateSync, AppendSync
    <2>2. (SyncData(cur) /\ UNCHANGED dropped) \/ UNCHANGED <<synced, header, dname, dropped>>
      BY ZenonT(60), <1>9 DEF CreateSync, AppendSync, SyncFails, Benign
    <2>3. QED
      BY ZenonT(60), <1>6, <1>7, <1>9, <2>1, <2>2 DEF CreateSync, AppendSync
  <1>10. CASE CreateDirSync \/ DirSync \/ Rename
    <2>1. cur \in Chunk /\ name[cur] # "absent"
      BY ZenonT(60), <1>1, <1>10 DEF CallOK, CallInv, CreateDirSync, DirSync, Rename
    <2>2. QED
      BY ZenonT(60), <1>1, <1>10, <2>1 DEF FilesInv, FilesOK, CreateDirSync, DirSync, Rename
  <1>11. CASE SealFooter \/ SealSync
    <2>1. cur \in Chunk /\ name[cur] # "absent" /\ synced[cur] = Len(recs[cur])
      BY ZenonT(60), <1>1, <1>11 DEF CallOK, CallInv, FilesInv, SealFooter, SealSync
    <2>2. QED
      BY ZenonT(60), <1>1, <1>11, <2>1 DEF FilesInv, FilesOK, SealFooter, SealSync
  <1>12. CASE PowerLoss
    <2>1. \A c \in Chunk : Good(c)'
      <3> SUFFICES ASSUME NEW c \in Chunk PROVE Good(c)'
        BY ZenonT(60)
      <3>1. recs'[c] \in Seq(Content) /\ synced'[c] \in Nat
        BY ZenonT(60), <1>12, PowerLossType DEF FilesOK
      <3>2. synced'[c] = 0 => recs'[c] = <<>>
        BY SMTT(60), <1>1, <1>12, <3>1, PowerLossEffect
      <3>3. QED
        BY SMTT(60), <1>1, <1>12, <3>1, <3>2, PowerLossEffect
    <2>2. QED
      BY ZenonT(60), <1>12, <2>1 DEF FilesInv, PowerLoss, LosePower
  <1>13. QED
    BY ZenonT(60), <1>2, <1>4, <1>5, <1>7, <1>8, <1>9, <1>10, <1>11, <1>12
    DEF Next, CallStep, Reconcile, ReconcileSealed, ReconcileInterruptedSeal, IndexAlias,
        CreatePublish, AppendApply, PublishSealed, RepublishOpen, Kill

\* Every step preserves what is known of the writer.
LEMMA WriterInvStep == ASSUME Benign, TypeOK, IInv, Next PROVE WriterInv'
  <1> USE DEF TypeOK, catalogVars, callVars, fileVars
  <1>1. FilesInv /\ FilesOK /\ WriterInv /\ CallInv /\ CallOK
    BY DEF IInv
  <1>2. ASSUME NEW c \in Chunk, Create(c) PROVE WriterInv'
    BY <1>2 DEF WriterInv, Create
  <1>3. ASSUME NEW c \in Chunk, OpenRecovered(c) PROVE WriterInv'
    BY ZenonT(60), <1>1, <1>3, RecoverEffect DEF WriterInv, OpenRecovered
  <1>4. ASSUME NEW c \in Chunk, ReconcileOpen(c) PROVE WriterInv'
    <2>1. writer = None \/ writer \in Chunk \ {c}
      BY ZenonT(60), <1>1, <1>4 DEF CallOK, ReconcileOpen
    <2>2. QED
      BY ZenonT(60), <1>1, <1>4, <2>1, RecoverEffect DEF WriterInv, ReconcileOpen
  <1>5. ASSUME NEW k \in Key, NEW x \in Content, IndexAlias(k, x) \/ AppendRecord(k, x) PROVE WriterInv'
    BY ZenonT(60), <1>1, <1>5 DEF WriterInv, IndexAlias, AppendRecord
  <1>6. CASE CreateSync \/ AppendSync
    <2>1. cur \in Chunk /\ dropped = {}
      BY ZenonT(60), <1>1, <1>6 DEF CallOK, FilesInv, CreateSync, AppendSync
    <2>2. header' = header \/ /\ header'[cur] = "durable"
                              /\ \A d \in Chunk \ {cur} : header'[d] = header[d]
      BY ZenonT(60), <1>1, <1>6, <2>1, SyncEffect DEF CreateSync, AppendSync, SyncFails
    <2>3. QED
      BY ZenonT(60), <1>1, <1>6, <2>1, <2>2 DEF WriterInv, CallOK, CreateSync, AppendSync
  <1>7. CASE CreateDirSync \/ AppendApply \/ PublishSealed \/ RepublishOpen \/ DirSync
    BY ZenonT(60), <1>1, <1>7 DEF WriterInv, CreateDirSync, AppendApply, PublishSealed,
         RepublishOpen, DirSync
  <1>8. CASE CreatePublish
    BY ZenonT(60), <1>1, <1>8 DEF WriterInv, CallInv, CreatePublish
  <1>9. CASE SealFooter
    BY ZenonT(60), <1>1, <1>9 DEF WriterInv, CallInv, SealFooter
  <1>10. CASE SealSync \/ Rename
    <2>1. cur \in Chunk /\ footer[cur] # "none"
      BY ZenonT(60), <1>1, <1>10 DEF CallOK, CallInv, SealSync, Rename
    <2>2. writer = None \/ writer \in Chunk \ {cur}
      BY ZenonT(60), <1>1, <2>1 DEF CallOK, WriterInv
    <2>3. QED
      BY ZenonT(60), <1>1, <1>10, <2>1, <2>2 DEF WriterInv, FilesOK, SealSync, Rename
  <1>11. CASE Seal \/ Kill \/ PowerLoss
    BY ZenonT(60), <1>11 DEF WriterInv, Seal, Kill, PowerLoss, LosePower
  <1>12. ASSUME NEW c \in Chunk, ReconcileSealed(c) \/ ReconcileInterruptedSeal(c) PROVE WriterInv'
    BY ZenonT(60), <1>1, <1>12 DEF WriterInv, ReconcileSealed, ReconcileInterruptedSeal
  <1>13. QED
    BY ZenonT(60), <1>2, <1>3, <1>4, <1>5, <1>6, <1>7, <1>8, <1>9, <1>10, <1>11, <1>12
    DEF Next, CallStep, Reconcile

\* Every step preserves what is known of the call in progress.
LEMMA CallInvStep == ASSUME Benign, TypeOK, IInv, Next PROVE CallInv'
  <1> USE DEF TypeOK, catalogVars, callVars, fileVars, Return, Goto, Call
  <1>1. FilesInv /\ FilesOK /\ WriterInv /\ CallInv /\ CallOK
    BY DEF IInv
  <1>2. ASSUME pc' = "idle" PROVE CallInv'
    BY ZenonT(60), <1>2 DEF CallInv
  <1>3. ASSUME NEW c \in Chunk, Create(c) PROVE CallInv'
    <2>1. CASE pc' = "idle"
      BY ZenonT(60), <1>2, <2>1
    <2>2. CASE pc' = "createSync"
      BY <1>1, <1>3, <2>2 DEF CallInv, FilesOK, FilesInv, Create
    <2>3. QED
      BY <1>3, <2>1, <2>2 DEF Create
  <1>4. ASSUME NEW c \in Chunk, OpenRecovered(c) PROVE CallInv'
    BY ZenonT(60), <1>2, <1>4 DEF OpenRecovered
  <1>5. ASSUME NEW c \in Chunk, ReconcileSealed(c) \/ ReconcileInterruptedSeal(c) PROVE CallInv'
    BY ZenonT(60), <1>5 DEF CallInv, ReconcileSealed, ReconcileInterruptedSeal, Verifies
  <1>6. ASSUME NEW c \in Chunk, ReconcileOpen(c) PROVE CallInv'
    <2>1. CASE pc' = "idle"
      BY <1>2, <2>1
    <2>2. CASE pc' = "republishOpen"
      BY Zenon, <1>1, <1>6, <2>2, RecoverEffect DEF CallInv, ReconcileOpen
    <2>3. QED
      BY ZenonT(60), <1>6, <2>1, <2>2 DEF ReconcileOpen
  <1>7. ASSUME NEW k \in Key, NEW x \in Content, IndexAlias(k, x) PROVE CallInv'
    BY ZenonT(60), <1>2, <1>7 DEF IndexAlias
  <1>8. ASSUME NEW k \in Key, NEW x \in Content, AppendRecord(k, x) PROVE CallInv'
    <2>1. CASE pc' = "idle"
      BY ZenonT(60), <1>2, <2>1
    <2>2. CASE pc' = "appendSync"
      <3>1. writer \in Chunk /\ recs[writer] \in Seq(Content)
        BY ZenonT(60), <1>1, <1>8 DEF CallOK, FilesOK, AppendRecord
      <3>2. recs'[writer] = Append(recs[writer], x)
        BY ZenonT(60), <1>1, <1>8, <2>2, <3>1 DEF FilesOK, AppendRecord
      <3>3. recs'[writer] # <<>> /\ recs'[writer][Len(recs'[writer])] = x
        BY SMTT(60), <3>1, <3>2
      <3>4. /\ pc' = "appendSync" /\ cur' = writer /\ writer' = writer /\ id' = x /\ name' = name
            /\ loc'[x] = None /\ cstate'[writer] # "Sealed" /\ name[writer] # "absent"
        BY ZenonT(60), <1>1, <1>8, <2>2, <3>1 DEF WriterInv, AppendRecord, CatalogWritable
      <3>5. QED
        BY ZenonT(60), <3>3, <3>4 DEF CallInv
    <2>3. QED
      BY ZenonT(60), <1>8, <2>1, <2>2 DEF AppendRecord
  <1>9. CASE Seal
    <2>1. CASE pc' = "idle"
      BY ZenonT(60), <1>2, <2>1
    <2>2. CASE pc' = "sealFooter"
      <3>1. /\ writer \in Chunk /\ writer # None /\ SyncData(writer)
            /\ cur' = writer /\ UNCHANGED <<name, recs>> /\ writer' = None
        BY ZenonT(60), <1>1, <1>9, <2>2 DEF CallOK, Seal
      <3>2. synced'[writer] = Len(recs[writer]) /\ header'[writer] = "durable"
        BY ZenonT(60), <1>1, <3>1, SyncEffect DEF FilesInv
      <3>3. QED
        BY ZenonT(60), <1>1, <2>2, <3>1, <3>2 DEF CallInv, WriterInv, Seal
    <2>3. QED
      BY <1>9, <2>1, <2>2 DEF Seal
  <1>10. CASE CreateSync \/ AppendSync
    <2>1. CASE pc' = "idle"
      BY <1>2, <2>1
    <2>2. CASE pc' # "idle"
      <3>1. cur \in Chunk /\ SyncData(cur) /\ UNCHANGED <<name, recs, footer, writer, cur, id, loc, cstate>>
        BY ZenonT(60), <1>1, <1>10, <2>2 DEF CallOK, CreateSync, AppendSync
      <3>2. synced'[cur] = Len(recs[cur]) /\ header'[cur] = "durable"
        BY ZenonT(60), <1>1, <3>1, SyncEffect DEF FilesInv
      <3>3. \/ pc = "createSync" /\ pc' = "createDirSync"
            \/ pc = "appendSync" /\ pc' = "appendApply"
        BY ZenonT(60), <1>10, <2>2 DEF CreateSync, AppendSync
      <3>4. QED
        BY ZenonT(60), <1>1, <3>1, <3>2, <3>3 DEF CallInv
    <2>3. QED
      BY ZenonT(60), <2>1, <2>2
  <1>11. CASE CreateDirSync \/ DirSync
    BY ZenonT(60), <1>1, <1>2, <1>11 DEF CallInv, CreateDirSync, DirSync
  <1>12. CASE SealFooter \/ SealSync \/ Rename
    <2>1. cur \in Chunk
      BY ZenonT(60), <1>1, <1>12 DEF CallOK, SealFooter, SealSync, Rename
    <2>2. CASE pc' = "idle"
      BY <1>2, <2>2
    <2>3. CASE pc' # "idle"
      BY ZenonT(60), <1>1, <1>12, <2>1, <2>3 DEF CallInv, FilesOK, SealFooter, SealSync, Rename
    <2>4. QED
      BY <2>2, <2>3
  <1>13. CASE CreatePublish \/ AppendApply \/ PublishSealed \/ RepublishOpen \/ Kill \/ PowerLoss
    BY ZenonT(60), <1>2, <1>13 DEF CreatePublish, AppendApply, PublishSealed, RepublishOpen,
         Kill, PowerLoss, LosePower
  <1>14. QED
    BY ZenonT(60), <1>3, <1>4, <1>5, <1>6, <1>7, <1>8, <1>9, <1>10, <1>11, <1>12, <1>13
    DEF Next, CallStep, Reconcile

\* No step forgets or changes a synchronized record.
LEMMA PrefixKept ==
  ASSUME Benign, TypeOK, IInv, Next, NEW c \in Chunk, NEW n \in 1 .. synced[c]
  PROVE  n \in 1 .. synced'[c] /\ recs'[c][n] = recs[c][n]
  <1> USE DEF TypeOK, catalogVars, callVars, fileVars
  <1>1. FilesInv /\ FilesOK /\ WriterInv /\ CallInv /\ CallOK
    BY ZenonT(60) DEF IInv
  <1>2. /\ recs[c] \in Seq(Content) /\ synced[c] \in Nat /\ synced[c] <= Len(recs[c])
        /\ name[c] # "absent"
    BY <1>1 DEF FilesOK, FilesInv
  <1>3. ASSUME NEW d \in Chunk, Create(d) PROVE synced'[c] = synced[c] /\ recs'[c] = recs[c]
    BY ZenonT(60), <1>1, <1>2, <1>3 DEF Create, FilesOK
  <1>4. ASSUME NEW d \in Chunk, OpenRecovered(d) \/ ReconcileOpen(d)
        PROVE  n \in 1 .. synced'[c] /\ recs'[c] = recs[c]
    <2>1. PICK b \in BOOLEAN : RecoverFile(d, b)
      BY Zenon, <1>4 DEF OpenRecovered, ReconcileOpen
    <2>2. recs' = recs /\ synced'[c] \in Nat
      BY ZenonT(60), <1>1, <2>1, RecoverEffect, RecoverFileType DEF FilesOK
    <2>3. CASE c = d
      <3>1. synced'[c] >= synced[c]
        BY ZenonT(60), <1>1, <2>1, <2>3, RecoverEffect
      <3>2. QED
        BY SMTT(60), <1>2, <2>2, <3>1
    <2>4. CASE c # d
      BY ZenonT(60), <1>1, <1>2, <2>1, <2>2, <2>4, RecoverEffect
    <2>5. QED
      BY Zenon, <2>3, <2>4
  <1>5. ASSUME NEW k \in Key, NEW x \in Content, AppendRecord(k, x)
        PROVE  synced'[c] = synced[c] /\ recs'[c][n] = recs[c][n]
    <2>1. recs'[c] = recs[c] \/ recs'[c] = Append(recs[c], x)
      BY ZenonT(60), <1>1, <1>5 DEF AppendRecord, FilesOK, CallOK
    <2>2. n \in 1 .. Len(recs[c])
      BY SMTT(60), <1>2
    <2>3. Append(recs[c], x)[n] = recs[c][n]
      BY SMTT(60), <1>2, <2>2
    <2>4. QED
      BY ZenonT(60), <1>5, <2>1, <2>3 DEF AppendRecord
  <1>6. ASSUME NEW d \in Chunk, SyncData(d) PROVE synced'[c] >= synced[c] /\ synced'[c] \in Nat
    <2>1. synced'[c] \in {synced[c], Len(recs[c])}
      BY ZenonT(60), <1>1, <1>6, SyncEffect DEF FilesInv
    <2>2. QED
      BY SMTT(60), <1>2, <2>1
  <1>7. CASE Seal
    <2>1. writer \in Chunk /\ recs' = recs
      BY ZenonT(60), <1>1, <1>7 DEF CallOK, Seal
    <2>2. SyncData(writer) \/ synced' = synced
      BY ZenonT(60), <1>7 DEF Seal, SyncFails
    <2>3. QED
      BY SMTT(60), <1>2, <1>6, <2>1, <2>2
  <1>8. CASE CreateSync \/ AppendSync
    <2>1. cur \in Chunk /\ recs' = recs
      BY ZenonT(60), <1>1, <1>8 DEF CallOK, CreateSync, AppendSync
    <2>2. SyncData(cur) \/ synced' = synced
      BY ZenonT(60), <1>8 DEF CreateSync, AppendSync, SyncFails
    <2>3. QED
      BY <1>2, <1>6, <2>1, <2>2
  <1>9. CASE PowerLoss
    <2>1. /\ synced[c] <= synced'[c] /\ synced'[c] \in Nat
          /\ \A i \in 1 .. synced'[c] : recs'[c][i] = recs[c][i]
      BY ZenonT(60), <1>1, <1>9, PowerLossEffect, PowerLossType DEF FilesOK
    <2>2. QED
      BY SMTT(60), <1>2, <2>1
  <1>10. CASE UNCHANGED <<recs, synced>>
    BY <1>10
  <1>11. QED
    BY ZenonT(60), <1>3, <1>4, <1>5, <1>7, <1>8, <1>9, <1>10
    DEF Next, CallStep, Reconcile, ReconcileSealed, ReconcileInterruptedSeal, IndexAlias,
        CreateDirSync, CreatePublish, AppendApply, SealFooter, SealSync, Rename, DirSync,
        PublishSealed, RepublishOpen, Kill

\* Every step keeps indexed records durable.
LEMMA IndexedStep == ASSUME Benign, TypeOK, IInv, Next PROVE IndexedDurable'
  <1> USE DEF TypeOK
  <1>1. FilesInv' /\ FilesOK' /\ CatalogOK /\ IndexedDurable /\ CallInv /\ FilesInv /\ FilesOK /\ CallOK
    BY ZenonT(60), FilesInvStep, FilesStep DEF IInv
  <1>2. SUFFICES ASSUME NEW x \in Content, loc'[x] # None PROVE Readable(x)'
    BY ZenonT(60) DEF IndexedDurable
  <1>3. ASSUME NEW c \in Chunk, NEW n \in 1 .. synced'[c], recs'[c][n] = x,
               loc'[x] = [chunk |-> c, pos |-> n]
        PROVE  Readable(x)'
    <2>1. /\ synced'[c] \in Nat /\ Len(recs'[c]) \in Nat /\ synced'[c] > 0
          /\ synced'[c] <= Len(recs'[c])
      BY SMTT(60), <1>1, <1>3 DEF FilesOK, FilesInv
    <2>2. QED
      BY SMTT(60), <1>1, <1>2, <1>3, <2>1 DEF Readable, FilesInv
  <1>4. CASE loc'[x] = loc[x]
    <2>1. Readable(x)
      BY ZenonT(60), <1>1, <1>2, <1>4 DEF IndexedDurable
    <2>2. PICK c \in Chunk, n \in Nat : loc[x] = [chunk |-> c, pos |-> n]
      BY ZenonT(60), <1>1, <1>2, <1>4 DEF CatalogOK, Location
    <2>3. n \in 1 .. synced[c] /\ recs[c][n] = x
      BY SMTT(60), <2>1, <2>2 DEF Readable
    <2>4. n \in 1 .. synced'[c] /\ recs'[c][n] = x
      BY ZenonT(60), <2>3, PrefixKept
    <2>5. QED
      BY <1>3, <1>4, <2>2, <2>4
  <1>5. CASE loc'[x] # loc[x]
    <2>1. AppendApply
      BY ZenonT(60), <1>5 DEF Next, CallStep, Reconcile, Create, OpenRecovered, ReconcileSealed,
         ReconcileInterruptedSeal, ReconcileOpen, IndexAlias, AppendRecord, Seal, CreateSync,
         CreateDirSync, CreatePublish, AppendSync, SealFooter, SealSync, Rename, DirSync,
         PublishSealed, RepublishOpen, Kill, PowerLoss, LosePower, catalogVars
    <2>2. cur \in Chunk /\ pc = "appendApply" /\ UNCHANGED <<recs, synced>>
      BY ZenonT(60), <1>1, <2>1 DEF CallOK, AppendApply, fileVars
    <2>3. x = id /\ loc'[x] = [chunk |-> cur, pos |-> Len(recs[cur])]
      <3>1. loc' = [loc EXCEPT ![id] = [chunk |-> cur, pos |-> Len(recs[cur])]]
        BY ZenonT(60), <1>5, <2>1 DEF AppendApply, catalogVars
      <3>2. QED
        BY ZenonT(60), <1>1, <1>5, <3>1 DEF CatalogOK
    <2>4. recs[cur] # <<>> /\ recs[cur][Len(recs[cur])] = id /\ synced[cur] = Len(recs[cur])
      BY ZenonT(60), <1>1, <2>2 DEF CallInv
    <2>5. Len(recs[cur]) \in 1 .. synced[cur]
      BY <1>1, <2>2, <2>4 DEF FilesOK
    <2>6. QED
      BY ZenonT(60), <1>3, <2>2, <2>3, <2>4, <2>5
  <1>6. QED
    BY <1>4, <1>5

\* Every step keeps aliases resolved.
LEMMA AliasStep == ASSUME TypeOK, IInv, Next PROVE AliasResolves'
  <1> USE DEF TypeOK
  <1>1. AliasResolves /\ CatalogOK /\ CallOK
    BY ZenonT(60) DEF IInv
  <1>2. ASSUME NEW k \in Key, NEW x \in Content, IndexAlias(k, x) PROVE AliasResolves'
    BY ZenonT(60), <1>1, <1>2 DEF AliasResolves, CatalogOK, IndexAlias
  <1>3. CASE AppendApply
    <2>1. key \in Key /\ id \in Content /\ cur \in Chunk
      BY ZenonT(60), <1>1, <1>3 DEF CallOK, AppendApply
    <2>2. Len(recs[cur]) \in Nat
      BY SMTT(60), <2>1 DEF FilesOK
    <2>3. CASE UNCHANGED catalogVars
      BY ZenonT(60), <1>1, <2>3 DEF AliasResolves, catalogVars
    <2>4. CASE /\ loc' = [loc EXCEPT ![id] = [chunk |-> cur, pos |-> Len(recs[cur])]]
               /\ alias' = [alias EXCEPT ![key] = id]
      <3>1. [chunk |-> cur, pos |-> Len(recs[cur])] # None
        BY NoneAssumption, <2>1, <2>2 DEF Location
      <3>2. QED
        BY ZenonT(60), <1>1, <2>1, <2>4, <3>1 DEF AliasResolves, CatalogOK
    <2>5. QED
      BY ZenonT(60), <1>3, <2>3, <2>4 DEF AppendApply
  <1>4. CASE UNCHANGED <<loc, alias>>
    BY ZenonT(60), <1>1, <1>4 DEF AliasResolves
  <1>5. QED
    BY ZenonT(60), <1>2, <1>3, <1>4
    DEF Next, CallStep, Reconcile, Create, OpenRecovered, ReconcileSealed,
        ReconcileInterruptedSeal, ReconcileOpen, AppendRecord, Seal, CreateSync,
        CreateDirSync, CreatePublish, AppendSync, SealFooter, SealSync, Rename, DirSync,
        PublishSealed, RepublishOpen, Kill, PowerLoss, LosePower, catalogVars

\* A chunk the catalog calls Sealed stays so and keeps its records.
LEMMA SealedKept ==
  ASSUME Benign, TypeOK, IInv, Next, NEW c \in Chunk, cstate[c] = "Sealed"
  PROVE  /\ cstate'[c] = "Sealed" /\ recs'[c] = recs[c] /\ synced'[c] = Len(recs[c])
         /\ ccount'[c] = Len(recs[c])
  <1> USE DEF TypeOK, catalogVars, callVars, fileVars
  <1>1. FilesInv /\ FilesOK /\ CatalogOK /\ CallInv /\ CallOK /\ SealedComplete
    BY ZenonT(60) DEF IInv
  <1>2. synced[c] = Len(recs[c]) /\ ccount[c] = Len(recs[c]) /\ Len(recs[c]) \in Nat
    BY ZenonT(60), <1>1 DEF SealedComplete, FilesOK
  <1>3. recs'[c] = recs[c] /\ synced'[c] = Len(recs[c])
    <2>1. ASSUME NEW d \in Chunk, Create(d) PROVE recs'[c] = recs[c] /\ synced'[c] = Len(recs[c])
      BY ZenonT(60), <1>1, <1>2, <2>1 DEF FilesOK, FilesInv, Create
    <2>2. ASSUME NEW d \in Chunk, OpenRecovered(d) \/ ReconcileOpen(d)
          PROVE  recs'[c] = recs[c] /\ synced'[c] = Len(recs[c])
      <3>1. PICK b \in BOOLEAN : RecoverFile(d, b)
        BY ZenonT(60), <2>2 DEF OpenRecovered, ReconcileOpen
      <3>2. recs' = recs /\ synced'[c] \in Nat
        BY ZenonT(60), <1>1, <3>1, RecoverEffect, RecoverFileType DEF FilesOK
      <3>3. CASE c = d
        <4>1. synced'[d] >= synced[d] /\ synced'[d] <= Len(recs[d])
          BY ZenonT(60), <1>1, <3>1, RecoverEffect
        <4>2. QED
          BY SMTT(60), <1>2, <3>2, <3>3, <4>1
      <3>4. CASE c # d
        <4>1. synced'[c] = synced[c]
          BY ZenonT(60), <1>1, <3>1, <3>4, RecoverEffect
        <4>2. QED
          BY ZenonT(60), <1>2, <3>2, <4>1
      <3>5. QED
        BY <3>3, <3>4
    <2>3. ASSUME NEW k \in Key, NEW x \in Content, AppendRecord(k, x)
          PROVE  recs'[c] = recs[c] /\ synced'[c] = Len(recs[c])
      <3>1. writer # c
        BY ZenonT(60), <2>3 DEF AppendRecord, CatalogWritable
      <3>2. QED
        BY ZenonT(60), <1>1, <1>2, <2>3, <3>1 DEF FilesOK, AppendRecord
    <2>4. ASSUME NEW d \in Chunk, SyncData(d) PROVE synced'[c] = Len(recs[c])
      BY ZenonT(60), <1>1, <1>2, <2>4, SyncEffect DEF FilesInv
    <2>5. CASE Seal
      BY ZenonT(60), <1>1, <1>2, <2>4, <2>5 DEF CallOK, Seal, SyncFails
    <2>6. CASE CreateSync \/ AppendSync
      BY ZenonT(60), <1>1, <1>2, <2>4, <2>6 DEF CallOK, CreateSync, AppendSync, SyncFails
    <2>7. CASE PowerLoss
      BY ZenonT(60), <1>1, <1>2, <2>7, PowerLossEffect
    <2>8. CASE UNCHANGED <<recs, synced>>
      BY ZenonT(60), <1>2, <2>8
    <2>9. QED
      BY ZenonT(60), <2>1, <2>2, <2>3, <2>5, <2>6, <2>7, <2>8
      DEF Next, CallStep, Reconcile, ReconcileSealed, ReconcileInterruptedSeal, IndexAlias,
          CreateDirSync, CreatePublish, AppendApply, SealFooter, SealSync, Rename, DirSync,
          PublishSealed, RepublishOpen, Kill
  <1>4. cstate'[c] = "Sealed" /\ ccount'[c] = Len(recs[c])
    <2>1. ASSUME NEW d \in Chunk, PublishOpen(d) PROVE cstate'[c] = cstate[c] /\ ccount'[c] = ccount[c]
      BY ZenonT(60), <1>1, <2>1 DEF CatalogOK, PublishOpen, CatalogWritable
    <2>2. CASE CreatePublish \/ RepublishOpen
      BY ZenonT(60), <1>1, <1>2, <2>1, <2>2 DEF CallOK, CreatePublish, RepublishOpen
    <2>3. CASE AppendApply
      <3>1. cur # c /\ cur \in Chunk
        BY ZenonT(60), <1>1, <2>3 DEF CallOK, CallInv, AppendApply
      <3>2. QED
        BY ZenonT(60), <1>1, <1>2, <2>3, <3>1 DEF CatalogOK, AppendApply
    <2>4. CASE PublishSealed
      BY ZenonT(60), <1>1, <1>2, <2>4 DEF CallOK, CatalogOK, PublishSealed
    <2>5. CASE UNCHANGED <<cstate, ccount>>
      BY ZenonT(60), <1>2, <2>5
    <2>6. QED
      BY ZenonT(60), <2>2, <2>3, <2>4, <2>5
      DEF Next, CallStep, Reconcile, Create, OpenRecovered, ReconcileSealed,
          ReconcileInterruptedSeal, ReconcileOpen, IndexAlias, AppendRecord, Seal, CreateSync,
          CreateDirSync, AppendSync, SealFooter, SealSync, Rename, DirSync, Kill, PowerLoss, LosePower
  <1>5. QED
    BY <1>3, <1>4

\* Every step keeps sealed chunks complete.
LEMMA SealedStep == ASSUME Benign, TypeOK, IInv, Next PROVE SealedComplete'
  <1> USE DEF TypeOK, catalogVars, callVars, fileVars
  <1>1. FilesInv /\ FilesOK /\ CatalogOK /\ CallInv /\ CallOK
    BY ZenonT(60) DEF IInv
  <1>2. SUFFICES ASSUME NEW c \in Chunk, cstate'[c] = "Sealed"
                 PROVE  ccount'[c] = Len(recs'[c]) /\ synced'[c] = Len(recs'[c])
    BY ZenonT(60) DEF SealedComplete
  <1>3. CASE cstate[c] = "Sealed"
    BY ZenonT(60), <1>3, SealedKept
  <1>4. CASE cstate[c] # "Sealed"
    <2>1. ASSUME NEW d \in Chunk, PublishOpen(d) PROVE cstate'[c] # "Sealed"
      BY ZenonT(60), <1>1, <1>4, <2>1 DEF CatalogOK, PublishOpen
    <2>2. CASE CreatePublish \/ RepublishOpen
      BY ZenonT(60), <1>1, <1>2, <1>4, <2>1, <2>2 DEF CallOK, CreatePublish, RepublishOpen
    <2>3. CASE AppendApply
      BY ZenonT(60), <1>1, <1>2, <1>4, <2>3 DEF CallOK, CatalogOK, AppendApply
    <2>4. CASE PublishSealed
      <3>1. cur = c /\ ccount'[c] = Len(recs[c]) /\ UNCHANGED <<recs, synced>>
        BY ZenonT(60), <1>1, <1>2, <1>4, <2>4 DEF CatalogOK, CallOK, PublishSealed
      <3>2. footer[c] # "none"
        BY ZenonT(60), <1>1, <2>4, <3>1 DEF CallInv, PublishSealed
      <3>3. QED
        BY ZenonT(60), <1>1, <3>1, <3>2 DEF FilesInv
    <2>5. CASE UNCHANGED cstate
      BY <1>2, <1>4, <2>5
    <2>6. QED
      BY ZenonT(60), <2>2, <2>3, <2>4, <2>5
      DEF Next, CallStep, Reconcile, Create, OpenRecovered, ReconcileSealed,
          ReconcileInterruptedSeal, ReconcileOpen, IndexAlias, AppendRecord, Seal, CreateSync,
          CreateDirSync, AppendSync, SealFooter, SealSync, Rename, DirSync, Kill, PowerLoss, LosePower
  <1>5. QED
    BY ZenonT(60), <1>3, <1>4

\* The invariant holds in every state of the store.
LEMMA Invariance == ASSUME Benign PROVE Spec => [](TypeOK /\ IInv)
  <1>1. Init => IInv
    BY DEF Init, IInv, FilesInv, WriterInv, CallInv, IndexedDurable, AliasResolves,
         SealedComplete
  <1>2. TypeOK /\ IInv /\ [Next]_vars => IInv'
    <2>1. ASSUME TypeOK, IInv, Next PROVE IInv'
      BY ZenonT(60), <2>1, FilesInvStep, WriterInvStep, CallInvStep, IndexedStep, AliasStep,
           SealedStep DEF IInv
    <2>2. ASSUME IInv, UNCHANGED vars PROVE IInv'
      BY ZenonT(60), <2>2 DEF IInv, FilesInv, WriterInv, CallInv, IndexedDurable, Readable,
           AliasResolves,
                  SealedComplete, vars, fileVars, catalogVars, callVars
    <2>3. QED
      BY ZenonT(60), <2>1, <2>2
  <1>3. QED
    BY <1>1, <1>2, TypeInit, TypeStep, PTL DEF Spec

-----------------------------------------------------------------------------
(* What the store promises.                                                *)

\* Every location in the catalog names a complete, synchronized record of its
\* content after any interleaving of appends, seals, failed calls, kills, power
\* losses and recoveries: the order write, fdatasync, catalog batch suffices.
THEOREM Durability == ASSUME Benign PROVE Spec => []IndexedDurable
  BY Invariance, PTL DEF IInv

\* Every alias in the catalog leads to a located content.
THEOREM AliasesResolve == ASSUME Benign PROVE Spec => []AliasResolves
  BY Invariance, PTL DEF IInv

\* A chunk is published as Sealed with exactly the records of its file, all of
\* them synchronized, by the sealing writer and by reconcile_chunk alike.
THEOREM SealedIsComplete == ASSUME Benign PROVE Spec => []SealedComplete
  BY Invariance, PTL DEF IInv

\* No step changes the records or the state of a chunk published as Sealed.
THEOREM SealedIsImmutable == ASSUME Benign PROVE Spec => SealedImmutable
  <1>1. TypeOK /\ IInv /\ [Next]_vars =>
          [\A c \in Chunk : cstate[c] = "Sealed" =>
             /\ cstate'[c] = "Sealed"
             /\ recs'[c] = recs[c]]_vars
    <2>1. ASSUME TypeOK, IInv, Next, NEW c \in Chunk, cstate[c] = "Sealed"
          PROVE  cstate'[c] = "Sealed" /\ recs'[c] = recs[c]
      BY <2>1, SealedKept
    <2>2. QED
      BY ZenonT(60), <2>1
  <1>2. QED
    BY <1>1, Invariance, PTL DEF Spec, SealedImmutable

\* The names a client can resolve to readable content form a write-once map:
\* the batch that indexes a record is the only visible step of the store.
THEOREM Refinement == ASSUME Benign PROVE Spec => ImplementsDurableMap
  <1>1. TypeOK /\ IInv => resolves = alias
    <2>1. SUFFICES ASSUME TypeOK, IInv PROVE \A k \in Key : resolves[k] = alias[k]
      BY DEF resolves, TypeOK, CatalogOK
    <2>2. ASSUME NEW k \in Key, alias[k] # None PROVE Readable(alias[k])
      BY <2>1, <2>2 DEF TypeOK, CatalogOK, IInv, AliasResolves, IndexedDurable
    <2>3. QED
      BY ZenonT(60), <2>1, <2>2 DEF resolves
  <1>2. (TypeOK /\ IInv => resolves = alias)'
    BY <1>1, PTL
  <1>3. Init => Abstract!Init
    BY ZenonT(60) DEF Init, Abstract!Init, resolves
  <1>4. ASSUME TypeOK, IInv, [Next]_vars PROVE alias' = alias \/ \E k \in Key, x \in Content :
                                                 alias[k] = None /\ alias' = [alias EXCEPT ![k] = x]
    <2>1. ASSUME NEW k \in Key, NEW x \in Content, AliasAccepts(k, x), alias' = [alias EXCEPT ![k] = x]
          PROVE  alias' = alias \/ alias[k] = None
      BY ZenonT(60), <1>4, <2>1 DEF AliasAccepts, TypeOK, CatalogOK
    <2>2. ASSUME NEW k \in Key, NEW x \in Content, IndexAlias(k, x)
          PROVE  alias' = alias \/ (alias[k] = None /\ alias' = [alias EXCEPT ![k] = x])
      BY ZenonT(60), <2>1, <2>2 DEF IndexAlias
    <2>3. CASE AppendApply
      <3>1. key \in Key /\ id \in Content
        BY <1>4, <2>3 DEF TypeOK, CallOK, AppendApply
      <3>2. QED
        BY ZenonT(60), <2>1, <2>3, <3>1 DEF AppendApply, catalogVars
    <2>4. CASE UNCHANGED alias
      BY ZenonT(60), <2>4
    <2>5. QED
      BY ZenonT(60), <1>4, <2>2, <2>3, <2>4
      DEF vars, Next, CallStep, Reconcile, Create, OpenRecovered, ReconcileSealed,
          ReconcileInterruptedSeal, ReconcileOpen, AppendRecord, Seal, CreateSync,
          CreateDirSync, CreatePublish, AppendSync, SealFooter, SealSync, Rename, DirSync,
          PublishSealed, RepublishOpen, Kill, PowerLoss, LosePower, catalogVars
  <1>5. TypeOK /\ IInv /\ TypeOK' /\ IInv' /\ [Next]_vars => [Abstract!Next]_resolves
    <2> SUFFICES ASSUME TypeOK, IInv, TypeOK', IInv', [Next]_vars PROVE [Abstract!Next]_resolves
      OBVIOUS
    <2>1. resolves = alias /\ resolves' = alias'
      BY <1>1, <1>2
    <2>2. QED
      BY ZenonT(60), <1>4, <2>1 DEF Abstract!Next, Abstract!Put
  <1>6. QED
    BY <1>3, <1>5, Invariance, PTL DEF Spec, ImplementsDurableMap, Abstract!Spec

-----------------------------------------------------------------------------
(* The writer that rotates from chunk to chunk.                            *)

RotationRecords == Seq([object : Object, offset : Nat])

\* A sequence of records with one more at its end.
LEMMA RotationAppended ==
  ASSUME NEW s \in RotationRecords, NEW r \in [object : Object, offset : Nat]
  PROVE  /\ Append(s, r) \in RotationRecords /\ Len(s) \in Nat /\ Len(Append(s, r)) = Len(s) + 1
         /\ DOMAIN s = 1 .. Len(s) /\ DOMAIN Append(s, r) = 1 .. Len(s) + 1
         /\ \A i \in 1 .. Len(s) : Append(s, r)[i] = s[i]
         /\ Append(s, r)[Len(s) + 1] = r /\ Append(s, r) # << >>
         /\ s = << >> <=> Len(s) = 0
BY SMTT(60) DEF RotationRecords

\* A complete record at the end of the active chunk.
LEMMA RotationPutFile ==
  ASSUME RotationConstants, RotationIInv, step = "write", PutRecord(object)
  PROVE  LET r == [object |-> object, offset |-> length[active]]
         IN /\ active \in RotationFile /\ object \in Object /\ r \in [object : Object, offset : Nat]
            /\ EncodedLen[object] \in Nat /\ held[active] \in RotationRecords /\ length[active] \in Nat
            /\ held' \in [RotationFile -> RotationRecords] /\ length' \in [RotationFile -> Nat]
            /\ held'[active] = Append(held[active], r) /\ length'[active] = length[active] + EncodedLen[object]
            /\ \A k \in RotationFile \ {active} : held'[k] = held[k] /\ length'[k] = length[k]
<1> DEFINE r == [object |-> object, offset |-> length[active]]
<1>1. active \in RotationFile /\ object \in Object
  <2>1. RotationTypeOK /\ Pending BY Zenon DEF RotationIInv
  <2>2. active # NoChunk BY Zenon, <2>1 DEF Pending
  <2>3. object \in Object BY <2>1 DEF Pending
  <2> QED BY Zenon, <2>1, <2>2, <2>3 DEF RotationTypeOK
<1>2. held \in [RotationFile -> RotationRecords] /\ length \in [RotationFile -> Nat]
  BY Zenon DEF RotationIInv, RotationTypeOK, RotationRecords
<1>3. length[active] \in Nat /\ held[active] \in RotationRecords /\ EncodedLen[object] \in Nat
  BY ZenonT(60), <1>1, <1>2 DEF RotationConstants
<1>4. r \in [object : Object, offset : Nat] BY <1>1, <1>3
<1>5. Append(held[active], r) \in RotationRecords BY ZenonT(60), <1>3, <1>4, RotationAppended
<1>6. length[active] + EncodedLen[object] \in Nat BY <1>3
<1>7. held' = [held EXCEPT ![active] = Append(held[active], r)]
  BY Zenon DEF PutRecord
<1>8. length' = [length EXCEPT ![active] = length[active] + EncodedLen[object]]
  BY Zenon DEF PutRecord
<1> HIDE DEF r
<1>9. held' \in [RotationFile -> RotationRecords] /\ length' \in [RotationFile -> Nat]
  BY ZenonT(60), <1>2, <1>5, <1>6, <1>7, <1>8
<1>10. held'[active] = Append(held[active], r) /\ length'[active] = length[active] + EncodedLen[object]
  BY Zenon, <1>1, <1>2, <1>7, <1>8
<1>11. \A k \in RotationFile \ {active} : held'[k] = held[k] /\ length'[k] = length[k]
  BY ZenonT(60), <1>1, <1>2, <1>7, <1>8
<1> QED BY Zenon, <1>1, <1>3, <1>4, <1>9, <1>10, <1>11 DEF r

\* It leaves the records contiguous, and the chunk within its target.
LEMMA RotationPutRecord ==
  ASSUME RotationConstants, RotationIInv, step = "write", PutRecord(object)
  PROVE  /\ Contiguous' /\ WithinTarget'
         /\ \A k \in RotationFile : \A i \in DOMAIN held[k] : i \in DOMAIN held'[k] /\ held'[k][i] = held[k][i]
         /\ Len(held[active]) + 1 \in DOMAIN held'[active]
         /\ held'[active][Len(held[active]) + 1] = [object |-> object, offset |-> length[active]]
<1> DEFINE r == [object |-> object, offset |-> length[active]]
           s == held[active]
<1>1. /\ active \in RotationFile /\ object \in Object /\ r \in [object : Object, offset : Nat]
      /\ EncodedLen[object] \in Nat /\ s \in RotationRecords /\ length[active] \in Nat
      /\ held' \in [RotationFile -> RotationRecords] /\ length' \in [RotationFile -> Nat]
      /\ held'[active] = Append(s, r) /\ length'[active] = length[active] + EncodedLen[object]
      /\ \A k \in RotationFile \ {active} : held'[k] = held[k] /\ length'[k] = length[k]
  BY Zenon, RotationPutFile
<1>2. r.object = object /\ r.offset = length[active] BY Zenon
<1>3. RecordEnd(r) = length'[active]
  <2>1. r.offset + EncodedLen[r.object] = length[active] + EncodedLen[object] BY <1>2
  <2> QED BY ZenonT(60), <1>1, <2>1 DEF RecordEnd
<1> HIDE DEF r
<1>4. /\ Append(s, r) \in RotationRecords /\ Len(s) \in Nat /\ Len(Append(s, r)) = Len(s) + 1
      /\ DOMAIN s = 1 .. Len(s) /\ DOMAIN Append(s, r) = 1 .. Len(s) + 1
      /\ \A i \in 1 .. Len(s) : Append(s, r)[i] = s[i]
      /\ Append(s, r)[Len(s) + 1] = r /\ Append(s, r) # << >>
      /\ s = << >> <=> Len(s) = 0
  BY Zenon, <1>1, RotationAppended
<1>5. /\ length[active] = IF s = << >> THEN ChunkHeaderLen ELSE RecordEnd(s[Len(s)])
      /\ \A i \in DOMAIN s : s[i].offset = IF i = 1 THEN ChunkHeaderLen ELSE RecordEnd(s[i - 1])
  BY Zenon, <1>1 DEF RotationIInv, Contiguous
<1>6. \A i \in DOMAIN Append(s, r) :
        Append(s, r)[i].offset = IF i = 1 THEN ChunkHeaderLen ELSE RecordEnd(Append(s, r)[i - 1])
  <2> TAKE i \in DOMAIN Append(s, r)
  <2>1. CASE i \in 1 .. Len(s) /\ i # 1
    <3>1. i - 1 \in 1 .. Len(s) /\ i \in DOMAIN s BY <1>4, <2>1
    <3>2. Append(s, r)[i] = s[i] /\ Append(s, r)[i - 1] = s[i - 1] BY Zenon, <1>4, <2>1, <3>1
    <3> QED BY ZenonT(60), <1>5, <2>1, <3>1, <3>2
  <2>2. CASE i \in 1 .. Len(s) /\ i = 1
    BY ZenonT(60), <1>4, <1>5, <2>2
  <2>3. CASE i \notin 1 .. Len(s)
    <3>1. i = Len(s) + 1 /\ i - 1 = Len(s) BY SMTT(60), <1>4, <2>3
    <3>2. Append(s, r)[i] = r /\ r.offset = length[active] BY Zenon, <1>2, <1>4, <3>1
    <3>3. CASE s = << >>
      <4>1. i = 1 BY <1>4, <3>1, <3>3
      <4> QED BY ZenonT(60), <1>5, <3>2, <3>3, <4>1
    <3>4. CASE s # << >>
      <4>1. i # 1 /\ i - 1 = Len(s) /\ Len(s) \in 1 .. Len(s) BY <1>4, <3>1, <3>4
      <4>2. Append(s, r)[i - 1] = s[Len(s)] BY ZenonT(60), <1>4, <4>1
      <4> QED BY ZenonT(60), <1>5, <3>2, <3>4, <4>1, <4>2
    <3> QED BY ZenonT(60), <3>3, <3>4
  <2> QED BY ZenonT(60), <2>1, <2>2, <2>3
<1>7. length'[active] = IF held'[active] = << >> THEN ChunkHeaderLen ELSE RecordEnd(held'[active][Len(held'[active])])
  BY Zenon, <1>1, <1>3, <1>4
<1>8. Contiguous'
  <2>1. ASSUME NEW k \in RotationFile
        PROVE  /\ length'[k] = IF held'[k] = << >> THEN ChunkHeaderLen ELSE RecordEnd(held'[k][Len(held'[k])])
               /\ \A i \in DOMAIN held'[k] : held'[k][i].offset = IF i = 1 THEN ChunkHeaderLen ELSE RecordEnd(held'[k][i - 1])
    <3>1. CASE k = active BY ZenonT(60), <1>1, <1>6, <1>7, <3>1
    <3>2. CASE k # active
      <4>1. held'[k] = held[k] /\ length'[k] = length[k] BY Zenon, <1>1, <3>2
      <4>2. /\ length[k] = IF held[k] = << >> THEN ChunkHeaderLen ELSE RecordEnd(held[k][Len(held[k])])
            /\ \A i \in DOMAIN held[k] : held[k][i].offset = IF i = 1 THEN ChunkHeaderLen ELSE RecordEnd(held[k][i - 1])
        BY Zenon DEF RotationIInv, Contiguous
      <4> QED BY Zenon, <4>1, <4>2
    <3> QED BY Zenon, <3>1, <3>2
  <2> QED BY Zenon, <2>1 DEF Contiguous
<1>9. WithinTarget'
  <2>1. \/ s = << >>
        \/ ~(length[active] + EncodedLen[object] + ChunkFooterLen > TargetSize)
    BY Zenon DEF RotationIInv, Pending, WouldExceedTarget
  <2>4. \/ length'[active] + ChunkFooterLen <= TargetSize
        \/ Len(held'[active]) = 1 /\ Oversized(held'[active][1].object)
    <3>1. CASE ~(length[active] + EncodedLen[object] + ChunkFooterLen > TargetSize)
      <4>1. length'[active] + ChunkFooterLen <= TargetSize
        BY SMTT(60), <1>1, <3>1 DEF RotationConstants
      <4> QED BY ZenonT(60), <4>1
    <3>2. CASE s = << >>
      <4>1. length[active] = ChunkHeaderLen /\ Len(held'[active]) = 1
        BY SMTT(60), <1>1, <1>4, <1>5, <3>2
      <4>2. held'[active][1] = r
        <5>1. Len(s) + 1 = 1 BY SMTT(60), <1>4, <3>2
        <5> QED BY ZenonT(60), <1>1, <1>4, <5>1
      <4>3. held'[active][1].object = object BY Zenon, <1>2, <4>2
      <4>4. Oversized(object) \/ length'[active] + ChunkFooterLen <= TargetSize
        BY <1>1, <4>1 DEF Oversized, RotationConstants
      <4> QED BY ZenonT(60), <4>1, <4>3, <4>4
    <3> QED BY ZenonT(60), <2>1, <3>1, <3>2
  <2>5. ASSUME NEW k \in RotationFile, k # active
        PROVE  \/ held'[k] = << >>
               \/ length'[k] + ChunkFooterLen <= TargetSize
               \/ Len(held'[k]) = 1 /\ Oversized(held'[k][1].object)
    <3>1. held'[k] = held[k] /\ length'[k] = length[k] BY Zenon, <1>1, <2>5
    <3> QED BY Zenon, <3>1 DEF RotationIInv, WithinTarget
  <2> QED BY Zenon, <2>4, <2>5 DEF WithinTarget, Oversized
<1>10. ASSUME NEW k \in RotationFile, NEW i \in DOMAIN held[k]
       PROVE  i \in DOMAIN held'[k] /\ held'[k][i] = held[k][i]
  <2>1. CASE k = active
    <3>1. i \in 1 .. Len(s) BY ZenonT(60), <1>4, <2>1
    <3>2. i \in 1 .. Len(s) + 1 BY <1>4, <3>1
    <3> QED BY Zenon, <1>1, <1>4, <2>1, <3>1, <3>2
  <2>2. CASE k # active BY ZenonT(60), <1>1, <2>2
  <2> QED BY ZenonT(60), <2>1, <2>2
<1>11. Len(s) + 1 \in DOMAIN held'[active] /\ held'[active][Len(s) + 1] = r
  <2>1. Len(s) + 1 \in 1 .. Len(s) + 1 BY <1>4
  <2> QED BY ZenonT(60), <1>1, <1>4, <2>1
<1> QED BY Zenon, <1>8, <1>9, <1>10, <1>11 DEF r

\* What is located stays so while files only grow, keep their identity and no
\* metadata is dropped.
LEMMA RotationLocatedKept ==
  ASSUME RotationConstants, RotationIInv, UNCHANGED located,
         \A k \in ChunkId : meta[k] # NoChunk => meta'[k] # NoChunk,
         \A f \in RotationFile : held[f] = << >> \/ identity'[f] = identity[f],
         \A f \in RotationFile : \A i \in DOMAIN held[f] : i \in DOMAIN held'[f] /\ held'[f][i] = held[f][i]
  PROVE  LocatedHeld'
<1>0. DOMAIN << >> = {} OBVIOUS
<1>1. ASSUME NEW o \in Object, located'[o] # NoChunk
      PROVE  /\ meta'[located'[o].chunk] # NoChunk
             /\ \E f \in RotationFile : identity'[f] = located'[o].chunk
                  /\ \E i \in DOMAIN held'[f] : held'[f][i] = [object |-> o, offset |-> located'[o].offset]
  <2>1. located'[o] = located[o] /\ located[o] # NoChunk BY Zenon, <1>1
  <2>2. located[o] \in RecordLocation BY ZenonT(60), <2>1 DEF RotationIInv, RotationTypeOK
  <2>3. located[o].chunk \in ChunkId BY <2>2 DEF RecordLocation
  <2>4. PICK f \in RotationFile : identity[f] = located[o].chunk
               /\ \E i \in DOMAIN held[f] : held[f][i] = [object |-> o, offset |-> located[o].offset]
    BY Zenon, <2>1 DEF RotationIInv, LocatedHeld
  <2>5. PICK i \in DOMAIN held[f] : held[f][i] = [object |-> o, offset |-> located[o].offset]
    BY Zenon, <2>4
  <2>6. meta[located[o].chunk] # NoChunk BY Zenon, <2>1 DEF RotationIInv, LocatedHeld
  <2>7. identity'[f] = identity[f] BY Zenon, <1>0, <2>5
  <2>8. i \in DOMAIN held'[f] /\ held'[f][i] = [object |-> o, offset |-> located'[o].offset]
    BY Zenon, <2>1, <2>5
  <2>9. meta'[located'[o].chunk] # NoChunk BY Zenon, <2>1, <2>3, <2>6
  <2>10. identity'[f] = located'[o].chunk BY Zenon, <2>1, <2>4, <2>7
  <2> QED BY Zenon, <2>8, <2>9, <2>10
<1> QED BY Zenon, <1>1 DEF LocatedHeld

\* The identities are in order as long as no file is made and no writer begins.
LEMMA RotationNamesKept ==
  ASSUME RotationIInv, identity' = identity, nextChunk' = nextChunk, behind' = behind, mine' \subseteq mine,
         \A f \in RotationFile : chunkFile'[f] # NoChunk => chunkFile[f] # NoChunk,
         step' \notin {"none", "unusable"} => step \notin {"none", "unusable"}
  PROVE  Ahead' /\ OneFileEach'
<1>1. Ahead /\ OneFileEach BY Zenon DEF RotationIInv
<1>2. Ahead' BY ZenonT(60), <1>1 DEF Ahead
<1>3. OneFileEach' BY ZenonT(60), <1>1 DEF OneFileEach
<1> QED BY Zenon, <1>2, <1>3

\* A file that is there has an identity, and so have those of the writer.
LEMMA RotationIdentities ==
  ASSUME RotationConstants, RotationIInv
  PROVE  /\ \A f \in RotationFile : chunkFile[f] # NoChunk => identity[f] \in ChunkId
         /\ \A f \in mine : f \in RotationFile /\ chunkFile[f] # NoChunk /\ identity[f] \in ChunkId
BY ZenonT(60) DEF RotationIInv, Made, RotationTypeOK

\* Where no record is written the places and lengths are as they were.
LEMMA RotationUnwritten ==
  ASSUME RotationIInv, UNCHANGED <<held, length>>
  PROVE  Contiguous' /\ WithinTarget'
<1>1. held' = held /\ length' = length BY Zenon
<1>2. Contiguous'
  <2>1. ASSUME NEW k \in RotationFile
        PROVE  /\ length'[k] = IF held'[k] = << >> THEN ChunkHeaderLen ELSE RecordEnd(held'[k][Len(held'[k])])
               /\ \A i \in DOMAIN held'[k] : held'[k][i].offset = IF i = 1 THEN ChunkHeaderLen ELSE RecordEnd(held'[k][i - 1])
    <3>1. /\ length[k] = IF held[k] = << >> THEN ChunkHeaderLen ELSE RecordEnd(held[k][Len(held[k])])
          /\ \A i \in DOMAIN held[k] : held[k][i].offset = IF i = 1 THEN ChunkHeaderLen ELSE RecordEnd(held[k][i - 1])
      BY Zenon DEF RotationIInv, Contiguous
    <3> QED BY Zenon, <1>1, <3>1
  <2> QED BY Zenon, <2>1 DEF Contiguous
<1>3. WithinTarget'
  BY Zenon, <1>1 DEF RotationIInv, WithinTarget, Oversized
<1> QED BY Zenon, <1>2, <1>3

\* No chunk is active unless the writer is about to use it.
LEMMA RotationActiveChunk ==
  ASSUME RotationConstants, RotationIInv, step \in {"idle", "seal", "write", "seal oversized"}
  PROVE  /\ active \in RotationFile /\ active # NoChunk /\ active \in mine
         /\ chunkFile[active] = "open" /\ identity[active] \in ChunkId /\ meta[identity[active]] = "open"
         /\ \A f \in mine \ {active} : chunkFile[f] = "sealed" /\ meta[identity[f]] = "sealed"
<1>1. active \in RotationFile /\ active # NoChunk /\ active \in mine
  BY ZenonT(60) DEF RotationIInv, Pending, RotationTypeOK
<1> QED BY Zenon, <1>1, RotationIdentities DEF RotationIInv, OthersSealed

\* A complete record, indexed or not.
LEMMA RotationWriteStep ==
  ASSUME RotationConstants, RotationIInv, WriteRecord \/ WriteFails
  PROVE  RotationIInv'
<1>1. /\ step = "write" /\ UNCHANGED <<chunkFile, identity, meta, active, nextChunk, mine, behind>>
      /\ step' \in {"idle", "seal oversized"} /\ object \in Object
      /\ step' = "seal oversized" => object' = object
      /\ object' \in {object, NoChunk}
  <2>1. step = "write" BY Zenon DEF WriteRecord, WriteFails
  <2>2. object \in Object BY ZenonT(60), <2>1 DEF RotationIInv, Pending
  <2>3. CASE WriteRecord BY Zenon, <2>1, <2>2, <2>3 DEF WriteRecord
  <2>4. CASE WriteFails BY ZenonT(60), <2>1, <2>2, <2>4 DEF WriteFails
  <2> QED BY Zenon, <2>3, <2>4
<1>2. /\ active \in RotationFile /\ active # NoChunk /\ active \in mine
      /\ chunkFile[active] = "open" /\ identity[active] \in ChunkId /\ meta[identity[active]] = "open"
      /\ \A f \in mine \ {active} : chunkFile[f] = "sealed" /\ meta[identity[f]] = "sealed"
  <2>1. step \in {"idle", "seal", "write", "seal oversized"} BY Zenon, <1>1
  <2> QED BY Zenon, <2>1, RotationActiveChunk
<1>3. PutRecord(object) \/ UNCHANGED <<held, length>>
  BY Zenon DEF WriteRecord, WriteFails
<1>4. /\ Contiguous' /\ WithinTarget'
      /\ \A k \in RotationFile : \A i \in DOMAIN held[k] : i \in DOMAIN held'[k] /\ held'[k][i] = held[k][i]
  <2>1. CASE PutRecord(object) BY Zenon, <1>1, <2>1, RotationPutRecord
  <2>2. CASE UNCHANGED <<held, length>>
    <3>1. held' = held BY Zenon, <2>2
    <3> QED BY Zenon, <2>2, <3>1, RotationUnwritten
  <2> QED BY Zenon, <1>3, <2>1, <2>2
<1>5. held' \in [RotationFile -> RotationRecords] /\ length' \in [RotationFile -> Nat]
  <2>1. CASE PutRecord(object) BY Zenon, <1>1, <2>1, RotationPutFile
  <2>2. CASE UNCHANGED <<held, length>>
    BY Zenon, <2>2 DEF RotationIInv, RotationTypeOK, RotationRecords
  <2> QED BY ZenonT(60), <1>3, <2>1, <2>2
<1>6. located' \in [Object -> RecordLocation \cup {NoChunk}]
  <2>1. CASE WriteRecord
    <3>1. length[active] \in Nat BY Zenon, <1>2 DEF RotationIInv, RotationTypeOK
    <3>2. [chunk |-> identity[active], offset |-> length[active]] \in RecordLocation
      BY <1>2, <3>1 DEF RecordLocation
    <3> QED BY ZenonT(60), <2>1, <3>2 DEF WriteRecord, RotationIInv, RotationTypeOK
  <2>2. CASE WriteFails
    BY Zenon, <2>2 DEF WriteFails, RotationIInv, RotationTypeOK
  <2> QED BY Zenon, <2>1, <2>2
<1>7. rotationFailures' \in 0 .. MaxRotationFailures
  <2>1. rotationFailures \in 0 .. MaxRotationFailures /\ MaxRotationFailures \in Nat
    BY Zenon DEF RotationIInv, RotationTypeOK, RotationConstants
  <2>2. rotationFailures' = rotationFailures \/ (rotationFailures < MaxRotationFailures /\ rotationFailures' = rotationFailures + 1)
    BY ZenonT(60) DEF WriteRecord, WriteFails
  <2> QED BY <2>1, <2>2
<1>8. RotationTypeOK'
  <2>1. step' \in {"none", "idle", "seal", "create", "write", "seal oversized", "create after", "unusable"}
    BY Zenon, <1>1
  <2>2. object' \in Object \cup {NoChunk} BY Zenon, <1>1
  <2> QED
    BY ZenonT(60), <1>1, <1>5, <1>6, <1>7, <2>1, <2>2 DEF RotationIInv, RotationTypeOK,
         RotationRecords
<1>9. Pending'
  <2>1. /\ step' \in {"idle", "seal", "write", "seal oversized"} /\ step' # "write"
        /\ step' \in {"seal", "create", "write", "seal oversized"} => object' \in Object
    BY Zenon, <1>1
  <2> QED BY ZenonT(60), <1>1, <1>2, <2>1 DEF Pending
<1>10. Made'
  <2>1. step' \notin {"create", "create after"} BY Zenon, <1>1
  <2>2. ASSUME NEW k \in RotationFile, chunkFile'[k] = NoChunk PROVE held'[k] = << >> /\ k \notin mine'
    <3>1. chunkFile[k] = NoChunk /\ held[k] = << >> /\ k \notin mine'
      BY Zenon, <1>1, <2>2 DEF RotationIInv, Made
    <3>2. k # active BY Zenon, <1>2, <3>1 DEF RotationConstants
    <3>3. held'[k] = held[k]
      <4>1. CASE PutRecord(object) BY ZenonT(60), <1>1, <3>2, <4>1, RotationPutFile
      <4>2. CASE UNCHANGED <<held, length>> BY Zenon, <4>2
      <4> QED BY Zenon, <1>3, <4>1, <4>2
    <3> QED BY Zenon, <3>1, <3>3
  <2>3. \A f \in RotationFile : chunkFile'[f] # NoChunk => identity'[f] \in ChunkId
    BY Zenon, <1>1 DEF RotationIInv, Made
  <2> QED BY ZenonT(60), <2>1, <2>2, <2>3 DEF Made
<1>11. OthersSealed' BY Zenon, <1>1, <1>2 DEF OthersSealed
<1>12. LocatedHeld'
  <2>1. CASE WriteFails
    <3>1. UNCHANGED located BY Zenon, <2>1 DEF WriteFails
    <3>2. /\ \A k \in ChunkId : meta[k] # NoChunk => meta'[k] # NoChunk
          /\ \A f \in RotationFile : held[f] = << >> \/ identity'[f] = identity[f]
      BY Zenon, <1>1
    <3> QED BY ZenonT(60), <1>4, <3>1, <3>2, RotationLocatedKept
  <2>2. CASE WriteRecord
    <3> DEFINE at == [chunk |-> identity[active], offset |-> length[active]]
    <3>1. PutRecord(object) /\ located' = [located EXCEPT ![object] = at]
      BY Zenon, <2>2 DEF WriteRecord
    <3>2. at.chunk = identity[active] /\ at.offset = length[active] BY Zenon
    <3> HIDE DEF at
    <3>3. /\ Len(held[active]) + 1 \in DOMAIN held'[active]
          /\ held'[active][Len(held[active]) + 1] = [object |-> object, offset |-> length[active]]
      BY Zenon, <1>1, <3>1, RotationPutRecord
    <3>4. located'[object] = at /\ \A o \in Object \ {object} : located'[o] = located[o]
      BY ZenonT(60), <1>1, <3>1 DEF RotationIInv, RotationTypeOK
    <3>5. ASSUME NEW o \in Object, located'[o] # NoChunk
          PROVE  /\ meta'[located'[o].chunk] # NoChunk
                 /\ \E f \in RotationFile : identity'[f] = located'[o].chunk
                      /\ \E i \in DOMAIN held'[f] : held'[f][i] = [object |-> o, offset |-> located'[o].offset]
      <4>1. CASE o = object
        <5>1. located'[o].chunk = identity'[active] /\ located'[o].offset = length[active]
          BY Zenon, <1>1, <3>2, <3>4, <4>1
        <5>2. meta'[identity'[active]] # NoChunk
          <6>1. "open" # NoChunk BY DEF RotationConstants
          <6> QED BY ZenonT(60), <1>1, <1>2, <6>1
        <5> QED BY ZenonT(60), <1>2, <3>3, <4>1, <5>1, <5>2
      <4>2. CASE o # object
        <5>1. located'[o] = located[o] /\ located[o] # NoChunk BY Zenon, <3>4, <3>5, <4>2
        <5>2. PICK f \in RotationFile : identity[f] = located[o].chunk
                     /\ \E i \in DOMAIN held[f] : held[f][i] = [object |-> o, offset |-> located[o].offset]
          BY Zenon, <5>1 DEF RotationIInv, LocatedHeld
        <5>3. PICK i \in DOMAIN held[f] : held[f][i] = [object |-> o, offset |-> located[o].offset]
          BY Zenon, <5>2
        <5>4. meta[located[o].chunk] # NoChunk
          BY Zenon, <5>1 DEF RotationIInv, LocatedHeld
        <5> QED BY ZenonT(60), <1>1, <1>4, <5>1, <5>2, <5>3, <5>4
      <4> QED BY Zenon, <4>1, <4>2
    <3> QED BY Zenon, <3>5 DEF LocatedHeld
  <2> QED BY Zenon, <2>1, <2>2
<1>13. Ahead' /\ OneFileEach'
  <2>1. step \notin {"none", "unusable"} BY <1>1
  <2>2. identity' = identity /\ nextChunk' = nextChunk /\ behind' = behind /\ mine' \subseteq mine /\ chunkFile' = chunkFile
    BY Zenon, <1>1
  <2> QED BY Zenon, <2>1, <2>2, RotationNamesKept
<1> QED BY Zenon, <1>4, <1>8, <1>9, <1>10, <1>11, <1>12, <1>13 DEF RotationIInv

\* The steps that write no record and publish no chunk: a call begins or ends.
LEMMA RotationCallStep ==
  ASSUME RotationConstants, RotationIInv,
         \/ \E k \in ChunkId : CreateWriter(k)
         \/ \E o \in Object : AppendAndIndex(o)
         \/ Panic \/ Restart \/ UNCHANGED rotationVars
  PROVE  RotationIInv'
<1>1. UNCHANGED chunkDisk
  BY Zenon DEF CreateWriter, AppendAndIndex, Panic, Restart,
       rotationVars
<1>2. UNCHANGED <<held, length>> /\ chunkFile' = chunkFile /\ identity' = identity /\ meta' = meta /\ located' = located /\ held' = held /\ length' = length
  BY Zenon, <1>1 DEF chunkDisk
<1>3. Contiguous' /\ WithinTarget' BY Zenon, <1>2, RotationUnwritten
<1>4. LocatedHeld' BY Zenon, <1>2, RotationLocatedKept
<1>5. RotationTypeOK /\ Pending /\ Made /\ OthersSealed
  BY Zenon DEF RotationIInv
<1>6. CASE \E k \in ChunkId : CreateWriter(k)
  <2>1. PICK k \in ChunkId : CreateWriter(k) BY Zenon, <1>6
  <2>2. /\ step = "none" /\ step' = "create after" /\ mine' = {} /\ nextChunk' = k
        /\ UNCHANGED <<active, object, rotationFailures>>
        /\ behind' = behind \cup {x \in {k} : \E f \in RotationFile : chunkFile[f] # NoChunk /\ x <= identity[f]}
    BY Zenon, <2>1 DEF CreateWriter
  <2>3. nextChunk' \in 1 .. MaxChunks + 1
    <3>1. MaxChunks \in Nat BY Zenon DEF RotationConstants
    <3>2. nextChunk' \in 1 .. MaxChunks BY Zenon, <2>2 DEF ChunkId
    <3> QED BY ONLY <3>1, <3>2
  <2>4. active = NoChunk
    <3>1. step \notin {"idle", "seal", "write", "seal oversized"} BY Zenon, <2>2
    <3> QED BY ZenonT(60), <1>5, <3>1 DEF Pending
  <2>5. RotationTypeOK'
    <3>1. step' \in {"none", "idle", "seal", "create", "write", "seal oversized", "create after", "unusable"}
      BY Zenon, <2>2
    <3>2. behind' \subseteq ChunkId BY Zenon, <1>5, <2>2 DEF RotationTypeOK
    <3> QED BY ZenonT(60), <1>2, <1>5, <2>2, <2>3, <3>1, <3>2 DEF RotationTypeOK
  <2>6. Pending'
    <3>1. /\ step' \notin {"idle", "seal", "write", "seal oversized"}
          /\ step' \notin {"seal", "create", "write", "seal oversized"} /\ step' # "write"
      BY Zenon, <2>2
    <3> QED BY ZenonT(60), <2>2, <2>4, <3>1 DEF Pending
  <2>7. Made' BY ZenonT(60), <1>2, <1>5, <2>2 DEF Made
  <2>8. OthersSealed' BY Zenon, <2>2, <2>4 DEF OthersSealed
  <2>9. behind' = {} => behind = {} /\ ~\E f \in RotationFile : chunkFile[f] # NoChunk /\ k <= identity[f]
    BY Zenon, <2>2
  <2>10. ASSUME behind' = {}, NEW f \in RotationFile, chunkFile'[f] # NoChunk PROVE identity'[f] < nextChunk'
    <3>1. ~(k <= identity[f]) BY Zenon, <1>2, <2>9, <2>10
    <3>2. identity[f] \in ChunkId BY Zenon, <1>2, <2>10, RotationIdentities
    <3>3. identity[f] < k BY <3>1, <3>2 DEF ChunkId
    <3> QED BY Zenon, <1>2, <2>2, <3>3
  <2>11. Ahead' BY Zenon, <2>2, <2>10 DEF Ahead
  <2>12. OneFileEach' BY Zenon, <1>2, <2>9 DEF RotationIInv, OneFileEach
  <2> QED BY ZenonT(60), <1>3, <1>4, <2>5, <2>6, <2>7, <2>8, <2>11, <2>12 DEF RotationIInv
<1>7. CASE \E o \in Object : AppendAndIndex(o)
  <2>1. PICK o \in Object : AppendAndIndex(o) BY Zenon, <1>7
  <2>2. step = "idle" /\ active # NoChunk /\ UNCHANGED <<active, nextChunk, mine, behind, rotationFailures>>
    BY Zenon, <2>1 DEF AppendAndIndex
  <2>3. \/ step' = "idle" /\ object' = object
        \/ step' = "seal" /\ object' = o
        \/ step' = "write" /\ object' = o /\ ~WouldExceedTarget(o)
    BY Zenon, <2>1, <2>2 DEF AppendAndIndex
  <2>4. ~WouldExceedTarget(o) => (~WouldExceedTarget(o))'
    BY ZenonT(60), <1>2, <2>2 DEF WouldExceedTarget
  <2>5. RotationTypeOK'
    <3>1. step' \in {"none", "idle", "seal", "create", "write", "seal oversized", "create after", "unusable"}
      BY Zenon, <2>3
    <3>2. object' \in Object \cup {NoChunk} BY Zenon, <1>5, <2>3 DEF RotationTypeOK
    <3> QED BY ZenonT(60), <1>2, <1>5, <2>2, <3>1, <3>2 DEF RotationTypeOK
  <2>6. Pending'
    <3>1. /\ step' \in {"idle", "seal", "write", "seal oversized"}
          /\ step' \in {"seal", "create", "write", "seal oversized"} => object' = o
          /\ step' = "write" => object' = o /\ ~WouldExceedTarget(o)
      BY Zenon, <2>3
    <3>2. step' = "write" => (~WouldExceedTarget(object))'
      BY ZenonT(60), <1>2, <2>2, <3>1 DEF WouldExceedTarget
    <3> QED BY ZenonT(60), <1>5, <2>2, <3>1, <3>2 DEF Pending
  <2>7. Made'
    <3>1. step' \notin {"create", "create after"} BY Zenon, <2>3
    <3> QED BY ZenonT(60), <1>2, <1>5, <2>2, <3>1 DEF Made
  <2>8. OthersSealed' BY Zenon, <1>2, <1>5, <2>2 DEF OthersSealed
  <2>9. Ahead' /\ OneFileEach'
    <3>1. step \notin {"none", "unusable"} BY <2>2
    <3>2. nextChunk' = nextChunk /\ behind' = behind /\ mine' \subseteq mine BY Zenon, <2>2
    <3> QED BY Zenon, <1>2, <3>1, <3>2, RotationNamesKept
  <2> QED BY ZenonT(60), <1>3, <1>4, <2>5, <2>6, <2>7, <2>8, <2>9 DEF RotationIInv
<1>8. CASE Panic \/ Restart
  <2>1. /\ step' = "none" /\ active' = NoChunk /\ nextChunk' = nextChunk /\ behind' = behind /\ mine' \in {mine, {}}
        /\ object' \in {object, NoChunk}
    <3>1. CASE Panic
      <4>1. step \notin {"idle", "seal", "write", "seal oversized"} BY <3>1 DEF Panic
      <4> QED BY ZenonT(60), <1>5, <3>1, <4>1 DEF Panic, Pending
    <3>2. CASE Restart BY ZenonT(60), <3>2 DEF Restart
    <3> QED BY Zenon, <1>8, <3>1, <3>2
  <2>2. rotationFailures' \in 0 .. MaxRotationFailures
    <3>1. rotationFailures \in 0 .. MaxRotationFailures /\ MaxRotationFailures \in Nat
      BY Zenon, <1>8 DEF RotationIInv, RotationTypeOK, RotationConstants
    <3>2. rotationFailures' = rotationFailures \/ (rotationFailures < MaxRotationFailures /\ rotationFailures' = rotationFailures + 1)
      BY Zenon, <1>8 DEF Panic, Restart
    <3> QED BY <3>1, <3>2
  <2>3. RotationTypeOK'
    <3>1. step' \in {"none", "idle", "seal", "create", "write", "seal oversized", "create after", "unusable"}
      BY <2>1
    <3> QED BY ZenonT(60), <1>2, <1>5, <2>1, <2>2, <3>1 DEF RotationTypeOK
  <2>4. Pending'
    <3>1. /\ step' \notin {"idle", "seal", "write", "seal oversized"}
          /\ step' \notin {"seal", "create", "write", "seal oversized"} /\ step' # "write"
      BY <2>1
    <3> QED BY ZenonT(60), <2>1, <3>1 DEF Pending
  <2>5. Made'
    <3>1. step' \notin {"create", "create after"} BY <2>1
    <3> QED BY ZenonT(60), <1>2, <1>5, <2>1, <3>1 DEF Made
  <2>6. OthersSealed' BY ZenonT(60), <2>1 DEF OthersSealed
  <2>7. Ahead' /\ OneFileEach'
    <3>1. step' \in {"none", "unusable"} /\ mine' \subseteq mine BY Zenon, <2>1
    <3> QED BY Zenon, <1>2, <2>1, <3>1, RotationNamesKept
  <2> QED BY ZenonT(60), <1>3, <1>4, <2>3, <2>4, <2>5, <2>6, <2>7 DEF RotationIInv
<1>9. CASE UNCHANGED rotationVars
  <2>1. UNCHANGED <<active, nextChunk, mine, behind, step, object, rotationFailures>>
    BY Zenon, <1>9 DEF rotationVars
  <2>2. RotationTypeOK' BY ZenonT(60), <1>2, <1>5, <2>1 DEF RotationTypeOK
  <2>3. Pending'
    BY Zenon, <1>2, <1>5, <2>1 DEF Pending, WouldExceedTarget
  <2>4. Made' BY ZenonT(60), <1>2, <1>5, <2>1 DEF Made
  <2>5. OthersSealed' BY Zenon, <1>2, <1>5, <2>1 DEF OthersSealed
  <2>6. Ahead' /\ OneFileEach'
    <3>1. nextChunk' = nextChunk /\ behind' = behind /\ mine' \subseteq mine /\ step' = step
      BY Zenon, <2>1
    <3> QED BY Zenon, <1>2, <3>1, RotationNamesKept
  <2> QED BY Zenon, <1>3, <1>4, <2>2, <2>3, <2>4, <2>5, <2>6 DEF RotationIInv
<1> QED BY Zenon, <1>6, <1>7, <1>8, <1>9

\* The active chunk is sealed, or is given up when that fails.
LEMMA RotationSealStep ==
  ASSUME RotationConstants, RotationIInv, SealCurrent \/ SealFails \/ FinishWriter
  PROVE  RotationIInv'
<1>1. /\ RotationTypeOK /\ Pending /\ Made /\ OthersSealed
      /\ UNCHANGED <<held, length>> /\ held' = held /\ length' = length
      /\ located' = located /\ identity' = identity /\ nextChunk' = nextChunk /\ mine' = mine
      /\ behind' = behind /\ active' = NoChunk
  BY ZenonT(60) DEF RotationIInv, SealCurrent, SealFails, FinishWriter
<1>2. /\ step \in {"idle", "seal", "write", "seal oversized"}
      /\ step' \in {"create", "create after", "unusable"} /\ (step' = "create" => step = "seal" /\ object' = object)
      /\ object' \in {object, NoChunk}
  BY Zenon DEF SealCurrent, SealFails, FinishWriter
<1>3. /\ active \in RotationFile /\ active # NoChunk /\ active \in mine
      /\ chunkFile[active] = "open" /\ identity[active] \in ChunkId /\ meta[identity[active]] = "open"
      /\ \A f \in mine \ {active} : chunkFile[f] = "sealed" /\ meta[identity[f]] = "sealed"
  BY Zenon, <1>2, RotationActiveChunk
<1>4. /\ chunkFile' \in {chunkFile, [chunkFile EXCEPT ![active] = "sealed"]}
      /\ meta' \in {meta, [meta EXCEPT ![identity[active]] = "sealed"]}
      /\ step' # "unusable" => chunkFile' = [chunkFile EXCEPT ![active] = "sealed"] /\ meta' = [meta EXCEPT ![identity[active]] = "sealed"]
  <2>1. CASE SealCurrent BY Zenon, <2>1 DEF SealCurrent, SealActive
  <2>2. CASE SealFails
    <3>1. step' = "unusable" BY Zenon, <2>2 DEF SealFails
    <3>2. meta' = meta /\ chunkFile' \in {chunkFile, [chunkFile EXCEPT ![active] = "sealed"]}
      BY Zenon, <2>2 DEF SealFails
    <3> QED BY Zenon, <3>1, <3>2
  <2>3. CASE FinishWriter BY Zenon, <2>3 DEF FinishWriter, SealActive
  <2> QED BY ZenonT(60), <2>1, <2>2, <2>3
<1>5. /\ \A f \in RotationFile \ {active} : chunkFile'[f] = chunkFile[f]
      /\ chunkFile'[active] \in {"open", "sealed"}
      /\ \A k \in ChunkId : meta'[k] \in {meta[k], "sealed"}
      /\ step' # "unusable" => chunkFile'[active] = "sealed" /\ meta'[identity[active]] = "sealed"
      /\ chunkFile' \in [RotationFile -> {NoChunk, "open", "sealed"}] /\ meta' \in [ChunkId -> {NoChunk, "open", "sealed"}]
  <2>1. chunkFile \in [RotationFile -> {NoChunk, "open", "sealed"}] /\ meta \in [ChunkId -> {NoChunk, "open", "sealed"}]
    BY Zenon, <1>1 DEF RotationTypeOK
  <2>2. /\ \A f \in RotationFile \ {active} : chunkFile'[f] = chunkFile[f]
        /\ chunkFile'[active] \in {"open", "sealed"} /\ chunkFile' \in [RotationFile -> {NoChunk, "open", "sealed"}]
    <3>1. CASE chunkFile' = chunkFile BY Zenon, <1>3, <2>1, <3>1
    <3>2. CASE chunkFile' = [chunkFile EXCEPT ![active] = "sealed"]
      BY ZenonT(60), <1>3, <2>1, <3>2
    <3> QED BY ZenonT(60), <1>4, <3>1, <3>2
  <2>3. /\ \A k \in ChunkId : meta'[k] \in {meta[k], "sealed"}
        /\ meta' \in [ChunkId -> {NoChunk, "open", "sealed"}]
    <3>1. CASE meta' = meta BY ZenonT(60), <2>1, <3>1
    <3>2. CASE meta' = [meta EXCEPT ![identity[active]] = "sealed"]
      BY ZenonT(60), <1>3, <2>1, <3>2
    <3> QED BY Zenon, <1>4, <3>1, <3>2
  <2>4. step' # "unusable" => chunkFile'[active] = "sealed" /\ meta'[identity[active]] = "sealed"
    BY ZenonT(60), <1>3, <1>4, <2>1
  <2> QED BY ZenonT(60), <2>2, <2>3, <2>4
<1>6. Contiguous' /\ WithinTarget' BY Zenon, <1>1, RotationUnwritten
<1>7. LocatedHeld'
  <2>1. \A k \in ChunkId : meta[k] # NoChunk => meta'[k] # NoChunk
    <3>1. NoChunk \notin {"open", "sealed"} BY ZenonT(60) DEF RotationConstants
    <3> QED BY Zenon, <1>5, <3>1
  <2>2. \A f \in RotationFile : held[f] = << >> \/ identity'[f] = identity[f] BY Zenon, <1>1
  <2> QED BY ZenonT(60), <1>1, <2>1, <2>2, RotationLocatedKept
<1>8. RotationTypeOK'
  <2>1. rotationFailures' \in 0 .. MaxRotationFailures
    <3>1. rotationFailures \in 0 .. MaxRotationFailures /\ MaxRotationFailures \in Nat
      BY Zenon DEF RotationIInv, RotationTypeOK, RotationConstants
    <3>2. rotationFailures' = rotationFailures \/ (rotationFailures < MaxRotationFailures /\ rotationFailures' = rotationFailures + 1)
      BY Zenon DEF SealCurrent, SealFails, FinishWriter
    <3> QED BY <3>1, <3>2
  <2>2. step' \in {"none", "idle", "seal", "create", "write", "seal oversized", "create after", "unusable"}
    BY Zenon, <1>2
  <2> QED BY ZenonT(60), <1>1, <1>2, <1>5, <2>1, <2>2 DEF RotationTypeOK
<1>9. Pending'
  <2>1. /\ step' \notin {"idle", "seal", "write", "seal oversized"} /\ step' # "write"
        /\ step' \in {"seal", "create", "write", "seal oversized"} => step = "seal" /\ object' = object
    BY Zenon, <1>2
  <2>2. step = "seal" => object \in Object BY <1>1 DEF Pending
  <2> QED BY ZenonT(60), <1>1, <2>1, <2>2 DEF Pending
<1>10. Made'
  <2>1. ASSUME NEW f \in RotationFile, chunkFile'[f] = NoChunk PROVE held'[f] = << >> /\ f \notin mine'
    <3>1. f # active
      <4>1. NoChunk \notin {"open", "sealed"} BY ZenonT(60) DEF RotationConstants
      <4> QED BY Zenon, <1>5, <2>1, <4>1
    <3> QED BY ZenonT(60), <1>1, <1>5, <2>1, <3>1 DEF Made
  <2>2. ASSUME step' \in {"create", "create after"}, NEW f \in mine' PROVE chunkFile'[f] = "sealed" /\ meta'[identity'[f]] = "sealed"
    <3>1. step' # "unusable" BY Zenon, <2>2
    <3>2. f \in RotationFile /\ f \in mine /\ identity[f] \in ChunkId
      BY Zenon, <1>1, <2>2, RotationIdentities
    <3>3. CASE f = active BY Zenon, <1>1, <1>5, <3>1, <3>3
    <3>4. CASE f # active
      <4>1. chunkFile'[f] = "sealed" /\ meta[identity[f]] = "sealed"
        BY Zenon, <1>3, <1>5, <3>2, <3>4
      <4>2. meta'[identity[f]] = "sealed" BY Zenon, <1>5, <3>2, <4>1
      <4> QED BY Zenon, <1>1, <4>1, <4>2
    <3> QED BY Zenon, <3>3, <3>4
  <2>3. ASSUME NEW f \in RotationFile, chunkFile'[f] # NoChunk PROVE identity'[f] \in ChunkId
    <3>1. CASE f = active BY Zenon, <1>1, <1>3, <3>1
    <3>2. CASE f # active BY Zenon, <1>1, <1>5, <2>3, <3>2, RotationIdentities
    <3> QED BY Zenon, <3>1, <3>2
  <2> QED BY Zenon, <2>1, <2>2, <2>3 DEF Made
<1>11. OthersSealed' BY Zenon, <1>1 DEF OthersSealed
<1>12. Ahead' /\ OneFileEach'
  <2>1. step \notin {"none", "unusable"} BY <1>2
  <2>2. "open" # NoChunk BY DEF RotationConstants
  <2>3. \A f \in RotationFile : chunkFile'[f] # NoChunk => chunkFile[f] # NoChunk
    BY ZenonT(60), <1>3, <1>5, <2>2
  <2>4. mine' \subseteq mine BY Zenon, <1>1
  <2> QED BY Zenon, <1>1, <2>1, <2>3, <2>4, RotationNamesKept
<1> QED BY ZenonT(60), <1>6, <1>7, <1>8, <1>9, <1>10, <1>11, <1>12 DEF RotationIInv

\* A file is made: a new one, whose identity is past those of the writer's files, and
\* past all if every writer began there.
LEMMA RotationMakeFile ==
  ASSUME RotationConstants, RotationIInv, step \in {"create", "create after"}, nextChunk \in ChunkId,
         NEW f \in RotationFile, MakeFile(f), behind' = behind
  PROVE  /\ chunkFile[f] = NoChunk /\ held[f] = << >> /\ f \notin mine
         /\ chunkFile'[f] = "open" /\ identity'[f] = nextChunk
         /\ \A g \in RotationFile \ {f} : chunkFile'[g] = chunkFile[g] /\ identity'[g] = identity[g]
         /\ chunkFile' \in [RotationFile -> {NoChunk, "open", "sealed"}]
         /\ identity' \in [RotationFile -> ChunkId \cup {NoChunk}]
         /\ \A g \in mine : identity[g] \in ChunkId /\ identity[g] < nextChunk /\ identity[g] # nextChunk
         /\ OneFileEach'
<1>1. RotationTypeOK /\ Made /\ Ahead /\ OneFileEach BY Zenon DEF RotationIInv
<1>2. /\ chunkFile[f] = NoChunk /\ chunkFile' = [chunkFile EXCEPT ![f] = "open"]
      /\ identity' = [identity EXCEPT ![f] = nextChunk]
  BY Zenon DEF MakeFile
<1>3. held[f] = << >> /\ f \notin mine BY Zenon, <1>1, <1>2 DEF Made
<1>4. /\ chunkFile'[f] = "open" /\ identity'[f] = nextChunk
      /\ \A g \in RotationFile \ {f} : chunkFile'[g] = chunkFile[g] /\ identity'[g] = identity[g]
      /\ chunkFile' \in [RotationFile -> {NoChunk, "open", "sealed"}]
      /\ identity' \in [RotationFile -> ChunkId \cup {NoChunk}]
  BY ZenonT(60), <1>1, <1>2 DEF RotationTypeOK
<1>5. step \notin {"none", "unusable"} OBVIOUS
<1>6. \A x \in ChunkId : x < nextChunk => x # nextChunk
  <2>1. nextChunk \in ChunkId OBVIOUS
  <2> QED BY ONLY SMTT(30), <2>1 DEF ChunkId
<1>7. \A g \in mine : identity[g] \in ChunkId /\ identity[g] < nextChunk
  BY Zenon, <1>1, <1>5, RotationIdentities DEF Ahead
<1>8. ASSUME behind = {}, NEW g \in RotationFile, g # f, chunkFile'[g] # NoChunk PROVE identity'[g] # nextChunk
  <2>1. chunkFile[g] # NoChunk /\ identity'[g] = identity[g] BY Zenon, <1>4, <1>8
  <2>2. identity[g] \in ChunkId /\ identity[g] < nextChunk
    BY Zenon, <1>1, <1>5, <1>8, <2>1, RotationIdentities DEF Ahead
  <2> QED BY Zenon, <1>6, <2>1, <2>2
<1>9. ASSUME behind = {}, NEW g \in RotationFile, NEW h \in RotationFile,
             chunkFile'[g] # NoChunk, chunkFile'[h] # NoChunk, identity'[g] = identity'[h]
      PROVE  g = h
  <2>1. CASE g = f BY ZenonT(60), <1>4, <1>8, <1>9, <2>1
  <2>2. CASE h = f BY ZenonT(60), <1>4, <1>8, <1>9, <2>2
  <2>3. CASE g # f /\ h # f BY ZenonT(60), <1>1, <1>4, <1>9, <2>3 DEF OneFileEach
  <2> QED BY Zenon, <2>1, <2>2, <2>3
<1>10. OneFileEach' BY Zenon, <1>9 DEF OneFileEach
<1> QED BY Zenon, <1>2, <1>3, <1>4, <1>6, <1>7, <1>10

\* The next chunk is made, and published unless that fails.
LEMMA RotationCreateStep ==
  ASSUME RotationConstants, RotationIInv, CreateNext \/ CreateFails
  PROVE  RotationIInv'
<1>1. /\ RotationTypeOK /\ Pending /\ Made /\ Ahead /\ OthersSealed
      /\ step \in {"create", "create after"} /\ nextChunk \in ChunkId
      /\ UNCHANGED <<held, length>> /\ held' = held /\ length' = length /\ located' = located
      /\ nextChunk' = nextChunk + 1 /\ behind' = behind
  BY ZenonT(60) DEF RotationIInv, CreateNext, CreateFails
<1>2. active = NoChunk
  <2>1. step \notin {"idle", "seal", "write", "seal oversized"} BY Zenon, <1>1
  <2> QED BY Zenon, <1>1, <2>1 DEF Pending
<1>3. chunkFile \in [RotationFile -> {NoChunk, "open", "sealed"}] /\ meta \in [ChunkId -> {NoChunk, "open", "sealed"}]
  BY Zenon, <1>1 DEF RotationTypeOK
<1>4. Contiguous' /\ WithinTarget' BY ZenonT(60), <1>1, RotationUnwritten
<1>5. nextChunk' \in 1 .. MaxChunks + 1
  <2>1. MaxChunks \in Nat BY ZenonT(60) DEF RotationConstants
  <2>2. nextChunk \in 1 .. MaxChunks /\ nextChunk' = nextChunk + 1 BY Zenon, <1>1 DEF ChunkId
  <2> QED BY ONLY <2>1, <2>2
<1>6. rotationFailures' \in 0 .. MaxRotationFailures
  <2>1. rotationFailures \in 0 .. MaxRotationFailures /\ MaxRotationFailures \in Nat
    BY Zenon DEF RotationIInv, RotationTypeOK, RotationConstants
  <2>2. rotationFailures' = rotationFailures \/ (rotationFailures < MaxRotationFailures /\ rotationFailures' = rotationFailures + 1)
    BY Zenon DEF CreateNext, CreateFails
  <2> QED BY <2>1, <2>2
<1>7. \A g \in mine : chunkFile[g] = "sealed" /\ meta[identity[g]] = "sealed"
  BY Zenon, <1>1 DEF Made
<1>8. NoChunk \notin {"open", "sealed"} BY ZenonT(60) DEF RotationConstants
<1>9. mine \subseteq RotationFile BY ZenonT(60), <1>1 DEF RotationTypeOK
<1>10. \A x \in ChunkId : (x < nextChunk => x < nextChunk') /\ nextChunk < nextChunk'
  <2>1. nextChunk \in ChunkId /\ nextChunk' = nextChunk + 1 BY Zenon, <1>1
  <2> QED BY ONLY SMTT(30), <2>1 DEF ChunkId
<1>11. CASE CreateNext
  <2>1. PICK f \in RotationFile : MakeFile(f) /\ active' = f /\ mine' = mine \cup {f}
    BY Zenon, <1>11 DEF CreateNext
  <2>2. /\ chunkFile[f] = NoChunk /\ held[f] = << >> /\ f \notin mine
        /\ chunkFile'[f] = "open" /\ identity'[f] = nextChunk
        /\ \A g \in RotationFile \ {f} : chunkFile'[g] = chunkFile[g] /\ identity'[g] = identity[g]
        /\ chunkFile' \in [RotationFile -> {NoChunk, "open", "sealed"}]
        /\ identity' \in [RotationFile -> ChunkId \cup {NoChunk}]
        /\ \A g \in mine : identity[g] \in ChunkId /\ identity[g] < nextChunk /\ identity[g] # nextChunk
        /\ OneFileEach'
    BY Zenon, <1>1, <2>1, RotationMakeFile
  <2>3. /\ step' \in {"write", "idle"} /\ (step' = "write" => step = "create" /\ object' = object)
        /\ object' \in {object, NoChunk} /\ meta' = [meta EXCEPT ![nextChunk] = "open"]
    BY Zenon, <1>1, <1>11 DEF CreateNext
  <2>4. /\ meta'[nextChunk] = "open" /\ \A k \in ChunkId \ {nextChunk} : meta'[k] = meta[k]
        /\ meta' \in [ChunkId -> {NoChunk, "open", "sealed"}]
    BY ZenonT(60), <1>1, <1>3, <2>3
  <2>5. LocatedHeld'
    <3>1. \A k \in ChunkId : meta[k] # NoChunk => meta'[k] # NoChunk BY Zenon, <1>8, <2>4
    <3>2. \A g \in RotationFile : held[g] = << >> \/ identity'[g] = identity[g] BY Zenon, <2>2
    <3> QED BY ZenonT(60), <1>1, <3>1, <3>2, RotationLocatedKept
  <2>6. RotationTypeOK'
    <3>1. step' \in {"none", "idle", "seal", "create", "write", "seal oversized", "create after", "unusable"}
      BY Zenon, <2>3
    <3>2. mine' \subseteq RotationFile /\ active' \in RotationFile BY Zenon, <1>9, <2>1
    <3>3. object' \in Object \cup {NoChunk} /\ behind' \subseteq ChunkId
      BY Zenon, <1>1, <2>3 DEF RotationTypeOK
    <3>4. /\ held' \in [RotationFile -> Seq([object : Object, offset : Nat])] /\ length' \in [RotationFile -> Nat]
          /\ located' \in [Object -> RecordLocation \cup {NoChunk}]
      BY Zenon, <1>1 DEF RotationTypeOK
    <3> QED BY ZenonT(60), <1>5, <1>6, <2>2, <2>4, <3>1, <3>2, <3>3, <3>4 DEF RotationTypeOK
  <2>7. Pending'
    <3>1. /\ step' \in {"idle", "seal", "write", "seal oversized"}
          /\ step' \in {"seal", "create", "write", "seal oversized"} => step = "create" /\ object' = object
      BY Zenon, <2>3
    <3>2. step = "create" => object \in Object BY <1>1 DEF Pending
    <3>3. active' # NoChunk BY Zenon, <2>1 DEF RotationConstants
    <3>4. (~WouldExceedTarget(object))'
      BY ZenonT(60), <1>1, <2>1, <2>2 DEF WouldExceedTarget
    <3> QED BY ZenonT(60), <2>1, <3>1, <3>2, <3>3, <3>4 DEF Pending
  <2>8. Made'
    <3>1. step' \notin {"create", "create after"} BY Zenon, <2>3
    <3>2. ASSUME NEW g \in RotationFile, chunkFile'[g] = NoChunk PROVE held'[g] = << >> /\ g \notin mine'
      <4>1. g # f BY Zenon, <1>8, <2>2, <3>2
      <4> QED BY ZenonT(60), <1>1, <2>1, <2>2, <3>2, <4>1 DEF Made
    <3>3. ASSUME NEW g \in RotationFile, chunkFile'[g] # NoChunk PROVE identity'[g] \in ChunkId
      <4>1. CASE g = f BY Zenon, <1>1, <2>2, <4>1
      <4>2. CASE g # f BY Zenon, <1>1, <2>2, <3>3, <4>2 DEF Made
      <4> QED BY Zenon, <4>1, <4>2
    <3> QED BY Zenon, <3>1, <3>2, <3>3 DEF Made
  <2>9. OthersSealed'
    <3>1. chunkFile'[active'] = "open" /\ meta'[identity'[active']] = "open"
      BY Zenon, <2>1, <2>2, <2>4
    <3>2. ASSUME NEW g \in mine' \ {active'} PROVE chunkFile'[g] = "sealed" /\ meta'[identity'[g]] = "sealed"
      <4>1. g \in mine /\ g # f /\ g \in RotationFile BY Zenon, <1>9, <2>1, <3>2
      <4>2. identity'[g] = identity[g] /\ chunkFile'[g] = chunkFile[g] BY Zenon, <2>2, <4>1
      <4>3. meta'[identity[g]] = meta[identity[g]] BY Zenon, <2>2, <2>4, <4>1
      <4> QED BY Zenon, <1>7, <4>1, <4>2, <4>3
    <3> QED BY Zenon, <3>1, <3>2 DEF OthersSealed
  <2>10. Ahead'
    <3>1. ASSUME NEW g \in mine' PROVE identity'[g] < nextChunk'
      <4>1. CASE g = f BY Zenon, <1>1, <1>10, <2>2, <4>1
      <4>2. CASE g # f BY Zenon, <1>9, <1>10, <2>1, <2>2, <3>1, <4>2
      <4> QED BY Zenon, <4>1, <4>2
    <3>2. ASSUME NEW g \in mine', NEW h \in mine', identity'[g] = identity'[h] PROVE g = h
      <4>1. \A x \in mine : identity'[x] = identity[x] /\ identity[x] # nextChunk
        BY Zenon, <1>9, <2>2
      <4>2. \A x, y \in mine : identity[x] = identity[y] => x = y BY Zenon, <1>1 DEF Ahead
      <4> QED BY ZenonT(60), <2>1, <2>2, <3>2, <4>1, <4>2
    <3>3. ASSUME behind' = {}, NEW g \in RotationFile, chunkFile'[g] # NoChunk PROVE identity'[g] < nextChunk'
      <4>1. CASE g = f BY Zenon, <1>1, <1>10, <2>2, <4>1
      <4>2. CASE g # f
        <5>1. chunkFile[g] # NoChunk /\ identity'[g] = identity[g] BY Zenon, <2>2, <3>3, <4>2
        <5>2. identity[g] \in ChunkId BY Zenon, <5>1, RotationIdentities
        <5>3. step \notin {"none", "unusable"} BY <1>1
        <5>4. identity[g] < nextChunk BY Zenon, <1>1, <3>3, <5>1, <5>3 DEF Ahead
        <5> QED BY Zenon, <1>10, <5>1, <5>2, <5>4
      <4> QED BY Zenon, <4>1, <4>2
    <3> QED BY Zenon, <3>1, <3>2, <3>3 DEF Ahead
  <2> QED BY ZenonT(60), <1>4, <2>2, <2>5, <2>6, <2>7, <2>8, <2>9, <2>10 DEF RotationIInv
<1>12. CASE CreateFails
  <2>1. /\ meta' = meta /\ active' = NoChunk /\ mine' = mine /\ step' = "unusable" /\ object' = NoChunk
        /\ (chunkFile' = chunkFile /\ identity' = identity) \/ \E f \in RotationFile : MakeFile(f)
    BY Zenon, <1>2, <1>12 DEF CreateFails
  <2>2. /\ \A g \in RotationFile : chunkFile'[g] = NoChunk => chunkFile[g] = NoChunk
        /\ \A g \in RotationFile : chunkFile'[g] # NoChunk => identity'[g] \in ChunkId
        /\ \A g \in RotationFile : held[g] = << >> \/ identity'[g] = identity[g]
        /\ \A g \in mine : identity'[g] = identity[g]
        /\ chunkFile' \in [RotationFile -> {NoChunk, "open", "sealed"}]
        /\ identity' \in [RotationFile -> ChunkId \cup {NoChunk}]
        /\ OneFileEach'
    <3>1. CASE chunkFile' = chunkFile /\ identity' = identity
      <4>1. OneFileEach' BY Zenon, <1>1, <3>1 DEF RotationIInv, OneFileEach
      <4> QED BY ZenonT(60), <1>1, <3>1, <4>1, RotationIdentities DEF RotationTypeOK
    <3>2. ASSUME NEW f \in RotationFile, MakeFile(f) PROVE <2>2
      <4>1. /\ chunkFile[f] = NoChunk /\ held[f] = << >> /\ f \notin mine
            /\ chunkFile'[f] = "open" /\ identity'[f] = nextChunk
            /\ \A g \in RotationFile \ {f} : chunkFile'[g] = chunkFile[g] /\ identity'[g] = identity[g]
            /\ chunkFile' \in [RotationFile -> {NoChunk, "open", "sealed"}]
            /\ identity' \in [RotationFile -> ChunkId \cup {NoChunk}] /\ OneFileEach'
        BY Zenon, <1>1, <3>2, RotationMakeFile
      <4>2. \A g \in RotationFile : chunkFile'[g] # NoChunk => identity'[g] \in ChunkId
        <5>1. \A g \in RotationFile \ {f} : chunkFile'[g] # NoChunk => identity'[g] \in ChunkId
          BY Zenon, <4>1, RotationIdentities
        <5> QED BY Zenon, <1>1, <4>1, <5>1
      <4>3. \A g \in mine : identity'[g] = identity[g] BY Zenon, <1>9, <4>1
      <4> QED BY ZenonT(60), <4>1, <4>2, <4>3
    <3> QED BY Zenon, <2>1, <3>1, <3>2
  <2>3. LocatedHeld' BY Zenon, <1>1, <2>1, <2>2, RotationLocatedKept
  <2>4. RotationTypeOK'
    <3>1. step' \in {"none", "idle", "seal", "create", "write", "seal oversized", "create after", "unusable"}
      BY <2>1
    <3> QED BY ZenonT(60), <1>1, <1>5, <1>6, <2>1, <2>2, <3>1 DEF RotationTypeOK
  <2>5. Pending'
    <3>1. /\ step' \notin {"idle", "seal", "write", "seal oversized"}
          /\ step' \notin {"seal", "create", "write", "seal oversized"} /\ step' # "write"
      BY <2>1
    <3> QED BY ZenonT(60), <2>1, <3>1 DEF Pending
  <2>6. Made'
    <3>1. step' \notin {"create", "create after"} BY <2>1
    <3> QED BY ZenonT(60), <1>1, <2>1, <2>2, <3>1 DEF Made
  <2>7. OthersSealed' BY Zenon, <2>1 DEF OthersSealed
  <2>8. Ahead'
    <3>1. step' \in {"none", "unusable"} BY <2>1
    <3>2. \A x, y \in mine : identity[x] = identity[y] => x = y BY Zenon, <1>1 DEF Ahead
    <3>3. \A x, y \in mine' : identity'[x] = identity'[y] => x = y BY Zenon, <2>1, <2>2, <3>2
    <3> QED BY Zenon, <3>1, <3>3 DEF Ahead
  <2> QED BY Zenon, <1>4, <2>2, <2>3, <2>4, <2>5, <2>6, <2>7, <2>8 DEF RotationIInv
<1> QED BY Zenon, <1>11, <1>12

\* The invariant holds in every state of the writer.
LEMMA RotationInvariance ==
  ASSUME RotationConstants
  PROVE  RotationSpec => []RotationIInv
<1>1. RotationInit => RotationIInv
  <2> SUFFICES ASSUME RotationInit PROVE RotationIInv BY Zenon
  <2>1. RotationTypeOK
    <3>1. << >> \in Seq([object : Object, offset : Nat]) OBVIOUS
    <3>2. 1 \in 1 .. MaxChunks + 1 /\ 0 \in 0 .. MaxRotationFailures /\ ChunkHeaderLen \in Nat
      BY DEF RotationConstants
    <3>3. step \in {"none", "idle", "seal", "create", "write", "seal oversized", "create after", "unusable"}
      BY DEF RotationInit
    <3> QED BY ZenonT(60), <3>1, <3>2, <3>3 DEF RotationInit, RotationTypeOK
  <2>2. Pending
    <3>1. /\ step \notin {"idle", "seal", "write", "seal oversized"}
          /\ step \notin {"seal", "create", "write", "seal oversized"} /\ step # "write"
      BY DEF RotationInit
    <3> QED BY Zenon, <3>1 DEF RotationInit, Pending
  <2>3. Made
    <3>1. step \notin {"create", "create after"} BY DEF RotationInit
    <3> QED BY Zenon, <3>1 DEF RotationInit, Made
  <2>4. OthersSealed /\ LocatedHeld
    BY Zenon DEF RotationInit, OthersSealed, LocatedHeld
  <2>5. \A k \in RotationFile : held[k] = << >> /\ length[k] = ChunkHeaderLen /\ chunkFile[k] = NoChunk
    BY Zenon DEF RotationInit
  <2>6. DOMAIN << >> = {} OBVIOUS
  <2>7. Contiguous BY Zenon, <2>5, <2>6 DEF Contiguous
  <2>8. WithinTarget BY ZenonT(60), <2>5 DEF WithinTarget
  <2>9. Ahead
    <3>1. step \in {"none", "unusable"} /\ mine = {} BY DEF RotationInit
    <3> QED BY Zenon, <3>1 DEF Ahead
  <2>10. OneFileEach BY Zenon, <2>5 DEF OneFileEach
  <2> QED BY ZenonT(60), <2>1, <2>2, <2>3, <2>4, <2>7, <2>8, <2>9, <2>10 DEF RotationIInv
<1>2. RotationIInv /\ [RotationNext]_rotationVars => RotationIInv'
  BY Zenon, RotationWriteStep, RotationCallStep, RotationSealStep,
       RotationCreateStep DEF RotationNext
<1> QED BY <1>1, <1>2, PTL DEF RotationSpec

\* A location names the chunk and the offset of its record; all chunks of a writer
\* but its active one are sealed; records lie end to end from the header on; a chunk
\* and its footer stay within the target, unless its one record is too large for any
\* chunk of that size; and writers that begin past the files there are give no chunk
\* a second file, whichever steps failed (RotatingChunkWriter's append_and_index,
\* seal_current and create_next).
THEOREM RotationIsSafe == RotationSpec => []RotationSafe
<1>1. RotationIInv => RotationSafe BY Zenon DEF RotationIInv, RotationSafe
<1> QED BY <1>1, RotationInvariance, RotationAssumption, PTL
=============================================================================
