-------------------------- MODULE WorkspacesProofs --------------------------
(***************************************************************************)
(* Durable workspaces for any manifests, any number of checkouts and any   *)
(* number of crashes and failed steps.                                     *)
(***************************************************************************)
EXTENDS Workspaces, WorkspaceReplace, TLAPS

\* The operation in progress, the step it is at and the phase agree.
Control ==
  /\ op.kind = "none" <=> at = "idle"
  /\ at \in {"materialize", "manifest", "sync manifest", "publish", "sync workspaces", "persist"} =>
       op.kind = "checkout"
  /\ at \in {"unpin", "unlink", "sync removal"} => op.kind = "delete"
  /\ op.kind \in {"checkout", "delete"} => phase = "serving"
  /\ op.kind = "startup" => phase = "starting" /\ at \in {"withdraw", "sync withdrawal"}
  /\ op.kind = "delete" => at \in {"withdraw", "sync withdrawal", "unpin", "unlink", "sync removal"}

\* The three entries of a workspace in the catalog belong together.
CatalogInv == \A i \in Id :
  /\ workspacePin[i] # None => workspace[i] # None
  /\ workspace[i] # None =>
       /\ workspace[i].id = i
       /\ workspaceName[workspace[i].name] = i
       /\ workspacePin[i] \in {None, workspace[i].generation}

\* A synchronized manifest file that is no longer seen is that of the deleted
\* workspace the catalog still records.
ManifestsInv == \A i \in Id :
  /\ manifests[i] # None => manifests[i].id = i
  /\ mdurable[i] # None => mdurable[i].id = i
  /\ i \notin doubtful /\ manifests[i] # None => mdurable[i] = manifests[i]
  /\ mdurable[i] \notin {None, manifests[i]} => workspace[i] = mdurable[i]
  /\ workspacePin[i] # None => mdurable[i] \in {None, manifests[i]}

\* A directory has the name its manifest gives it, and is absent on disk once it is
\* seen to be, but for the one that is being withdrawn.
DirsInv == \A n \in Name :
  /\ dirs[n] \in Tree => dirs[n].manifest.name = n
  /\ ddurable[n] \in Tree => ddurable[n].manifest.name = n
  /\ n \notin unsettled /\ dirs[n] = None /\ ddurable[n] # None =>
       at = "sync withdrawal" /\ Withdrawn = n

\* What a checkout knows at each of its steps.
CheckoutInv == op.kind = "checkout" =>
  LET t == op.tree
      m == t.manifest
  IN  /\ t.try = tries
      /\ at \in {"sync manifest", "publish", "sync workspaces", "persist"} => manifests[m.id] = m
      /\ at \in {"sync workspaces", "persist", "withdraw"} => dirs[m.name] = t
      /\ at = "persist" => ddurable[m.name] = t

\* What a deletion and a withdrawal at startup know.
WithdrawalInv ==
  /\ op.kind = "delete" =>
       /\ workspace[op.manifest.id] = op.manifest
       /\ op.manifest.id \in deleted
       /\ at \in {"withdraw", "sync withdrawal", "unpin", "unlink"} => manifests[op.manifest.id] = op.manifest
       /\ at \in {"unlink", "sync removal"} => workspacePin[op.manifest.id] = None
       /\ at \in {"unpin", "unlink", "sync removal"} => dirs[op.manifest.name] = None
  /\ op.kind = "startup" =>
       /\ manifests[op.manifest.id] = op.manifest
       /\ workspacePin[op.manifest.id] = None
  /\ at = "sync withdrawal" => dirs[Withdrawn] = None

\* A directory that became Ready has its record, and is not the one in progress.
ReadiedInv == \A t \in readied :
  /\ t.try <= tries
  /\ op.kind = "checkout" => t.try < tries
  /\ workspace[t.manifest.id] = t.manifest

\* A workspace that nobody deletes and whose name nobody else was given keeps its
\* directory, on disk too.
KeptInv == \A i \in Id :
  workspacePin[i] # None /\ i \notin deleted /\ ~Contested(i) =>
    /\ dirs[workspace[i].name] \in readied
    /\ ddurable[workspace[i].name] = dirs[workspace[i].name]

\* What startup has examined is in order, or being put in order.
StartupInv == phase = "starting" => \A i \in Id :
  /\ i \in todo => manifests[i] # None
  /\ i \notin todo /\ manifests[i] # None =>
       \/ LoadReady(i) = "ready"
       \/ dirs[manifests[i].name] = None
       \/ op.kind = "startup" /\ op.manifest = manifests[i] /\ at = "withdraw"

IInv ==
  /\ Control /\ CatalogInv /\ ManifestsInv /\ DirsInv /\ CheckoutInv /\ WithdrawalInv
  /\ ReadiedInv /\ KeptInv /\ StartupInv /\ ManifestFirst /\ VisiblePinned

-----------------------------------------------------------------------------
(* Types *)

\* What the type of the operation in progress says of its fields.
LEMMA OperationFields ==
  ASSUME TypeOK
  PROVE  /\ op.kind \in {"none", "checkout", "delete", "startup"}
         /\ op.kind = "none" <=> op = Idle
         /\ op.kind = "checkout" =>
              /\ op.tree \in Tree /\ op.tree.manifest \in Manifest
              /\ op.tree.manifest.id \in Id /\ op.tree.manifest.name \in Name
         /\ op.kind \in {"delete", "startup"} =>
              /\ op.manifest \in Manifest
              /\ op.manifest.id \in Id /\ op.manifest.name \in Name
         /\ op.kind # "none" => Withdrawn \in Name
<1>1. op \in Operation
  BY Zenon DEF TypeOK
<1>2. CASE op = Idle
  BY <1>2 DEF Idle
<1>3. CASE op \in [kind : {"checkout"}, tree : Tree]
  BY <1>3 DEF Idle, Tree, Id, Name, Withdrawn
<1>4. CASE op \in [kind : {"delete", "startup"}, manifest : Manifest]
  BY <1>4 DEF Idle, Id, Name, Withdrawn
<1> QED
  BY <1>1, <1>2, <1>3, <1>4 DEF Operation

\* The count of checkouts is a number.
LEMMA TriesNat == TypeOK => tries \in Nat
<1> SUFFICES ASSUME tries \in 0 .. MaxTries PROVE tries \in Nat
  BY Zenon DEF TypeOK
<1> QED
  BY BoundAssumption

\* Every step keeps the types.
LEMMA TypeStep == TypeOK /\ Control /\ StartupInv /\ [Next]_vars => TypeOK'
<1> SUFFICES ASSUME TypeOK, Control, StartupInv, [Next]_vars PROVE TypeOK'
  OBVIOUS
<1>0. /\ Idle \in Operation
      /\ Fault => faults' \in 0 .. MaxFaults
      /\ tries < MaxTries => tries + 1 \in 0 .. MaxTries /\ tries + 1 \in 1 .. MaxTries
  <2>1. Idle \in Operation
    BY DEF Operation
  <2>2. faults \in 0 .. MaxFaults /\ tries \in 0 .. MaxTries
    BY Zenon DEF TypeOK
  <2> QED
    BY <2>1, <2>2, BoundAssumption DEF Fault
<1> USE DEF Goto, Return, Abort, NoFault, files, catalog, ghosts
<1>1. ASSUME NEW m \in Manifest, Checkout(m) PROVE TypeOK'
  BY <1>0, <1>1, Zenon DEF TypeOK, Checkout, Operation, Tree
<1>2. ASSUME NEW i \in Id, Delete(i) PROVE TypeOK'
  BY <1>2, NoneAssumption, Zenon DEF TypeOK, Delete, LoadReady, Operation
<1>3. ASSUME NEW i \in Id, Reconcile(i) PROVE TypeOK'
  <2>1. manifests[i] \in Manifest
    BY <1>3, Zenon DEF Reconcile, TypeOK, StartupInv
  <2>2. [kind |-> "startup", manifest |-> manifests[i]] \in Operation
    BY <2>1 DEF Operation
  <2> QED
    BY <1>3, <2>2, Zenon DEF TypeOK, Reconcile
<1>4. CASE Materialize
  BY <1>0, <1>4, Zenon DEF TypeOK, Materialize
<1>5. CASE EnsureManifest
  BY <1>0, <1>5, OperationFields, ZenonT(60) DEF TypeOK, Control, EnsureManifest
<1>6. CASE SyncManifest
  BY <1>0, <1>6, ZenonT(60) DEF TypeOK, SyncManifest, Lost
<1>7. CASE Publish
  BY <1>0, <1>7, OperationFields, Zenon DEF TypeOK, Control, Publish
<1>8. CASE SyncWorkspaces
  BY <1>0, <1>8, ZenonT(60) DEF TypeOK, SyncWorkspaces, Resurrected
<1>9. CASE PersistReady
  <2>1. op.kind = "checkout"
    BY ZenonT(60), <1>9 DEF PersistReady, Control
  <2>2. UNCHANGED catalog \/ PutReady(op.tree.manifest)
    BY <1>9 DEF PersistReady
  <2>3. /\ workspace' \in [Id -> Manifest \cup {None}]
        /\ workspaceName' \in [Name -> Id \cup {None}]
        /\ workspacePin' \in [Id -> {m.generation : m \in Manifest} \cup {None}]
    <3>1. CASE UNCHANGED catalog
      BY <3>1, Zenon DEF TypeOK
    <3>2. CASE PutReady(op.tree.manifest)
      <4>1. op.tree.manifest.generation \in {m.generation : m \in Manifest}
        BY ZenonT(60), <2>1, OperationFields
      <4> QED
        BY <2>1, <3>2, <4>1, OperationFields, ZenonT(60) DEF TypeOK, PutReady
    <3> QED
      BY <2>2, <3>1, <3>2
  <2>4. readied' \subseteq Tree /\ deleted' \subseteq Id
    BY ZenonT(60), <2>1, <1>9, OperationFields DEF PersistReady, TypeOK
  <2>5. /\ faults' \in 0 .. MaxFaults /\ op' \in Operation
        /\ at' \in {"idle", "withdraw"} /\ UNCHANGED <<phase, todo>>
    BY ZenonT(60), <1>0, <1>9 DEF PersistReady, TypeOK
  <2>6. UNCHANGED <<manifests, mdurable, dirs, ddurable, tries, doubtful, unsettled>>
    BY <1>9 DEF PersistReady
  <2> QED
    BY <2>3, <2>4, <2>5, <2>6, ZenonT(60) DEF TypeOK
<1>10. CASE Withdraw
  BY <1>0, <1>10, OperationFields, Zenon DEF TypeOK, Control, Withdraw
<1>11. CASE SyncWithdrawal
  BY <1>0, <1>11, OperationFields, ZenonT(60) DEF TypeOK, Control, SyncWithdrawal, Resurrected
<1>12. CASE Unpin
  BY <1>0, <1>12, Zenon DEF TypeOK, Unpin
<1>13. CASE Unlink
  BY <1>0, <1>13, Zenon DEF TypeOK, Unlink
<1>14. CASE SyncRemoval
  BY <1>0, <1>14, ZenonT(60) DEF TypeOK, SyncRemoval, Lost
<1>15. CASE Serve
  BY <1>15, ZenonT(60) DEF TypeOK, Serve
<1>16. CASE Kill
  BY <1>0, <1>16, OperationFields, ZenonT(60) DEF TypeOK, Control, Kill, Restart
<1>17. CASE PowerLoss
  BY <1>0, <1>17, Zenon DEF TypeOK, PowerLoss, Restart
<1>18. CASE UNCHANGED vars
  BY <1>18, Zenon DEF TypeOK, vars
<1> QED
  BY SMTT(60), <1>1, <1>2, <1>3, <1>4, <1>5, <1>6, <1>7, <1>8, <1>9, <1>10, <1>11, <1>12, <1>13,
     <1>14, <1>15, <1>16, <1>17, <1>18 DEF Next, Step

-----------------------------------------------------------------------------
(* What a step leaves alone *)

\* A step that changes none of its variables keeps an invariant.
LEMMA Untouched ==
  ASSUME IInv
  PROVE  /\ UNCHANGED catalog => CatalogInv'
         /\ UNCHANGED <<manifests, mdurable, doubtful, workspace, workspacePin>> =>
              ManifestsInv' /\ ManifestFirst'
         /\ UNCHANGED <<dirs, ddurable, workspacePin, readied, unsettled>> => VisiblePinned'
         /\ UNCHANGED <<dirs, ddurable, workspace, workspacePin, readied, deleted>> => KeptInv'
<1>1. UNCHANGED catalog => CatalogInv'
  BY DEF IInv, CatalogInv, catalog
<1>2. UNCHANGED <<manifests, mdurable, doubtful, workspace, workspacePin>> =>
        ManifestsInv' /\ ManifestFirst'
  BY DEF IInv, ManifestsInv, ManifestFirst
<1>3. UNCHANGED <<dirs, ddurable, workspacePin, readied, unsettled>> => VisiblePinned'
  BY DEF IInv, VisiblePinned
<1>4. UNCHANGED <<dirs, ddurable, workspace, workspacePin, readied, deleted>> => KeptInv'
  BY DEF IInv, KeptInv, Contested
<1> QED
  BY <1>1, <1>2, <1>3, <1>4

\* The invariants about the operation hold when there is none.
LEMMA Ended ==
  ASSUME op' = Idle, at' = "idle"
  PROVE  Control' /\ CheckoutInv' /\ WithdrawalInv' /\ op'.kind = "none"
<1>1. op'.kind = "none"
  BY DEF Idle
<1> QED
  BY <1>1 DEF Control, CheckoutInv, WithdrawalInv

\* The invariant on Ready directories after a step that adds none and starts no checkout.
LEMMA NoneReadied ==
  ASSUME IInv, UNCHANGED <<workspace, readied, tries>>, op' = op \/ op'.kind # "checkout"
  PROVE  ReadiedInv'
BY DEF IInv, ReadiedInv

-----------------------------------------------------------------------------
(* Checkout *)

\* A new checkout is told apart from every earlier one.
LEMMA CheckoutKeeps ==
  ASSUME NEW m \in Manifest, TypeOK, IInv, Checkout(m)
  PROVE  IInv'
<1> USE DEF IInv
<1>1. /\ op.kind = "none" /\ at = "idle" /\ phase' = "serving" /\ at' = "materialize"
      /\ op'.kind = "checkout" /\ op'.tree.try = tries' /\ tries' = tries + 1
      /\ UNCHANGED <<files, catalog, ghosts>>
  BY ZenonT(60) DEF Checkout, Idle, Control
<1>2. Control' /\ CheckoutInv' /\ WithdrawalInv' /\ StartupInv'
  BY ZenonT(60), <1>1 DEF Control, CheckoutInv, WithdrawalInv, StartupInv
<1>3. CatalogInv' /\ ManifestsInv' /\ KeptInv' /\ ManifestFirst' /\ VisiblePinned'
  BY <1>1, Untouched DEF files, catalog, ghosts
<1>4. DirsInv'
  BY <1>1 DEF DirsInv, files, ghosts
<1>5. ReadiedInv'
  <2> SUFFICES ASSUME NEW t \in readied
               PROVE  t.try <= tries + 1 /\ t.try < tries + 1 /\ workspace[t.manifest.id] = t.manifest
    BY <1>1 DEF ReadiedInv, catalog, ghosts
  <2>1. t.try \in 1 .. MaxTries /\ tries \in 0 .. MaxTries
    BY Zenon DEF TypeOK, Tree
  <2>2. t.try <= tries /\ workspace[t.manifest.id] = t.manifest
    BY DEF ReadiedInv
  <2> QED
    BY SMTT(60), <2>1, <2>2, BoundAssumption
<1> QED
  BY <1>2, <1>3, <1>4, <1>5

\* Filling the private staging directory.
LEMMA MaterializeKeeps ==
  ASSUME TypeOK, IInv, Materialize
  PROVE  IInv'
<1> USE DEF IInv
<1>1. /\ at = "materialize" /\ op.kind = "checkout" /\ UNCHANGED <<files, catalog, ghosts, tries, phase>>
      /\ \/ at' = "manifest" /\ op' = op
         \/ at' = "idle" /\ op' = Idle
  BY DEF Materialize, Control, Goto, Return
<1>2. Control' /\ CheckoutInv' /\ WithdrawalInv' /\ (op' = op \/ op'.kind = "none")
  BY <1>1, Ended, Zenon DEF Control, CheckoutInv, WithdrawalInv
<1>3. CatalogInv' /\ ManifestsInv' /\ KeptInv' /\ ManifestFirst' /\ VisiblePinned'
  BY <1>1, Untouched DEF files, catalog, ghosts
<1>4. DirsInv'
  BY <1>1, ZenonT(60) DEF DirsInv, files, ghosts
<1>5. ReadiedInv'
  BY <1>1, <1>2, NoneReadied DEF catalog, ghosts
<1>6. StartupInv'
  BY <1>1 DEF StartupInv, Control
<1> QED
  BY <1>2, <1>3, <1>4, <1>5, <1>6

\* A manifest file is written only where there is none, so never over the file of a
\* pinned workspace.
LEMMA EnsureManifestKeeps ==
  ASSUME TypeOK, IInv, EnsureManifest
  PROVE  IInv'
<1> USE DEF IInv
<1> DEFINE m == op.tree.manifest
<1>1. /\ at = "manifest" /\ op.kind = "checkout" /\ m \in Manifest /\ m.id \in Id /\ phase = "serving"
      /\ UNCHANGED <<mdurable, dirs, ddurable, catalog, tries, readied, unsettled, deleted, phase>>
  BY OperationFields, Zenon DEF EnsureManifest, Control, Goto, Return
<1>2. \/ op' = op /\ at' = "publish" /\ manifests[m.id] = m /\ UNCHANGED <<manifests, doubtful>>
      \/ /\ op' = op /\ at' = "sync manifest" /\ manifests[m.id] = None
         /\ manifests' = [manifests EXCEPT ![m.id] = m]
         /\ doubtful' = doubtful \cup {m.id}
      \/ op' = Idle /\ at' = "idle" /\ UNCHANGED <<manifests, doubtful>>
  BY Zenon DEF EnsureManifest, Goto, Return
<1>3. Control' /\ WithdrawalInv' /\ (op' = op \/ op'.kind = "none")
  BY <1>1, <1>2, Ended, Zenon DEF Control, WithdrawalInv
<1>4. CheckoutInv'
  BY <1>1, <1>2, Ended, ZenonT(60) DEF CheckoutInv, TypeOK
<1>5. CatalogInv' /\ KeptInv' /\ VisiblePinned'
  BY <1>1, Untouched DEF catalog
<1>6. ManifestsInv' /\ ManifestFirst'
  <2>1. CASE UNCHANGED <<manifests, doubtful>>
    BY ZenonT(60), <1>1, <2>1, Untouched DEF catalog
  <2>2. CASE /\ manifests[m.id] = None
             /\ manifests' = [manifests EXCEPT ![m.id] = m]
             /\ doubtful' = doubtful \cup {m.id}
    <3> SUFFICES ASSUME NEW i \in Id
                 PROVE  /\ manifests'[i] # None => manifests'[i].id = i
                        /\ mdurable[i] # None => mdurable[i].id = i
                        /\ i \notin doubtful' /\ manifests'[i] # None => mdurable[i] = manifests'[i]
                        /\ mdurable[i] \notin {None, manifests'[i]} => workspace[i] = mdurable[i]
                        /\ workspacePin[i] # None => mdurable[i] \in {None, manifests'[i]}
                        /\ i \notin doubtful' /\ workspace[i] # None /\ workspacePin[i] # None =>
                             manifests'[i] = workspace[i] /\ mdurable[i] = workspace[i]
      BY ZenonT(60), <1>1 DEF ManifestsInv, ManifestFirst, catalog
    <3>1. manifests'[i] = IF i = m.id THEN m ELSE manifests[i]
      BY <1>1, <2>2 DEF TypeOK
    <3> QED
      BY <1>1, <2>2, <3>1 DEF ManifestsInv, ManifestFirst
  <2> QED
    BY <1>2, <2>1, <2>2, Zenon
<1>7. DirsInv'
  BY <1>1, <1>2, Zenon DEF DirsInv
<1>8. ReadiedInv'
  BY SMTT(60), <1>1, <1>3, NoneReadied DEF catalog
<1>9. StartupInv'
  BY <1>1 DEF StartupInv
<1> QED
  BY <1>3, <1>4, <1>5, <1>6, <1>7, <1>8, <1>9

\* Synchronizing the manifest directory settles every manifest but the lost ones.
LEMMA ManifestsSynced ==
  ASSUME IInv, mdurable' = manifests, doubtful' = Lost, UNCHANGED <<manifests, workspace, workspacePin>>
  PROVE  ManifestsInv' /\ ManifestFirst'
<1>1. ManifestsInv'
  BY DEF IInv, ManifestsInv
<1>2. ManifestFirst'
  BY DEF IInv, ManifestFirst, Lost
<1> QED
  BY <1>1, <1>2

\* Synchronizing the manifest directory during a checkout.
LEMMA SyncManifestKeeps ==
  ASSUME TypeOK, IInv, SyncManifest
  PROVE  IInv'
<1> USE DEF IInv
<1>1. /\ at = "sync manifest" /\ op.kind = "checkout" /\ phase = "serving"
      /\ UNCHANGED <<manifests, dirs, ddurable, catalog, tries, readied, unsettled, deleted, phase>>
      /\ \/ op' = op /\ at' = "publish" /\ mdurable' = manifests /\ doubtful' = Lost
         \/ op' = Idle /\ at' = "idle" /\ UNCHANGED <<mdurable, doubtful>>
  BY Zenon DEF SyncManifest, Control, Goto, Return
<1>2. Control' /\ CheckoutInv' /\ WithdrawalInv' /\ (op' = op \/ op'.kind = "none")
  BY <1>1, Ended, Zenon DEF Control, CheckoutInv, WithdrawalInv
<1>3. ManifestsInv' /\ ManifestFirst'
  BY <1>1, ManifestsSynced, Untouched, Zenon DEF catalog
<1>4. CatalogInv' /\ KeptInv' /\ VisiblePinned'
  BY <1>1, Untouched, Zenon DEF catalog
<1>5. DirsInv'
  BY <1>1, Zenon DEF DirsInv
<1>6. ReadiedInv'
  BY <1>1, <1>2, NoneReadied, Zenon DEF catalog
<1>7. StartupInv'
  BY <1>1, Zenon DEF StartupInv
<1> QED
  BY <1>2, <1>3, <1>4, <1>5, <1>6, <1>7

\* A directory is published only under a free name, and is not Ready yet.
LEMMA PublishKeeps ==
  ASSUME TypeOK, IInv, Publish
  PROVE  IInv'
<1> USE DEF IInv
<1> DEFINE t == op.tree
           name == t.manifest.name
<1>1. /\ at = "publish" /\ op.kind = "checkout" /\ phase = "serving" /\ t \in Tree /\ name \in Name
      /\ UNCHANGED <<manifests, mdurable, ddurable, catalog, tries, ghosts, phase>>
  BY OperationFields, Zenon DEF Publish, Control, Goto, Return
<1>2. \/ op' = op /\ at' = "sync workspaces" /\ dirs[name] = None /\ dirs' = [dirs EXCEPT ![name] = t]
      \/ op' = Idle /\ at' = "idle" /\ UNCHANGED dirs
  BY Zenon DEF Publish, Goto, Return
<1>3. Control' /\ WithdrawalInv' /\ (op' = op \/ op'.kind = "none")
  BY <1>1, <1>2, Ended, Zenon DEF Control, WithdrawalInv
<1>4. CheckoutInv'
  BY <1>1, <1>2, Ended, ZenonT(60) DEF CheckoutInv, TypeOK
<1>5. CatalogInv' /\ ManifestsInv' /\ ManifestFirst'
  BY <1>1, Untouched DEF catalog, ghosts
<1>6. ReadiedInv'
  BY <1>1, <1>3, NoneReadied DEF catalog, ghosts
<1>7. StartupInv'
  BY <1>1, Zenon DEF StartupInv
<1>8. CASE UNCHANGED dirs
  <2>1. KeptInv' /\ VisiblePinned'
    BY <1>1, <1>8, Untouched DEF catalog, ghosts
  <2>2. DirsInv'
    BY <1>1, <1>8, Zenon DEF DirsInv, ghosts
  <2> QED
    BY <1>3, <1>4, <1>5, <1>6, <1>7, <2>1, <2>2
<1>9. CASE dirs[name] = None /\ dirs' = [dirs EXCEPT ![name] = t]
  <2>1. \A n \in Name : dirs'[n] = IF n = name THEN t ELSE dirs[n]
    BY ZenonT(60), <1>1, <1>9 DEF TypeOK
  <2>2. DirsInv'
    <3> SUFFICES ASSUME NEW n \in Name
                 PROVE  /\ dirs'[n] \in Tree => dirs'[n].manifest.name = n
                        /\ ddurable[n] \in Tree => ddurable[n].manifest.name = n
                        /\ ~(n \notin unsettled /\ dirs'[n] = None /\ ddurable[n] # None)
      BY <1>1, Zenon DEF DirsInv, ghosts
    <3>1. t # None
      BY <1>1, NoneAssumption
    <3>2. CASE n = name
      BY <2>1, <3>1, <3>2, ZenonT(60) DEF DirsInv
    <3>3. CASE n # name
      BY <1>1, <2>1, <3>3 DEF DirsInv
    <3> QED
      BY <3>2, <3>3
  <2>3. t \notin readied
    <3>1. t.try = tries /\ tries \in Nat
      BY <1>1, TriesNat DEF CheckoutInv
    <3>2. t \in readied => t.try < tries
      BY ZenonT(60), <1>1 DEF ReadiedInv
    <3> QED
      BY <3>1, <3>2
  <2>4. VisiblePinned'
    BY SMTT(60), <1>1, <2>1, <2>3 DEF VisiblePinned, catalog, ghosts
  <2>5. KeptInv'
    <3> SUFFICES ASSUME NEW i \in Id, workspacePin[i] # None, i \notin deleted, ~Contested(i)
                 PROVE  /\ dirs'[workspace[i].name] \in readied
                        /\ ddurable[workspace[i].name] = dirs'[workspace[i].name]
      BY <1>1 DEF KeptInv, Contested, catalog, ghosts
    <3>1. workspace[i] \in Manifest /\ workspace[i].name \in Name
      <4>1. workspace[i] # None
        BY DEF CatalogInv
      <4>2. workspace[i] \in Manifest
        BY <4>1, ZenonT(60) DEF TypeOK
      <4> QED
        BY <4>2 DEF Name
    <3>2. dirs[workspace[i].name] \in Tree
      BY ZenonT(60) DEF KeptInv, TypeOK
    <3>3. workspace[i].name # name
      BY <1>9, <3>2, NoneAssumption
    <3> QED
      BY ZenonT(60), <2>1, <3>1, <3>3 DEF KeptInv
  <2> QED
    BY ZenonT(60), <1>3, <1>4, <1>5, <1>6, <1>7, <2>2, <2>4, <2>5
<1> QED
  BY <1>2, <1>8, <1>9, Zenon

\* Synchronizing the workspaces settles every withdrawal but those a crash undid.
LEMMA SyncWorkspacesKeeps ==
  ASSUME TypeOK, IInv, SyncWorkspaces
  PROVE  IInv'
<1> USE DEF IInv
<1>1. /\ at = "sync workspaces" /\ op.kind = "checkout" /\ phase = "serving"
      /\ UNCHANGED <<manifests, mdurable, dirs, catalog, tries, readied, doubtful, deleted, phase>>
      /\ \/ op' = op /\ at' = "persist" /\ ddurable' = dirs /\ unsettled' = Resurrected
         \/ op' = Idle /\ at' = "idle" /\ UNCHANGED <<ddurable, unsettled>>
  BY Zenon DEF SyncWorkspaces, Control, Goto, Return
<1>2. Control' /\ CheckoutInv' /\ WithdrawalInv' /\ (op' = op \/ op'.kind = "none")
  BY <1>1, Ended, Zenon DEF Control, CheckoutInv, WithdrawalInv
<1>3. CatalogInv' /\ ManifestsInv' /\ ManifestFirst'
  BY <1>1, Untouched, Zenon DEF catalog
<1>4. ReadiedInv'
  BY <1>1, <1>2, NoneReadied, Zenon DEF catalog
<1>5. StartupInv'
  BY <1>1, Zenon DEF StartupInv
<1>6. DirsInv'
  BY <1>1, Zenon DEF DirsInv
<1>7. KeptInv'
  BY <1>1, ZenonT(60) DEF KeptInv, Contested, catalog
<1>8. VisiblePinned'
  <2>1. CASE ddurable' = dirs /\ unsettled' = Resurrected
    <3> SUFFICES ASSUME NEW n \in Name \ Resurrected, dirs[n] \in readied
                 PROVE  workspacePin[dirs[n].manifest.id] = dirs[n].manifest.generation
      BY <1>1, <2>1, ZenonT(60) DEF VisiblePinned, catalog
    <3>1. dirs[n] # None
      BY NoneAssumption, ZenonT(60) DEF TypeOK
    <3> QED
      BY <3>1 DEF VisiblePinned, Resurrected
  <2>2. CASE UNCHANGED <<ddurable, unsettled>>
    BY <1>1, <2>2, Untouched, ZenonT(60) DEF catalog
  <2> QED
    BY <1>1, <2>1, <2>2, Zenon
<1> QED
  BY <1>2, <1>3, <1>4, <1>5, <1>6, <1>7, <1>8

\* The record, the name and the pin of a new workspace are written when its directory
\* and its manifest are on disk, and take no other workspace's name.
LEMMA PutReadyKeeps ==
  ASSUME TypeOK, IInv, at = "persist", op.kind = "checkout",
         workspaceName[op.tree.manifest.name] \in {None, op.tree.manifest.id},
         workspace[op.tree.manifest.id] = None, PutReady(op.tree.manifest),
         readied' = readied \cup {op.tree}, deleted' = deleted \ {op.tree.manifest.id},
         UNCHANGED <<files, doubtful, unsettled, tries>>, op'.kind = "none", phase' = "serving",
         at' = "idle"
  PROVE  /\ CatalogInv' /\ ManifestsInv' /\ DirsInv' /\ ReadiedInv' /\ KeptInv'
         /\ ManifestFirst' /\ VisiblePinned' /\ StartupInv'
<1> USE DEF IInv
<1> DEFINE t == op.tree
           m == t.manifest
<1>1. /\ t \in Tree /\ m \in Manifest /\ m.id \in Id /\ m.name \in Name
      /\ t.try = tries /\ manifests[m.id] = m /\ dirs[m.name] = t /\ ddurable[m.name] = t
  BY ZenonT(60), OperationFields DEF CheckoutInv
<1>2. /\ m # None /\ m.id # None /\ m.generation # None
      /\ \A i \in Id : i # None
  BY ZenonT(60), <1>1, NoneAssumption DEF Id
<1>3. \A i \in Id : /\ workspace'[i] = IF i = m.id THEN m ELSE workspace[i]
                    /\ workspacePin'[i] = IF i = m.id THEN m.generation ELSE workspacePin[i]
  BY ZenonT(60), <1>1 DEF PutReady, TypeOK
<1>4. \A n \in Name : workspaceName'[n] = IF n = m.name THEN m.id ELSE workspaceName[n]
  BY ZenonT(60), <1>1 DEF PutReady, TypeOK
<1>5. \A i \in Id : workspace[i] # None => workspace[i].name \in Name
  BY ZenonT(60) DEF TypeOK, Name
<1>6. CatalogInv'
  <2> SUFFICES ASSUME NEW i \in Id
               PROVE  /\ workspacePin'[i] # None => workspace'[i] # None
                      /\ workspace'[i] # None =>
                           /\ workspace'[i].id = i
                           /\ workspaceName'[workspace'[i].name] = i
                           /\ workspacePin'[i] \in {None, workspace'[i].generation}
    BY ZenonT(60) DEF CatalogInv
  <2>1. CASE i = m.id
    BY ZenonT(60), <1>1, <1>2, <1>3, <1>4, <2>1
  <2>2. CASE i # m.id
    BY SMTT(60), <1>2, <1>3, <1>4, <1>5, <2>2 DEF CatalogInv
  <2> QED
    BY ZenonT(60), <2>1, <2>2
<1>7. ManifestsInv' /\ ManifestFirst'
  <2>1. ManifestsInv'
    BY ZenonT(60), <1>1, <1>2, <1>3 DEF ManifestsInv, files
  <2>2. ManifestFirst'
    BY ZenonT(60), <1>1, <1>2, <1>3 DEF ManifestsInv, ManifestFirst, files
  <2> QED
    BY ZenonT(60), <2>1, <2>2
<1>8. DirsInv'
  BY ZenonT(60) DEF DirsInv, files
<1>9. \A u \in readied : u.manifest.id # m.id /\ u.manifest.id \in Id
  <2> SUFFICES ASSUME NEW u \in readied PROVE u.manifest.id # m.id /\ u.manifest.id \in Id
    BY ZenonT(60)
  <2>1. u.manifest \in Manifest
    BY ZenonT(60) DEF TypeOK, Tree
  <2> QED
    BY ZenonT(60), <2>1, NoneAssumption DEF ReadiedInv, Id
<1>10. ReadiedInv'
  <2>1. tries \in Nat
    BY ZenonT(60), TriesNat
  <2> QED
    BY SMTT(60), <1>1, <1>3, <1>9, <2>1 DEF ReadiedInv
<1>11. KeptInv'
  BY SMTT(60), <1>1, <1>3 DEF KeptInv, Contested, files
<1>12. VisiblePinned'
  BY SMTT(60), <1>1, <1>3, <1>9 DEF VisiblePinned, files
<1>13. StartupInv'
  BY SMTT(20) DEF StartupInv
<1> QED
  BY ZenonT(60), <1>6, <1>7, <1>8, <1>10, <1>11, <1>12, <1>13

\* The catalog batch, its repetition, and its refusal.
LEMMA PersistReadyKeeps ==
  ASSUME TypeOK, IInv, PersistReady
  PROVE  IInv'
<1> USE DEF IInv
<1> DEFINE t == op.tree
           m == t.manifest
<1>1. /\ at = "persist" /\ op.kind = "checkout" /\ phase = "serving" /\ t \in Tree
      /\ m.id \in Id /\ m.name \in Name /\ dirs[m.name] = t /\ ddurable[m.name] = t /\ t.try = tries
      /\ UNCHANGED <<files, tries, doubtful, unsettled, phase>>
  BY OperationFields, ZenonT(60) DEF PersistReady, Control, CheckoutInv, Goto, Return
<1>2. CASE /\ workspaceName[m.name] \in {None, m.id} /\ workspace[m.id] = None
           /\ PutReady(m) /\ op' = Idle /\ at' = "idle"
           /\ readied' = readied \cup {t} /\ deleted' = deleted \ {m.id}
  BY <1>1, <1>2, Ended, PutReadyKeeps
<1>3. CASE /\ workspace[m.id] = m /\ workspacePin[m.id] = m.generation
           /\ op' = Idle /\ at' = "idle" /\ UNCHANGED catalog
           /\ readied' = readied \cup {t} /\ deleted' = deleted \ {m.id}
  <2>1. CatalogInv' /\ ManifestsInv' /\ ManifestFirst'
    BY <1>1, <1>3, Untouched, ZenonT(60) DEF files, catalog
  <2>2. DirsInv'
    BY <1>1, <1>3, ZenonT(60) DEF DirsInv, files
  <2>3. ReadiedInv'
    <3>1. tries \in Nat
      BY ZenonT(60), TriesNat
    <3> QED
      BY SMTT(60), <1>1, <1>3, <3>1, Ended DEF ReadiedInv, catalog
  <2>4. KeptInv'
    BY ZenonT(60), <1>1, <1>3 DEF KeptInv, Contested, files, catalog
  <2>5. VisiblePinned'
    BY ZenonT(60), <1>1, <1>3 DEF VisiblePinned, files, catalog
  <2>6. StartupInv'
    BY ZenonT(60), <1>1 DEF StartupInv
  <2> QED
    BY <1>3, <2>1, <2>2, <2>3, <2>4, <2>5, <2>6, Ended, Zenon
<1>4. CASE op' = op /\ at' = "withdraw" /\ UNCHANGED <<catalog, readied, deleted>>
  <2>1. Control' /\ CheckoutInv' /\ WithdrawalInv' /\ StartupInv'
    BY ZenonT(60), <1>1, <1>4 DEF Control, CheckoutInv, WithdrawalInv, StartupInv, files
  <2>2. CatalogInv' /\ ManifestsInv' /\ KeptInv' /\ ManifestFirst' /\ VisiblePinned'
    BY <1>1, <1>4, Untouched, ZenonT(60) DEF files, catalog
  <2>3. DirsInv'
    BY ZenonT(60), <1>1, <1>4 DEF DirsInv, files
  <2>4. ReadiedInv'
    BY <1>1, <1>4, NoneReadied DEF catalog
  <2> QED
    BY ZenonT(60), <2>1, <2>2, <2>3, <2>4
<1> QED
  BY <1>2, <1>3, <1>4, ZenonT(60) DEF PersistReady, Goto, Return

-----------------------------------------------------------------------------
(* Withdrawal and deletion *)

\* A name is withdrawn by the checkout that did not become Ready, by the deletion of
\* its workspace, or at startup for want of a pin.
LEMMA WithdrawKeeps ==
  ASSUME TypeOK, IInv, Withdraw
  PROVE  IInv'
<1> USE DEF IInv
<1>1. /\ at = "withdraw" /\ op.kind \in {"checkout", "delete", "startup"} /\ Withdrawn \in Name
      /\ UNCHANGED <<manifests, mdurable, ddurable, catalog, tries, ghosts, phase, todo>>
  BY OperationFields, ZenonT(60) DEF Withdraw, Control, Goto, Return
<1>2. /\ CatalogInv' /\ ManifestsInv' /\ ManifestFirst'
  BY <1>1, Untouched DEF catalog, ghosts
<1>3. \A i \in Id : LoadReady(i)' = LoadReady(i)
  BY ZenonT(60), <1>1 DEF LoadReady, catalog
<1>4. CASE dirs[Withdrawn] = None
  <2>1. /\ UNCHANGED dirs
        /\ \/ op.kind = "delete" /\ op' = op /\ at' = "unpin"
           \/ op' = Idle /\ at' = "idle"
    BY <1>4 DEF Withdraw, Goto, Return
  <2>2. Control' /\ CheckoutInv' /\ (op' = op \/ op'.kind = "none")
    BY <1>1, <2>1, Ended, Zenon DEF Control, CheckoutInv
  <2>3. WithdrawalInv'
    BY <1>1, <1>4, <2>1, Ended, ZenonT(60) DEF WithdrawalInv, Withdrawn, catalog, ghosts
  <2>4. KeptInv' /\ VisiblePinned'
    BY <1>1, <2>1, Untouched DEF catalog, ghosts
  <2>5. DirsInv'
    BY <1>1, <2>1, ZenonT(60) DEF DirsInv, ghosts
  <2>6. ReadiedInv'
    BY ZenonT(60), <1>1, <2>2, NoneReadied DEF catalog, ghosts
  <2>7. StartupInv'
    BY <1>1, <1>3, <1>4, <2>1 DEF StartupInv, Withdrawn
  <2> QED
    BY <1>2, <2>2, <2>3, <2>4, <2>5, <2>6, <2>7
<1>5. CASE dirs[Withdrawn] # None
  <2>1. /\ dirs' = [dirs EXCEPT ![Withdrawn] = None]
        /\ op' = op /\ at' = "sync withdrawal"
    BY <1>5, Zenon DEF Withdraw, Goto
  <2>2. \A n \in Name : dirs'[n] = IF n = Withdrawn THEN None ELSE dirs[n]
    BY <1>1, <2>1, Zenon DEF TypeOK
  <2>3. Withdrawn' = Withdrawn
    BY <2>1, Zenon DEF Withdrawn
  <2>4. Control' /\ CheckoutInv'
    BY <1>1, <2>1, Zenon DEF Control, CheckoutInv
  <2>5. WithdrawalInv'
    BY <1>1, <2>1, <2>2, <2>3, ZenonT(60) DEF WithdrawalInv, catalog, ghosts
  <2>6. DirsInv'
    <3> SUFFICES ASSUME NEW n \in Name
                 PROVE  /\ dirs'[n] \in Tree => dirs'[n].manifest.name = n
                        /\ ddurable[n] \in Tree => ddurable[n].manifest.name = n
                        /\ n \notin unsettled /\ dirs'[n] = None /\ ddurable[n] # None => Withdrawn = n
      BY ZenonT(60), <1>1, <2>1, <2>3 DEF DirsInv, ghosts
    <3>1. CASE n = Withdrawn
      BY ZenonT(60), <2>2, <3>1, NoneAssumption DEF DirsInv
    <3>2. CASE n # Withdrawn
      BY ZenonT(60), <1>1, <2>2, <3>2 DEF DirsInv
    <3> QED
      BY ZenonT(60), <3>1, <3>2
  <2>7. ReadiedInv'
    BY <1>1, <2>1, NoneReadied, ZenonT(60) DEF catalog, ghosts
  <2>8. VisiblePinned'
    <3>1. None \notin readied
      BY NoneAssumption, ZenonT(60) DEF TypeOK
    <3> QED
      BY ZenonT(60), <1>1, <2>2, <3>1 DEF VisiblePinned, catalog, ghosts
  <2>9. KeptInv'
    <3> SUFFICES ASSUME NEW i \in Id, workspacePin[i] # None, i \notin deleted, ~Contested(i)
                 PROVE  /\ dirs'[workspace[i].name] \in readied
                        /\ ddurable[workspace[i].name] = dirs'[workspace[i].name]
      BY ZenonT(60), <1>1 DEF KeptInv, Contested, catalog, ghosts
    <3>1. workspace[i] # None /\ workspace[i].id = i
      BY DEF CatalogInv
    <3>2. workspace[i].name \in Name
      BY <3>1, Zenon DEF TypeOK, Name
    <3>3. workspace[i].name # Withdrawn
      <4> SUFFICES ASSUME workspace[i].name = Withdrawn PROVE FALSE
        OBVIOUS
      <4>1. CASE op.kind = "checkout"
        <5>1. op.tree \in readied
          BY <1>1, <4>1 DEF CheckoutInv, KeptInv, Withdrawn
        <5>2. op.tree.try = tries /\ op.tree.try < tries
          BY <4>1, <5>1, ZenonT(60) DEF CheckoutInv, ReadiedInv
        <5> QED
          BY SMTT(60), <5>2, TriesNat
      <4>2. CASE op.kind \in {"delete", "startup"}
        <5>1. op.manifest \in Manifest /\ op.manifest.name = workspace[i].name
          BY ZenonT(60), <4>2, OperationFields DEF Withdrawn
        <5>2. op.manifest.id = i
          BY <3>1, <5>1 DEF Contested
        <5> QED
          BY <4>2, <5>2, ZenonT(60) DEF WithdrawalInv
      <4> QED
        BY <1>1, <4>1, <4>2
    <3> QED
      BY ZenonT(60), <2>2, <3>2, <3>3 DEF KeptInv
  <2>10. StartupInv'
    <3> SUFFICES ASSUME phase = "starting", NEW i \in Id
                 PROVE  /\ i \in todo => manifests[i] # None
                        /\ i \notin todo /\ manifests[i] # None =>
                             LoadReady(i) = "ready" \/ dirs'[manifests[i].name] = None
      BY <1>1, <1>3 DEF StartupInv
    <3>1. manifests[i] # None => manifests[i].name \in Name
      BY Zenon DEF TypeOK, Name
    <3> QED
      BY ZenonT(60), <2>2, <3>1 DEF StartupInv, Withdrawn
  <2> QED
    BY <1>2, <2>4, <2>5, <2>6, <2>7, <2>8, <2>9, <2>10
<1> QED
  BY <1>4, <1>5

\* A withdrawal is synchronized, or fails to be and leaves its name unsettled.
LEMMA SyncWithdrawalKeeps ==
  ASSUME TypeOK, IInv, SyncWithdrawal
  PROVE  IInv'
<1> USE DEF IInv
<1>1. /\ at = "sync withdrawal" /\ op.kind \in {"checkout", "delete", "startup"}
      /\ UNCHANGED <<manifests, mdurable, dirs, catalog, tries, readied, doubtful, deleted, todo>>
  BY OperationFields, Zenon DEF SyncWithdrawal, Control, Goto, Return, Abort
<1>2. \/ /\ ddurable' = dirs /\ unsettled' = Resurrected /\ UNCHANGED phase
         /\ \/ op.kind = "delete" /\ op' = op /\ at' = "unpin"
            \/ op' = Idle /\ at' = "idle"
      \/ /\ ddurable' \in {ddurable, dirs} /\ unsettled' = unsettled \cup {Withdrawn}
         /\ op' = Idle /\ at' = "idle" /\ phase' \in {phase, "refused"}
  BY Zenon DEF SyncWithdrawal, Goto, Return, Abort
<1>3. Control' /\ CheckoutInv' /\ (op' = op \/ op'.kind = "none")
  BY <1>1, <1>2, Ended, Zenon DEF Control, CheckoutInv
<1>4. WithdrawalInv'
  BY <1>1, <1>2, Ended, Zenon DEF WithdrawalInv, Withdrawn, catalog
<1>5. CatalogInv' /\ ManifestsInv' /\ ManifestFirst'
  BY <1>1, Untouched, Zenon DEF catalog
<1>6. ReadiedInv'
  BY <1>1, <1>3, NoneReadied, Zenon DEF catalog
<1>7. StartupInv'
  <2>1. \A i \in Id : LoadReady(i)' = LoadReady(i)
    BY <1>1, Zenon DEF LoadReady, catalog
  <2> QED
    BY <1>1, <1>2, <2>1, Zenon DEF StartupInv
<1>8. KeptInv'
  BY <1>1, <1>2, ZenonT(60) DEF KeptInv, Contested, catalog
<1>9. DirsInv'
  BY <1>1, <1>2, ZenonT(60) DEF DirsInv
<1>10. VisiblePinned'
  <2> SUFFICES ASSUME NEW n \in Name \ unsettled', NEW u \in {dirs[n], ddurable'[n]} \cap readied
               PROVE  workspacePin[u.manifest.id] = u.manifest.generation
    BY <1>1, Zenon DEF VisiblePinned, catalog
  <2>1. u # None
    BY NoneAssumption, ZenonT(60) DEF TypeOK
  <2> QED
    BY <1>2, <2>1 DEF VisiblePinned, Resurrected
<1> QED
  BY <1>3, <1>4, <1>5, <1>6, <1>7, <1>8, <1>9, <1>10

\* Deletion begins on a Ready workspace only.
LEMMA DeleteKeeps ==
  ASSUME NEW i \in Id, TypeOK, IInv, Delete(i)
  PROVE  IInv'
<1> USE DEF IInv
<1>1. /\ op.kind = "none" /\ at = "idle" /\ phase' = "serving" /\ at' = "withdraw"
      /\ op'.kind = "delete" /\ op'.manifest = manifests[i] /\ deleted' = deleted \cup {i}
      /\ UNCHANGED <<files, catalog, tries, readied, doubtful, unsettled>>
  BY ZenonT(60) DEF Delete, Idle, Control
<1>2. manifests[i] # None /\ workspace[i] = manifests[i] /\ manifests[i].id = i
  BY ZenonT(60) DEF Delete, LoadReady, ManifestsInv
<1>3. Control' /\ CheckoutInv' /\ StartupInv'
  BY ZenonT(60), <1>1 DEF Control, CheckoutInv, StartupInv
<1>4. WithdrawalInv'
  BY <1>1, <1>2, SMTT(20) DEF WithdrawalInv, files, catalog
<1>5. CatalogInv' /\ ManifestsInv' /\ ManifestFirst' /\ VisiblePinned'
  BY <1>1, Untouched, Zenon DEF files, catalog
<1>6. KeptInv'
  BY <1>1, ZenonT(60) DEF KeptInv, Contested, files, catalog
<1>7. DirsInv'
  BY <1>1, ZenonT(60) DEF DirsInv, files
<1>8. ReadiedInv'
  BY ZenonT(60), <1>1, NoneReadied DEF catalog
<1> QED
  BY ZenonT(60), <1>3, <1>4, <1>5, <1>6, <1>7, <1>8

\* The pin is released when no directory of the workspace is left, on disk either.
LEMMA UnpinKeeps ==
  ASSUME TypeOK, IInv, Unpin
  PROVE  IInv'
<1> USE DEF IInv
<1> DEFINE m == op.manifest
<1>1. /\ at = "unpin" /\ op.kind = "delete" /\ phase = "serving" /\ m.id \in Id
      /\ workspace[m.id] = m /\ dirs[m.name] = None /\ manifests[m.id] = m /\ m.name \in Name
      /\ UNCHANGED <<files, workspace, workspaceName, tries, ghosts, phase>>
  BY OperationFields DEF Unpin, Control, WithdrawalInv, Goto, Return
<1>2. ReadiedInv' /\ StartupInv' /\ DirsInv'
  <2>1. (op' = op \/ op'.kind = "none") /\ (at' # "sync withdrawal")
    BY Ended, ZenonT(60) DEF Unpin, Goto, Return
  <2>2. ReadiedInv'
    BY <1>1, <2>1, NoneReadied, ZenonT(60) DEF ghosts
  <2>3. StartupInv'
    BY <1>1 DEF StartupInv
  <2>4. DirsInv'
    BY <1>1, <2>1, Zenon DEF DirsInv, files, ghosts
  <2> QED
    BY <2>2, <2>3, <2>4
<1>3. CASE op' = Idle /\ at' = "idle" /\ UNCHANGED workspacePin
  <2>1. CatalogInv' /\ ManifestsInv' /\ KeptInv' /\ ManifestFirst' /\ VisiblePinned'
    BY ZenonT(60), <1>1, <1>3, Untouched DEF files, catalog, ghosts
  <2> QED
    BY ZenonT(60), <1>2, <1>3, <2>1, Ended
<1>4. CASE op' = op /\ at' = "unlink" /\ workspacePin' = [workspacePin EXCEPT ![m.id] = None]
  <2>1. \A i \in Id : workspacePin'[i] = IF i = m.id THEN None ELSE workspacePin[i]
    BY ZenonT(60), <1>1, <1>4 DEF TypeOK
  <2>2. Control' /\ CheckoutInv'
    BY ZenonT(60), <1>1, <1>4 DEF Control, CheckoutInv
  <2>3. WithdrawalInv'
    BY <1>1, <1>4, <2>1, SMTT(20) DEF WithdrawalInv, files, ghosts
  <2>4. CatalogInv'
    BY <1>1, <2>1, ZenonT(60) DEF CatalogInv
  <2>5. ManifestsInv'
    BY <1>1, <2>1, ZenonT(60) DEF ManifestsInv, files, ghosts
  <2>6. ManifestFirst'
    BY ZenonT(60), <1>1, <2>1 DEF ManifestFirst, files, ghosts
  <2>7. KeptInv'
    BY ZenonT(60), <1>1, <2>1 DEF KeptInv, Contested, files, ghosts
  <2>8. VisiblePinned'
    <3> SUFFICES ASSUME NEW n \in Name \ unsettled, NEW u \in {dirs[n], ddurable[n]} \cap readied
                 PROVE  workspacePin'[u.manifest.id] = u.manifest.generation
      BY ZenonT(60), <1>1 DEF VisiblePinned, files, ghosts
    <3>1. u \in Tree /\ u.manifest.id \in Id /\ u # None
      BY NoneAssumption, ZenonT(60) DEF TypeOK, Tree, Id
    <3>2. u.manifest.name = n /\ workspace[u.manifest.id] = u.manifest
      BY <3>1, ZenonT(60) DEF DirsInv, ReadiedInv
    <3>3. u.manifest.id # m.id
      <4> SUFFICES ASSUME u.manifest.id = m.id PROVE FALSE
        BY ZenonT(60)
      <4>1. n = m.name
        BY ZenonT(60), <1>1, <3>2
      <4> QED
        BY ZenonT(60), <1>1, <3>1, <4>1 DEF DirsInv
    <3> QED
      BY ZenonT(60), <2>1, <3>1, <3>3 DEF VisiblePinned
  <2> QED
    BY ZenonT(60), <1>2, <2>2, <2>3, <2>4, <2>5, <2>6, <2>7, <2>8
<1> QED
  BY ZenonT(60), <1>3, <1>4 DEF Unpin, Goto, Return

\* The manifest file is removed when the pin is.
LEMMA UnlinkKeeps ==
  ASSUME TypeOK, IInv, Unlink
  PROVE  IInv'
<1> USE DEF IInv
<1> DEFINE m == op.manifest
<1>1. /\ at = "unlink" /\ op.kind = "delete" /\ phase = "serving" /\ m.id \in Id
      /\ workspace[m.id] = m /\ manifests[m.id] = m /\ workspacePin[m.id] = None
      /\ UNCHANGED <<mdurable, dirs, ddurable, catalog, tries, ghosts, phase>>
  BY OperationFields, Zenon DEF Unlink, Control, WithdrawalInv, Goto, Return
<1>2. \/ op' = op /\ at' = "sync removal" /\ manifests' = [manifests EXCEPT ![m.id] = None]
      \/ op' = Idle /\ at' = "idle" /\ UNCHANGED manifests
  BY Zenon DEF Unlink, Goto, Return
<1>3. Control' /\ CheckoutInv' /\ (op' = op \/ op'.kind = "none")
  BY <1>1, <1>2, Ended, ZenonT(60) DEF Control, CheckoutInv
<1>4. WithdrawalInv'
  BY <1>1, <1>2, Ended, ZenonT(60) DEF WithdrawalInv, catalog, ghosts
<1>5. CatalogInv' /\ KeptInv' /\ VisiblePinned'
  BY ZenonT(60), <1>1, Untouched DEF catalog, ghosts
<1>6. ReadiedInv'
  BY ZenonT(60), <1>1, <1>3, NoneReadied DEF catalog, ghosts
<1>7. StartupInv'
  BY <1>1 DEF StartupInv
<1>8. DirsInv'
  BY <1>1, <1>2, Zenon DEF DirsInv, ghosts
<1>9. ManifestsInv' /\ ManifestFirst'
  <2>1. CASE UNCHANGED manifests
    BY <1>1, <2>1, Untouched, Zenon DEF catalog, ghosts
  <2>2. CASE manifests' = [manifests EXCEPT ![m.id] = None]
    <3>1. \A i \in Id : manifests'[i] = IF i = m.id THEN None ELSE manifests[i]
      BY ZenonT(60), <1>1, <2>2 DEF TypeOK
    <3>2. ManifestsInv'
      BY <1>1, <3>1 DEF ManifestsInv, catalog, ghosts
    <3>3. ManifestFirst'
      BY <1>1, <3>1, Zenon DEF ManifestFirst, catalog, ghosts
    <3> QED
      BY ZenonT(60), <3>2, <3>3
  <2> QED
    BY <1>2, <2>1, <2>2, Zenon
<1> QED
  BY <1>3, <1>4, <1>5, <1>6, <1>7, <1>8, <1>9, SMTT(20)

\* The removal of the manifest file is synchronized, or is left as it is.
LEMMA SyncRemovalKeeps ==
  ASSUME TypeOK, IInv, SyncRemoval
  PROVE  IInv'
<1> USE DEF IInv
<1>1. /\ at = "sync removal" /\ op.kind = "delete" /\ phase = "serving" /\ op' = Idle /\ at' = "idle"
      /\ UNCHANGED <<manifests, dirs, ddurable, catalog, tries, readied, unsettled, deleted, phase>>
      /\ \/ mdurable' = manifests /\ doubtful' = Lost
         \/ UNCHANGED <<mdurable, doubtful>>
  BY Zenon DEF SyncRemoval, Control, Return
<1>2. ManifestsInv' /\ ManifestFirst'
  BY <1>1, ManifestsSynced, Untouched, Zenon DEF catalog
<1>3. CatalogInv' /\ KeptInv' /\ VisiblePinned'
  BY <1>1, Untouched, Zenon DEF catalog
<1>4. DirsInv'
  BY <1>1, Zenon DEF DirsInv
<1>5. ReadiedInv'
  BY <1>1, Ended, NoneReadied, Zenon DEF catalog
<1>6. StartupInv'
  BY <1>1, Zenon DEF StartupInv
<1> QED
  BY <1>1, <1>2, <1>3, <1>4, <1>5, <1>6, Ended, Zenon

-----------------------------------------------------------------------------
(* Startup and crashes *)

\* Startup withdraws what has no pin, and keeps what is Ready.
LEMMA ReconcileKeeps ==
  ASSUME NEW i \in Id, TypeOK, IInv, Reconcile(i)
  PROVE  IInv'
<1> USE DEF IInv
<1>1. /\ op.kind = "none" /\ at = "idle" /\ phase = "starting" /\ i \in todo
      /\ UNCHANGED <<files, catalog, tries, ghosts>>
  BY DEF Reconcile, Idle, Control
<1>2. CatalogInv' /\ ManifestsInv' /\ KeptInv' /\ ManifestFirst' /\ VisiblePinned'
  BY ZenonT(60), <1>1, Untouched DEF files, catalog, ghosts
<1>3. manifests[i] # None /\ manifests[i].id = i
  BY ZenonT(60), <1>1 DEF StartupInv, ManifestsInv
<1>4. \A j \in Id : LoadReady(j)' = LoadReady(j)
  BY ZenonT(60), <1>1 DEF LoadReady, files, catalog
<1>5. CASE /\ LoadReady(i) = "absent" /\ op' = [kind |-> "startup", manifest |-> manifests[i]]
           /\ at' = "withdraw" /\ todo' = todo \ {i} /\ UNCHANGED phase
  <2>1. op'.kind = "startup" /\ op'.manifest = manifests[i]
    BY ZenonT(60), <1>5
  <2>2. workspacePin[i] = None
    BY ZenonT(60), <1>5 DEF LoadReady, CatalogInv
  <2>3. Control' /\ CheckoutInv'
    BY ZenonT(60), <1>1, <1>5, <2>1 DEF Control, CheckoutInv
  <2>4. WithdrawalInv'
    BY <1>1, <1>3, <1>5, <2>1, <2>2, SMTT(60) DEF WithdrawalInv, files, catalog
  <2>5. DirsInv'
    BY <1>1, <1>5, ZenonT(60) DEF DirsInv, files, ghosts
  <2>6. ReadiedInv'
    BY ZenonT(60), <1>1, <2>1, NoneReadied DEF catalog, ghosts
  <2>7. StartupInv'
    BY ZenonT(60), <1>1, <1>4, <1>5, <2>1 DEF StartupInv, files
  <2> QED
    BY <1>2, <2>3, <2>4, <2>5, <2>6, <2>7
<1>6. CASE /\ UNCHANGED <<op, at>>
           /\ \/ LoadReady(i) = "ready" /\ todo' = todo \ {i} /\ UNCHANGED phase
              \/ phase' = "refused"
  <2>1. Control' /\ CheckoutInv' /\ WithdrawalInv'
    BY ZenonT(60), <1>1, <1>6 DEF Control, CheckoutInv, WithdrawalInv
  <2>2. DirsInv'
    BY SMTT(60), <1>1, <1>6 DEF DirsInv, files, ghosts
  <2>3. ReadiedInv'
    BY ZenonT(60), <1>1, <1>6, NoneReadied DEF catalog, ghosts
  <2>4. StartupInv'
    BY SMTT(60), <1>1, <1>4, <1>6 DEF StartupInv, files
  <2> QED
    BY ZenonT(60), <1>2, <2>1, <2>2, <2>3, <2>4
<1> QED
  BY ZenonT(60), <1>5, <1>6 DEF Reconcile

\* Startup ends, and nothing else changes.
LEMMA ServeKeeps ==
  ASSUME TypeOK, IInv, Serve
  PROVE  IInv'
<1> USE DEF IInv
<1>1. /\ op.kind = "none" /\ at = "idle" /\ phase' = "serving"
      /\ UNCHANGED <<files, catalog, op, at, tries, ghosts>>
  BY SMTT(60) DEF Serve, Idle, Control
<1>2. CatalogInv' /\ ManifestsInv' /\ KeptInv' /\ ManifestFirst' /\ VisiblePinned'
  BY ZenonT(60), <1>1, Untouched DEF files, catalog, ghosts
<1>3. Control' /\ CheckoutInv' /\ WithdrawalInv' /\ StartupInv'
  BY <1>1 DEF Control, CheckoutInv, WithdrawalInv, StartupInv
<1>4. DirsInv'
  BY <1>1, ZenonT(60) DEF DirsInv, files, ghosts
<1>5. ReadiedInv'
  BY <1>1, NoneReadied DEF catalog, ghosts
<1> QED
  BY ZenonT(60), <1>2, <1>3, <1>4, <1>5

\* What every crash does: the operation is gone and startup examines every manifest.
LEMMA RestartKeeps ==
  ASSUME TypeOK, IInv, Restart
  PROVE  Control' /\ CheckoutInv' /\ WithdrawalInv' /\ CatalogInv' /\ ReadiedInv' /\ StartupInv'
<1>1. /\ op' = Idle /\ at' = "idle" /\ todo' = {i \in Id : manifests'[i] # None}
      /\ UNCHANGED <<catalog, tries, readied, deleted>>
  BY DEF Restart
<1>2. CatalogInv'
  BY ZenonT(60), <1>1, Untouched
<1>3. ReadiedInv'
  BY SMTT(60), <1>1, Ended, NoneReadied DEF catalog
<1>4. StartupInv'
  BY <1>1 DEF StartupInv
<1> QED
  BY ZenonT(60), <1>1, <1>2, <1>3, <1>4, Ended

\* A kill leaves the name that was being withdrawn unsettled.
LEMMA KillKeeps ==
  ASSUME TypeOK, IInv, Kill
  PROVE  IInv'
<1> USE DEF IInv
<1>1. /\ UNCHANGED <<files, doubtful, catalog, readied, deleted>> /\ at' = "idle"
      /\ unsettled' = unsettled \cup (IF at = "sync withdrawal" THEN {Withdrawn} ELSE {})
  BY Zenon DEF Kill, Restart
<1>2. Control' /\ CheckoutInv' /\ WithdrawalInv' /\ CatalogInv' /\ ReadiedInv' /\ StartupInv'
  BY RestartKeeps, Zenon DEF Kill
<1>3. ManifestsInv' /\ ManifestFirst' /\ KeptInv'
  BY <1>1, Untouched, Zenon DEF files, catalog
<1>4. DirsInv'
  BY <1>1, Zenon DEF DirsInv, files
<1>5. VisiblePinned'
  BY <1>1, ZenonT(60) DEF VisiblePinned, files, catalog
<1> QED
  BY <1>2, <1>3, <1>4, <1>5

\* A power loss chooses between what was seen and what was on disk.
LEMMA PowerLossKeeps ==
  ASSUME TypeOK, IInv, PowerLoss
  PROVE  IInv'
<1> USE DEF IInv
<1>1. /\ \A i \in Id : manifests'[i] \in {manifests[i], mdurable[i]}
      /\ \A n \in Name : dirs'[n] \in {dirs[n], ddurable[n]}
      /\ mdurable' = manifests' /\ ddurable' = dirs'
      /\ UNCHANGED <<catalog, readied, deleted, doubtful, unsettled>>
  BY ZenonT(60) DEF PowerLoss, Restart
<1>2. Control' /\ CheckoutInv' /\ WithdrawalInv' /\ CatalogInv' /\ ReadiedInv' /\ StartupInv'
  BY ZenonT(60), RestartKeeps DEF PowerLoss
<1>3. ManifestsInv'
  BY ZenonT(60), <1>1 DEF ManifestsInv
<1>4. ManifestFirst'
  BY <1>1, ZenonT(60) DEF ManifestFirst, catalog
<1>5. DirsInv'
  BY <1>1, ZenonT(60) DEF DirsInv
<1>6. VisiblePinned'
  <2> SUFFICES ASSUME NEW n \in Name \ unsettled', NEW t \in {dirs'[n], ddurable'[n]} \cap readied'
               PROVE  workspacePin'[t.manifest.id] = t.manifest.generation
    BY ZenonT(60) DEF VisiblePinned
  <2>1. n \in Name \ unsettled /\ t \in {dirs[n], ddurable[n]} \cap readied
    BY ZenonT(60), <1>1
  <2> QED
    BY ZenonT(60), <1>1, <2>1 DEF VisiblePinned, catalog
<1>7. KeptInv'
  <2> SUFFICES ASSUME NEW i \in Id, workspacePin[i] # None, i \notin deleted, ~Contested(i)
               PROVE  dirs'[workspace[i].name] \in readied
    BY <1>1, SMTT(20) DEF KeptInv, Contested, catalog
  <2>1. workspace[i] # None
    BY DEF CatalogInv
  <2>2. workspace[i].name \in Name
    BY <2>1, Zenon DEF TypeOK, Name
  <2> QED
    BY ZenonT(60), <1>1, <2>2 DEF KeptInv
<1> QED
  BY ZenonT(60), <1>2, <1>3, <1>4, <1>5, <1>6, <1>7

-----------------------------------------------------------------------------
(* The theorems *)

\* The types and the inductive invariant hold in every reachable state.
THEOREM Inductive == Spec => [](TypeOK /\ IInv)
<1>1. Init => TypeOK /\ IInv
  <2> SUFFICES ASSUME Init PROVE TypeOK /\ IInv
    BY ZenonT(60)
  <2>1. TypeOK
    BY SMTT(60), BoundAssumption DEF Init, TypeOK, Operation
  <2>2. /\ op.kind = "none" /\ at = "idle" /\ phase = "serving" /\ readied = {}
        /\ \A i \in Id : workspace[i] = None /\ workspacePin[i] = None
        /\ \A i \in Id : manifests[i] = None /\ mdurable[i] = None
        /\ \A n \in Name : dirs[n] \in {None, Foreign} /\ ddurable[n] = dirs[n]
    BY ZenonT(60) DEF Init, Idle
  <2>3. Foreign \notin Tree /\ None \notin Tree
    BY ZenonT(60), NoneAssumption DEF Foreign, Tree
  <2>4. Control /\ CatalogInv /\ ManifestsInv /\ CheckoutInv /\ WithdrawalInv
    BY ZenonT(60), <2>2 DEF Control, CatalogInv, ManifestsInv, CheckoutInv, WithdrawalInv
  <2>5. DirsInv
    BY ZenonT(60), <2>2, <2>3 DEF DirsInv
  <2>6. ReadiedInv /\ KeptInv /\ StartupInv /\ ManifestFirst /\ VisiblePinned
    BY <2>2 DEF ReadiedInv, KeptInv, StartupInv, ManifestFirst, VisiblePinned
  <2> QED
    BY ZenonT(60), <2>1, <2>4, <2>5, <2>6 DEF IInv
<1>2. TypeOK /\ IInv /\ [Next]_vars => TypeOK' /\ IInv'
  <2> SUFFICES ASSUME TypeOK, IInv, [Next]_vars PROVE TypeOK' /\ IInv'
    BY ZenonT(60)
  <2>1. TypeOK'
    BY ZenonT(60), TypeStep DEF IInv
  <2>2. CASE Next
    BY ZenonT(60), <2>1, <2>2, CheckoutKeeps, DeleteKeeps, ReconcileKeeps, MaterializeKeeps,
         EnsureManifestKeeps,
       SyncManifestKeeps, PublishKeeps, SyncWorkspacesKeeps, PersistReadyKeeps, WithdrawKeeps,
       SyncWithdrawalKeeps, UnpinKeeps, UnlinkKeeps, SyncRemovalKeeps, ServeKeeps, KillKeeps,
       PowerLossKeeps DEF Next, Step
  <2>3. CASE UNCHANGED vars
    <3>1. CatalogInv' /\ ManifestsInv' /\ KeptInv' /\ ManifestFirst' /\ VisiblePinned'
      BY <2>3, Untouched, SMTT(60) DEF vars, files, catalog, ghosts
    <3>2. Control' /\ CheckoutInv' /\ DirsInv' /\ ReadiedInv'
      BY <2>3, Zenon DEF IInv, vars, files, catalog, ghosts, Control,
         CheckoutInv, DirsInv, ReadiedInv, Withdrawn
    <3>3. WithdrawalInv' /\ StartupInv'
      BY <2>3, ZenonT(60) DEF IInv, vars, files, catalog, ghosts, WithdrawalInv, StartupInv,
           LoadReady, Withdrawn
    <3> QED
      BY ZenonT(60), <2>1, <3>1, <3>2, <3>3 DEF IInv
  <2> QED
    BY <2>2, <2>3
<1> QED
  BY <1>1, <1>2, PTL DEF Spec

\* The pin outlives every published directory, whatever crashes and failed steps
\* interrupt checkouts and deletions.
THEOREM PinOutlivesDirectory == Spec => []VisiblePinned
<1>1. IInv => VisiblePinned
  BY DEF IInv
<1> QED
  BY <1>1, Inductive, PTL

\* A Ready workspace that nobody deletes or contests keeps its directory.
THEOREM ReadyKeepsDirectory == Spec => []ReadyVisible
<1>1. IInv => ReadyVisible
  BY Zenon DEF IInv, KeptInv, ReadyVisible, LoadReady
<1> QED
  BY <1>1, Inductive, PTL

\* The manifest of a pinned workspace is on disk, unless its synchronization was cut off.
THEOREM ManifestOnDisk == Spec => []ManifestFirst
<1>1. IInv => ManifestFirst
  BY DEF IInv
<1> QED
  BY <1>1, Inductive, PTL

\* Startup examines the manifests in the order of their IDs, and a Ready workspace it
\* has examined has its directory unless a later one took the name.
Examined == phase = "starting" => \A i \in Id : i \notin todo /\ manifests[i] # None =>
  /\ \A j \in todo : i < j
  /\ op.kind = "startup" => i <= op.manifest.id
  /\ LoadReady(i) = "ready" => dirs[manifests[i].name] # None \/ WithdrawnAfter(i)

\* A step that leaves files and catalog alone.
LEMMA SameReading ==
  ASSUME UNCHANGED <<manifests, catalog>>
  PROVE  \A i \in Id : LoadReady(i)' = LoadReady(i) /\ WithdrawnAfter(i)' = WithdrawnAfter(i)
BY Zenon DEF LoadReady, WithdrawnAfter, catalog

\* Startup takes the next manifest.
LEMMA ReconcileExamines ==
  ASSUME NEW k \in Id, TypeOK, IInv, Examined, Reconcile(k)
  PROVE  Examined'
<1> SUFFICES ASSUME phase' = "starting", NEW i \in Id, i \notin todo', manifests[i] # None
             PROVE  /\ \A j \in todo' : i < j
                    /\ op'.kind = "startup" => i <= op'.manifest.id
                    /\ LoadReady(i) = "ready" => dirs[manifests[i].name] # None \/ WithdrawnAfter(i)
  BY Zenon, SameReading DEF Examined, Reconcile, files, catalog
<1>1. /\ phase = "starting" /\ op.kind = "none" /\ k \in todo /\ todo' = todo \ {k}
      /\ \A j \in todo : k <= j
      /\ \/ op' = op /\ LoadReady(k) = "ready" /\ dirs[manifests[k].name] # None
         \/ /\ op' = [kind |-> "startup", manifest |-> manifests[k]]
            /\ LoadReady(k) = "absent"
  BY Zenon DEF Reconcile, Idle
<1>2. op'.kind = "startup" => op'.manifest = manifests[k] /\ manifests[k].id = k
  <2>1. manifests[k].id = k
    BY Zenon, <1>1 DEF IInv, StartupInv, ManifestsInv
  <2>2. op'.kind = "startup" => op'.manifest = manifests[k]
    BY ONLY <1>1
  <2> QED BY <2>1, <2>2
<1>3. k \in Nat /\ i \in Nat /\ todo \subseteq Nat
  BY Zenon, IdAssumption DEF TypeOK
<1>4. CASE i = k
  <2>1. \A j \in todo' : i < j
    BY ONLY SMTT(30), <1>1, <1>3, <1>4
  <2>2. i <= k
    BY ONLY SMTT(30), <1>3, <1>4
  <2> QED BY Zenon, <1>1, <1>2, <1>4, <2>1, <2>2
<1>5. CASE i # k
  <2>1. i \notin todo
    BY Zenon, <1>1, <1>5
  <2>2. /\ \A j \in todo : i < j
        /\ LoadReady(i) = "ready" => dirs[manifests[i].name] # None \/ WithdrawnAfter(i)
    BY Zenon, <1>1, <2>1 DEF Examined
  <2>3. i <= k
    BY ONLY SMTT(30), <1>1, <1>3, <2>2
  <2> QED BY Zenon, <1>1, <1>2, <2>2, <2>3
<1> QED BY <1>4, <1>5

\* A withdrawal at startup takes the directory of Ready workspaces examined before.
LEMMA WithdrawExamines ==
  ASSUME TypeOK, IInv, Examined, Withdraw
  PROVE  Examined'
<1> SUFFICES ASSUME phase = "starting", NEW i \in Id, i \notin todo, manifests[i] # None
             PROVE  /\ \A j \in todo : i < j
                    /\ op'.kind = "startup" => i <= op'.manifest.id
                    /\ LoadReady(i) = "ready" => dirs'[manifests[i].name] # None \/ WithdrawnAfter(i)
  BY ZenonT(60), SameReading DEF Examined, Withdraw, catalog, Goto, Return
<1>1. /\ \A j \in todo : i < j
      /\ op.kind = "startup" => i <= op.manifest.id
      /\ LoadReady(i) = "ready" => dirs[manifests[i].name] # None \/ WithdrawnAfter(i)
  BY Zenon DEF Examined
<1>2. op.kind = "startup" /\ (op' = op \/ op' = Idle)
  BY ZenonT(60), OperationFields DEF IInv, Control, Withdraw, Goto, Return
<1>3. op'.kind = "startup" => op' = op
  BY <1>2 DEF Idle
<1>4. manifests[i].name \in Name /\ Withdrawn \in Name /\ Withdrawn = op.manifest.name
  BY ZenonT(60), <1>2, OperationFields DEF TypeOK, Name, Withdrawn
<1>5. manifests[i].name # Withdrawn => dirs'[manifests[i].name] = dirs[manifests[i].name]
  BY ZenonT(60), <1>4 DEF Withdraw, TypeOK
<1>6. ASSUME manifests[i].name = Withdrawn, LoadReady(i) = "ready"
      PROVE  WithdrawnAfter(i)
  <2> DEFINE k == op.manifest.id
  <2>1. k \in Id /\ manifests[k] = op.manifest /\ workspacePin[k] = None /\ manifests[k] # None
    BY ZenonT(60), <1>2, OperationFields, NoneAssumption DEF IInv, WithdrawalInv
  <2>2. LoadReady(k) # "ready"
    BY <2>1 DEF LoadReady
  <2>3. i # k
    BY Zenon, <1>6, <2>2
  <2>4. i < k
    <3>1. i \in Nat /\ k \in Nat /\ i <= k
      BY Zenon, <1>1, <1>2, <2>1, IdAssumption
    <3> QED BY ONLY SMTT(30), <2>3, <3>1
  <2> QED BY Zenon, <1>4, <1>6, <2>1, <2>2, <2>4 DEF WithdrawnAfter
<1> QED BY Zenon, <1>1, <1>3, <1>5, <1>6

\* Every step keeps what startup has examined.
LEMMA ExaminedStep == TypeOK /\ IInv /\ Examined /\ [Next]_vars => Examined'
<1> SUFFICES ASSUME TypeOK, IInv, Examined, [Next]_vars PROVE Examined'
  OBVIOUS
<1>1. CASE \E k \in Id : Reconcile(k)
  BY <1>1, ReconcileExamines
<1>2. CASE Withdraw
  BY <1>2, WithdrawExamines
<1>3. CASE SyncWithdrawal
  <2>1. /\ UNCHANGED <<manifests, catalog, dirs, todo>> /\ (op' = op \/ op' = Idle)
        /\ phase' = "starting" => phase = "starting"
    BY ZenonT(60), <1>3 DEF SyncWithdrawal, Goto, Return, Abort
  <2>2. op'.kind = "startup" => op' = op
    BY <2>1 DEF Idle
  <2> QED BY ZenonT(60), <2>1, <2>2, SameReading DEF Examined
<1>4. CASE Kill \/ PowerLoss
  BY Zenon, <1>4 DEF Kill, PowerLoss, Restart, Examined
<1>5. CASE UNCHANGED vars
  BY ZenonT(60), <1>5, SameReading DEF vars, files, catalog, Examined
<1>6. CASE phase' = "serving"
  BY <1>6 DEF Examined
<1> QED
  BY ZenonT(60), <1>1, <1>2, <1>3, <1>4, <1>5, <1>6 DEF IInv, Control, Next, Step, Checkout,
       Delete,
     Materialize, EnsureManifest, SyncManifest, Publish, SyncWorkspaces, PersistReady, Unpin, Unlink,
     SyncRemoval, Serve, Goto, Return

\* Startup leaves no directory of an interrupted publication or deletion behind, and
\* no Ready workspace without its directory unless another ID was given its name.
THEOREM StartupLeavesNothing == Spec => StartupReconciles
<1> DEFINE Agree ==
      phase = "starting" /\ phase' = "serving" =>
        \A i \in Id : manifests[i] # None =>
          IF LoadReady(i) = "ready" THEN dirs[manifests[i].name] # None \/ WithdrawnAfter(i)
          ELSE dirs[manifests[i].name] = None
<1>1. Init => Examined
  BY DEF Init, Examined
<1>2. Spec => []Examined
  BY <1>1, ExaminedStep, Inductive, PTL DEF Spec
<1>3. TypeOK /\ IInv /\ Examined /\ [Next]_vars => [Agree]_vars
  <2> SUFFICES ASSUME TypeOK, IInv, Examined, [Next]_vars, phase = "starting", phase' = "serving"
               PROVE  \A i \in Id : manifests[i] # None =>
                        IF LoadReady(i) = "ready" THEN dirs[manifests[i].name] # None \/ WithdrawnAfter(i)
                        ELSE dirs[manifests[i].name] = None
    BY Zenon
  <2>1. Serve
    BY ZenonT(60) DEF IInv, Control, Next, Step, Checkout, Delete, Reconcile, Materialize,
         EnsureManifest,
       SyncManifest, Publish, SyncWorkspaces, PersistReady, Withdraw, SyncWithdrawal, Unpin, Unlink,
       SyncRemoval, Kill, PowerLoss, Restart, Goto, Return, Abort, vars
  <2>2. op.kind = "none" /\ todo = {}
    BY <2>1 DEF Serve, Idle
  <2> QED
    BY ZenonT(60), <2>2 DEF IInv, StartupInv, Examined
<1> QED
  BY <1>2, <1>3, Inductive, PTL DEF Spec, StartupReconciles

\* A workspace ID never changes identity.
THEOREM IdentityIsKept == Spec => IdentityKept
<1> DEFINE Kept == /\ \A i \in Id :
                        /\ workspace[i] # None => workspace'[i] = workspace[i]
                        /\ workspacePin[i] # None =>
                             /\ workspacePin'[i] \in {workspacePin[i], None}
                             /\ manifests[i] # None => manifests'[i] \in {manifests[i], None}
                   /\ \A n \in Name : workspaceName[n] # None => workspaceName'[n] = workspaceName[n]
<1>1. TypeOK /\ IInv /\ [Next]_vars => [Kept]_vars
  <2> SUFFICES ASSUME TypeOK, IInv, Next PROVE Kept
    BY SMTT(20)
  <2>1. CASE PersistReady
    <3>1. op.kind = "checkout" /\ UNCHANGED manifests
      BY <2>1, ZenonT(60) DEF PersistReady, IInv, Control, files
    <3>2. CASE UNCHANGED catalog
      BY SMTT(60), <3>1, <3>2 DEF catalog
    <3>3. CASE /\ workspaceName[op.tree.manifest.name] \in {None, op.tree.manifest.id}
               /\ workspace[op.tree.manifest.id] = None
               /\ PutReady(op.tree.manifest)
      BY <3>1, <3>3, OperationFields, ZenonT(60) DEF IInv, CatalogInv, PutReady, TypeOK
    <3> QED
      BY <2>1, <3>2, <3>3, ZenonT(60) DEF PersistReady
  <2>2. CASE Unpin
    BY <2>2, OperationFields, SMTT(20) DEF Unpin, IInv, Control, files, TypeOK
  <2>3. CASE EnsureManifest
    BY <2>3, OperationFields, Zenon DEF EnsureManifest, IInv, Control, catalog, TypeOK
  <2>4. CASE Unlink
    BY <2>4, OperationFields, ZenonT(60) DEF Unlink, IInv, Control, catalog, TypeOK
  <2>5. CASE PowerLoss
    BY <2>5, ZenonT(60) DEF PowerLoss, Restart, IInv, ManifestsInv, catalog
  <2>6. CASE UNCHANGED <<manifests, catalog>>
    BY <2>6, SMTT(20) DEF catalog
  <2> QED
    BY <2>1, <2>2, <2>3, <2>4, <2>5, <2>6, ZenonT(60) DEF Next, Step, Checkout, Delete,
         Reconcile, Materialize,
       SyncManifest, Publish, SyncWorkspaces, Withdraw, SyncWithdrawal, SyncRemoval, Serve, Kill,
       Restart, files
<1> QED
  BY <1>1, Inductive, PTL DEF Spec, IdentityKept

\* Restarts agree with the catalog, whatever failed before them: the types and the
\* manifest's precedence in every state, reconciliation and identity in every step.
THEOREM RestartsAgreeAlways == Spec => RestartsAgree
<1>1. Spec => []TypeOK
  BY Inductive, PTL
<1> QED
  BY <1>1, ManifestOnDisk, StartupLeavesNothing, IdentityIsKept, PTL DEF RestartsAgree

-----------------------------------------------------------------------------
(* Concurrent publications under one name, for any number of callers.      *)

\* A look at a path changes nothing but the caller's step.
LEMMA ReplaceLookStep ==
  ASSUME Absent \notin Caller, ReplaceIInv, NEW c \in Caller,
         pc' = [pc EXCEPT ![c] = "done"] \/ (\E s \in {"rename", "exchange"} : pc' = [pc EXCEPT ![c] = s] /\ pc[c] # "done"),
         result' \in [Caller -> {"none", "ok", "exists", "error", "unsupported"}],
         UNCHANGED <<destination, staging, retired, cleaned, replace>>
  PROVE  ReplaceIInv'
<1>1. pc \in [Caller -> {"look", "rename", "exchange", "look retired", "retire", "done"}]
  BY DEF ReplaceIInv, ReplaceTypeOK
<1>2. pc' \in [Caller -> {"look", "rename", "exchange", "look retired", "retire", "done"}]
  BY <1>1
<1>3. \A d \in Caller : /\ pc'[d] # "done" => pc[d] # "done"
                        /\ pc'[d] \in {"look retired", "retire"} => pc'[d] = pc[d]
  BY <1>1
<1>4. ReplaceTypeOK' BY Zenon, <1>2 DEF ReplaceIInv, ReplaceTypeOK
<1>5. Apart' BY Zenon DEF ReplaceIInv, Apart
<1>6. Whole' BY Zenon DEF ReplaceIInv, Whole
<1>7. Holding' BY Zenon, <1>3 DEF ReplaceIInv, Holding
<1> QED BY Zenon, <1>4, <1>5, <1>6, <1>7 DEF ReplaceIInv

\* The result a call returns.
LEMMA ReplaceReturnType ==
  ASSUME ReplaceIInv, NEW c \in Caller, NEW r \in {"ok", "exists", "error", "unsupported"}, ReplaceReturn(c, r)
  PROVE  result' \in [Caller -> {"none", "ok", "exists", "error", "unsupported"}]
BY DEF ReplaceIInv, ReplaceTypeOK, ReplaceReturn

\* A tree that moves into the public name, or into the trash.
LEMMA ReplaceRenameStep ==
  ASSUME Absent \notin Caller, ReplaceIInv, NEW c \in Caller, Rename(c)
  PROVE  ReplaceIInv'
<1>1. CASE destination # Absent
  <2>1. ReplaceReturn(c, "error") /\ UNCHANGED <<destination, staging, retired, cleaned, replace>>
    BY Zenon, <1>1 DEF Rename
  <2>2. result' \in [Caller -> {"none", "ok", "exists", "error", "unsupported"}]
    BY <2>1, ReplaceReturnType
  <2> QED BY Zenon, <2>1, <2>2, ReplaceLookStep DEF ReplaceReturn
<1>2. CASE destination = Absent
  <2>1. /\ destination' = staging[c] /\ staging' = [staging EXCEPT ![c] = Absent] /\ ReplaceReturn(c, "ok")
        /\ UNCHANGED <<retired, cleaned, replace>> /\ pc[c] = "rename"
    BY Zenon, <1>2 DEF Rename
  <2>2. result' \in [Caller -> {"none", "ok", "exists", "error", "unsupported"}]
    BY <2>1, ReplaceReturnType
  <2>3. /\ staging \in [Caller -> Caller \cup {Absent}] /\ staging[c] # Absent
        /\ pc \in [Caller -> {"look", "rename", "exchange", "look retired", "retire", "done"}]
    BY <2>1 DEF ReplaceIInv, ReplaceTypeOK, Holding
  <2>4. /\ staging' \in [Caller -> Caller \cup {Absent}] /\ staging'[c] = Absent
        /\ \A d \in Caller : d # c => staging'[d] = staging[d]
    BY Zenon, <2>1, <2>3
  <2>5. /\ pc' \in [Caller -> {"look", "rename", "exchange", "look retired", "retire", "done"}]
        /\ pc'[c] = "done" /\ \A d \in Caller : d # c => pc'[d] = pc[d]
    BY <2>1, <2>3 DEF ReplaceReturn
  <2>6. destination' \in Caller /\ destination' = staging[c] /\ destination' # Absent
    BY Zenon, <2>1, <2>3
  <2>7. ReplaceTypeOK' BY Zenon, <2>1, <2>2, <2>4, <2>5, <2>6 DEF ReplaceIInv, ReplaceTypeOK
  <2>8. Apart' BY ZenonT(60), <2>1, <2>3, <2>4, <2>6 DEF ReplaceIInv, Apart
  <2>9. Whole' BY Zenon, <1>2, <2>1, <2>4, <2>6 DEF ReplaceIInv, Whole
  <2>10. Holding' BY Zenon, <2>4, <2>5, <2>6 DEF ReplaceIInv, Holding
  <2> QED BY Zenon, <2>7, <2>8, <2>9, <2>10 DEF ReplaceIInv
<1> QED BY Zenon, <1>1, <1>2

\* Moving the old tree aside to its retired name keeps it.
LEMMA ReplaceRetireStep ==
  ASSUME Absent \notin Caller, ReplaceIInv, NEW c \in Caller, Retire(c)
  PROVE  ReplaceIInv'
<1>1. CASE retired # Absent
  <2>1. ReplaceReturn(c, "error") /\ UNCHANGED <<destination, staging, retired, cleaned, replace>>
    BY Zenon, <1>1 DEF Retire
  <2>2. result' \in [Caller -> {"none", "ok", "exists", "error", "unsupported"}]
    BY <2>1, ReplaceReturnType
  <2> QED BY Zenon, <2>1, <2>2, ReplaceLookStep DEF ReplaceReturn
<1>2. CASE retired = Absent
  <2>1. /\ retired' = staging[c] /\ staging' = [staging EXCEPT ![c] = Absent] /\ ReplaceReturn(c, "ok")
        /\ UNCHANGED <<destination, cleaned, replace>> /\ pc[c] = "retire"
    BY Zenon, <1>2 DEF Retire
  <2>2. result' \in [Caller -> {"none", "ok", "exists", "error", "unsupported"}]
    BY <2>1, ReplaceReturnType
  <2>3. /\ staging \in [Caller -> Caller \cup {Absent}] /\ staging[c] # Absent /\ destination # Absent
        /\ pc \in [Caller -> {"look", "rename", "exchange", "look retired", "retire", "done"}]
    BY <2>1 DEF ReplaceIInv, ReplaceTypeOK, Holding
  <2>4. /\ staging' \in [Caller -> Caller \cup {Absent}] /\ staging'[c] = Absent
        /\ \A d \in Caller : d # c => staging'[d] = staging[d]
    BY Zenon, <2>1, <2>3
  <2>5. /\ pc' \in [Caller -> {"look", "rename", "exchange", "look retired", "retire", "done"}]
        /\ pc'[c] = "done" /\ \A d \in Caller : d # c => pc'[d] = pc[d]
    BY <2>1, <2>3 DEF ReplaceReturn
  <2>6. retired' \in Caller /\ retired' = staging[c] /\ retired' # Absent
    BY Zenon, <2>1, <2>3
  <2>7. ReplaceTypeOK' BY Zenon, <2>1, <2>2, <2>4, <2>5, <2>6 DEF ReplaceIInv, ReplaceTypeOK
  <2>8. Apart' BY ZenonT(60), <2>1, <2>3, <2>4, <2>6 DEF ReplaceIInv, Apart
  <2>9. Whole' BY Zenon, <1>2, <2>1, <2>4, <2>6 DEF ReplaceIInv, Whole
  <2>10. Holding'
    BY ZenonT(60), <2>1, <2>3, <2>4, <2>5, <2>6 DEF ReplaceIInv, Holding
  <2> QED BY Zenon, <2>7, <2>8, <2>9, <2>10 DEF ReplaceIInv
<1> QED BY Zenon, <1>1, <1>2

\* The two trees change places.
LEMMA ReplaceExchangeStep ==
  ASSUME Absent \notin Caller, ReplaceIInv, NEW c \in Caller, Exchange(c)
  PROVE  ReplaceIInv'
<1>1. CASE ReplaceReturn(c, "unsupported") /\ UNCHANGED <<destination, staging, retired, cleaned, replace>>
  <2>1. result' \in [Caller -> {"none", "ok", "exists", "error", "unsupported"}]
    BY <1>1, ReplaceReturnType
  <2> QED BY Zenon, <1>1, <2>1, ReplaceLookStep DEF ReplaceReturn
<1>2. CASE /\ destination # Absent /\ destination' = staging[c]
           /\ staging' = [staging EXCEPT ![c] = destination] /\ ReplaceGoto(c, "look retired")
           /\ UNCHANGED <<retired, cleaned, replace>> /\ pc[c] = "exchange"
  <2>1. /\ staging \in [Caller -> Caller \cup {Absent}] /\ staging[c] # Absent
        /\ pc \in [Caller -> {"look", "rename", "exchange", "look retired", "retire", "done"}]
        /\ destination \in Caller
    BY <1>2 DEF ReplaceIInv, ReplaceTypeOK, Holding
  <2>2. /\ staging' \in [Caller -> Caller \cup {Absent}] /\ staging'[c] = destination
        /\ \A d \in Caller : d # c => staging'[d] = staging[d]
    BY Zenon, <1>2, <2>1
  <2>3. /\ pc' \in [Caller -> {"look", "rename", "exchange", "look retired", "retire", "done"}]
        /\ \A d \in Caller : d # c => pc'[d] = pc[d]
    BY <1>2, <2>1 DEF ReplaceGoto
  <2>4. destination' \in Caller /\ destination' = staging[c] /\ destination' # Absent
    BY Zenon, <1>2, <2>1
  <2>5. ReplaceTypeOK'
    BY Zenon, <1>2, <2>2, <2>3, <2>4 DEF ReplaceIInv, ReplaceTypeOK, ReplaceGoto
  <2>6. Apart' BY ZenonT(60), <1>2, <2>1, <2>2, <2>4 DEF ReplaceIInv, Apart
  <2>7. Whole' BY Zenon, <1>2, <2>2, <2>4 DEF ReplaceIInv, Whole
  <2>8. Holding' BY Zenon, <1>2, <2>2, <2>3, <2>4 DEF ReplaceIInv, Holding
  <2> QED BY Zenon, <2>5, <2>6, <2>7, <2>8 DEF ReplaceIInv
<1> QED BY Zenon, <1>1, <1>2 DEF Exchange

\* Looking at the retired name keeps it.
LEMMA ReplaceLookRetiredStep ==
  ASSUME Absent \notin Caller, ReplaceIInv, NEW c \in Caller, LookRetired(c)
  PROVE  ReplaceIInv'
<1>1. CASE ReplaceReturn(c, "exists")
  <2>1. result' \in [Caller -> {"none", "ok", "exists", "error", "unsupported"}]
    BY <1>1, ReplaceReturnType
  <2> QED BY Zenon, <1>1, <2>1, ReplaceLookStep DEF LookRetired, ReplaceReturn
<1>2. CASE ReplaceGoto(c, "retire")
  <2>1. /\ pc[c] = "look retired" /\ UNCHANGED <<destination, staging, retired, cleaned, replace, result>>
        /\ pc \in [Caller -> {"look", "rename", "exchange", "look retired", "retire", "done"}]
    BY Zenon, <1>2 DEF ReplaceIInv, ReplaceTypeOK, LookRetired, ReplaceGoto
  <2>2. /\ pc' \in [Caller -> {"look", "rename", "exchange", "look retired", "retire", "done"}]
        /\ \A d \in Caller : d # c => pc'[d] = pc[d]
        /\ pc[c] # "done" /\ pc[c] \in {"look retired", "retire"}
    BY <1>2, <2>1 DEF ReplaceGoto
  <2>3. ReplaceTypeOK' BY Zenon, <2>1, <2>2 DEF ReplaceIInv, ReplaceTypeOK
  <2>4. Apart' BY Zenon, <2>1 DEF ReplaceIInv, Apart
  <2>5. Whole' BY Zenon, <2>1 DEF ReplaceIInv, Whole
  <2>6. Holding' BY Zenon, <2>1, <2>2 DEF ReplaceIInv, Holding
  <2> QED BY Zenon, <2>3, <2>4, <2>5, <2>6 DEF ReplaceIInv
<1> QED BY Zenon, <1>1, <1>2 DEF LookRetired

\* The cleaner takes a tree that another has replaced.
LEMMA ReplaceCleanStep ==
  ASSUME Absent \notin Caller, ReplaceIInv, Clean
  PROVE  ReplaceIInv'
<1>1. /\ retired # Absent /\ retired \in Caller /\ destination # Absent
      /\ cleaned' = cleaned \cup {retired} /\ retired' = Absent
      /\ UNCHANGED <<destination, staging, replace, pc, result>>
  BY Zenon DEF ReplaceIInv, ReplaceTypeOK, Holding, Clean
<1>2. ReplaceTypeOK' BY Zenon, <1>1 DEF ReplaceIInv, ReplaceTypeOK
<1>3. Apart' BY Zenon, <1>1 DEF ReplaceIInv, Apart
<1>4. Whole' BY Zenon, <1>1 DEF ReplaceIInv, Whole
<1>5. Holding' BY Zenon, <1>1 DEF ReplaceIInv, Holding
<1> QED BY Zenon, <1>2, <1>3, <1>4, <1>5 DEF ReplaceIInv

\* Every step of the callers and the cleaner preserves the invariant.
LEMMA ReplaceIInvStep ==
  ASSUME Absent \notin Caller, ReplaceIInv, [ReplaceNext]_(rvars)
  PROVE  ReplaceIInv'
<1>1. ASSUME NEW c \in Caller, Look(c) PROVE ReplaceIInv'
  <2>1. pc[c] # "done" /\ UNCHANGED <<destination, staging, retired, cleaned, replace>>
    BY <1>1 DEF Look
  <2>2. ReplaceGoto(c, "rename") \/ ReplaceGoto(c, "exchange") \/ ReplaceReturn(c, "exists")
    BY Zenon, <1>1 DEF Look
  <2>3. result' \in [Caller -> {"none", "ok", "exists", "error", "unsupported"}]
    <3>1. CASE ReplaceReturn(c, "exists") BY <3>1, ReplaceReturnType
    <3>2. CASE UNCHANGED result BY Zenon, <3>2 DEF ReplaceIInv, ReplaceTypeOK
    <3> QED BY Zenon, <2>2, <3>1, <3>2 DEF ReplaceGoto
  <2> QED BY Zenon, <2>1, <2>2, <2>3, ReplaceLookStep DEF ReplaceGoto, ReplaceReturn
<1>2. CASE UNCHANGED rvars
  <2>1. UNCHANGED <<destination, staging, retired, cleaned, replace, pc, result>>
    BY Zenon, <1>2 DEF rvars
  <2> QED
    BY Zenon, <2>1 DEF ReplaceIInv, ReplaceTypeOK, Apart, Whole,
         Holding
<1> QED
  BY Zenon, <1>1, <1>2, ReplaceRenameStep, ReplaceExchangeStep, ReplaceLookRetiredStep,
       ReplaceRetireStep, ReplaceCleanStep DEF ReplaceNext

\* Before any call every tree is at its caller's staging path.
LEMMA ReplaceInitIInv ==
  ASSUME Absent \notin Caller, ReplaceInit
  PROVE  ReplaceIInv
<1>1. ReplaceTypeOK BY DEF ReplaceInit, ReplaceTypeOK
<1>2. \A c \in Caller : staging[c] = c /\ pc[c] = "look" BY Zenon DEF ReplaceInit
<1>3. destination = Absent /\ retired = Absent /\ cleaned = {} BY Zenon DEF ReplaceInit
<1>4. Apart BY Zenon, <1>2, <1>3 DEF Apart
<1>5. Whole BY Zenon, <1>2 DEF Whole
<1>6. Holding BY <1>2, <1>3 DEF Holding
<1> QED BY Zenon, <1>1, <1>4, <1>5, <1>6 DEF ReplaceIInv

\* The inductive invariant of replacements holds in every reachable state.
LEMMA ReplaceInvariance ==
  ASSUME Absent \notin Caller
  PROVE  ReplaceSpec => []ReplaceIInv
<1>1. ReplaceInit => ReplaceIInv BY Zenon, ReplaceInitIInv
<1>2. ReplaceIInv /\ [ReplaceNext]_(rvars) => ReplaceIInv' BY Zenon, ReplaceIInvStep
<1> QED BY <1>1, <1>2, PTL DEF ReplaceSpec

\* However publications of one name interleave, every staged tree has one path.
THEOREM TreesAreConserved ==
  ASSUME Absent \notin Caller
  PROVE  ReplaceSpec => []TreesConserved
<1>1. ReplaceIInv => TreesConserved
  BY Zenon DEF ReplaceIInv, Holding, TreesConserved
<1> QED BY <1>1, ReplaceInvariance, PTL

\* A published name leads somewhere at every moment of its replacement.
THEOREM NamesNeverAbsent ==
  ASSUME Absent \notin Caller
  PROVE  ReplaceSpec => NameNeverAbsent
<1>1. ASSUME ReplaceIInv, [ReplaceNext]_(rvars), destination # Absent PROVE destination' # Absent
  <2>1. ASSUME NEW c \in Caller, Exchange(c) PROVE destination' # Absent
    <3>1. pc[c] # "done" BY <2>1 DEF Exchange
    <3> QED BY Zenon, <1>1, <2>1, <3>1 DEF Exchange, ReplaceIInv, Holding
  <2> QED
    BY Zenon, <1>1, <2>1 DEF ReplaceNext, Look, Rename, LookRetired,
         Retire, Clean, rvars
<1>2. ReplaceIInv /\ [ReplaceNext]_(rvars) => [destination # Absent => destination' # Absent]_(rvars)
  BY Zenon, <1>1
<1> QED BY <1>2, ReplaceInvariance, PTL DEF ReplaceSpec, NameNeverAbsent

\* Publications of one name lose no tree and never take the name away, for any
\* number of callers and any policies (publish_workspace).
THEOREM TreesAreKept == ReplaceSpec => TreesKept
<1>1. ReplaceIInv => ReplaceTypeOK BY Zenon DEF ReplaceIInv
<1>2. ReplaceSpec => []ReplaceIInv BY Zenon, ReplaceAssumption, ReplaceInvariance
<1>3. ReplaceSpec => []TreesConserved BY Zenon, ReplaceAssumption, TreesAreConserved
<1>4. ReplaceSpec => NameNeverAbsent BY Zenon, ReplaceAssumption, NamesNeverAbsent
<1> QED BY <1>1, <1>2, <1>3, <1>4, PTL DEF TreesKept
=============================================================================
