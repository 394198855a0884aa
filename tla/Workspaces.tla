----------------------------- MODULE Workspaces -----------------------------
(***************************************************************************)
(* Durable workspaces: the checkout that publishes a directory, a manifest *)
(* file and a catalog batch; the deletion that withdraws them; and the     *)
(* reconciliation of the three at daemon startup.                          *)
(*                                                                         *)
(* Checkout and deletion borrow the catalog exclusively, so one operation  *)
(* runs at a time; what interferes with it is a crash between two of its   *)
(* steps, the failure of one of them, and whatever earlier operations left *)
(* behind.  The process may be killed (the files keep what was written) or *)
(* the machine may lose power (a directory entry that was never            *)
(* synchronized may be lost).                                              *)
(***************************************************************************)
EXTENDS Naturals

CONSTANTS Manifest,    \* the manifests requested: [id, name, generation]
          None,
          MaxTries,    \* bound on checkouts
          MaxFaults    \* bound on crashes and failed steps

ASSUME BoundAssumption == MaxTries \in Nat /\ MaxFaults \in Nat

VARIABLES
  manifests, mdurable,   \* workspace ID -> manifest file: as seen, as on disk
  dirs, ddurable,        \* public name -> workspace directory: as seen, as on disk
  workspace,             \* catalog: ID -> encoded manifest
  workspaceName,         \* catalog: name -> ID
  workspacePin,          \* catalog: ID -> generation
  phase,                 \* of the daemon
  todo,                  \* IDs of the manifests startup has still to examine
  op,                    \* the operation that borrows the catalog
  at,                    \* its next step
  tries, faults,
  readied,               \* directories whose checkout reached its catalog batch
  doubtful,              \* IDs whose manifest was renamed but perhaps not synchronized
  unsettled,             \* names whose withdrawal was seen but perhaps not synchronized
  deleted                \* IDs a deletion has begun on

files == <<manifests, mdurable, dirs, ddurable>>
catalog == <<workspace, workspaceName, workspacePin>>
ghosts == <<readied, doubtful, unsettled, deleted>>
vars == <<files, catalog, phase, todo, op, at, tries, faults, ghosts>>

Id == {m.id : m \in Manifest}
Name == {m.name : m \in Manifest}

\* A workspace directory, told apart from those of other attempts.
Tree == [manifest : Manifest, try : 1 .. MaxTries]

Idle == [kind |-> "none"]
Operation ==
  {Idle} \cup [kind : {"checkout"}, tree : Tree] \cup [kind : {"delete", "startup"}, manifest : Manifest]

\* The absent value is none of those it is compared with.
ASSUME NoneAssumption ==
  None \notin Tree /\ \A m \in Manifest : None # m /\ None # m.id /\ None # m.generation

\* Workspace IDs are ordered, as the names of their manifest files are.
ASSUME IdAssumption == Id \subseteq Nat

-----------------------------------------------------------------------------
(* Reading the published state *)

\* load_ready_workspace: "error" when the manifest file contradicts the catalog.
LoadReady(id) ==
  IF workspace[id] = None \/ workspacePin[id] = None
    THEN "absent"
    ELSE IF manifests[id] = None \/ manifests[id] # workspace[id]
      THEN "error"
      ELSE IF /\ workspaceName[manifests[id].name] = id
              /\ workspacePin[id] = manifests[id].generation
             THEN "ready" ELSE "absent"

-----------------------------------------------------------------------------

\* A directory may have a public name already, from a checkout without a manifest.
Foreign == [manifest |-> None, try |-> 0]

Init ==
  /\ manifests = [i \in Id |-> None] /\ mdurable = manifests
  /\ dirs \in [Name -> {None, Foreign}] /\ ddurable = dirs
  /\ workspace = [i \in Id |-> None]
  /\ workspaceName = [n \in Name |-> None]
  /\ workspacePin = [i \in Id |-> None]
  /\ phase = "serving" /\ todo = {}
  /\ op = Idle /\ at = "idle"
  /\ tries = 0 /\ faults = 0
  /\ readied = {} /\ doubtful = {} /\ unsettled = {} /\ deleted = {}

Goto(step) == at' = step /\ UNCHANGED <<op, phase, todo>>
Return == op' = Idle /\ at' = "idle" /\ UNCHANGED <<phase, todo>>
\* An error ends the operation, and startup with it.
Abort ==
  /\ op' = Idle /\ at' = "idle" /\ UNCHANGED todo
  /\ phase' = IF op.kind = "startup" THEN "refused" ELSE phase

\* The step of an operation fails: an I/O error of a call whose effect is kept.
Fault == faults < MaxFaults /\ faults' = faults + 1
NoFault == UNCHANGED faults

-----------------------------------------------------------------------------
(* checkout_cold_commit_and_persist *)

\* The request agrees with its manifest and asks for a new name; planning may
\* still fail (CheckoutPlan).
Checkout(m) ==
  /\ phase = "serving" /\ op = Idle
  /\ tries < MaxTries
  /\ tries' = tries + 1
  /\ workspaceName[m.name] \in {None, m.id}
  /\ op' = [kind |-> "checkout", tree |-> [manifest |-> m, try |-> tries + 1]]
  /\ at' = "materialize"
  /\ UNCHANGED <<files, catalog, phase, todo, faults, ghosts>>

\* The private staging directory is filled, or given up as it is.
Materialize ==
  /\ at = "materialize"
  /\ \/ Goto("manifest") /\ NoFault
     \/ Return /\ Fault
  /\ UNCHANGED <<files, catalog, tries, ghosts>>

\* Fault: the manifest of an ID is replaced.
EnsureManifestOverwriting ==
  LET m == op.tree.manifest
  IN  /\ at = "manifest"
      /\ Goto("sync manifest")
      /\ manifests' = [manifests EXCEPT ![m.id] = m]
      /\ doubtful' = doubtful \cup {m.id}
      /\ UNCHANGED <<mdurable, dirs, ddurable, catalog, tries, faults, readied, unsettled, deleted>>

\* An equal manifest is reused, another one is an error; a new one is written,
\* synchronized and renamed into place.
EnsureManifest ==
  LET m == op.tree.manifest
  IN  /\ at = "manifest"
      /\ CASE manifests[m.id] = m -> Goto("publish") /\ UNCHANGED <<manifests, doubtful>>
           [] manifests[m.id] = None ->
                /\ Goto("sync manifest")
                /\ manifests' = [manifests EXCEPT ![m.id] = m]
                /\ doubtful' = doubtful \cup {m.id}
           [] OTHER -> Return /\ UNCHANGED <<manifests, doubtful>>
      /\ UNCHANGED <<mdurable, dirs, ddurable, catalog, tries, faults, readied, unsettled, deleted>>

\* A synchronization of the directory settles every manifest but those that were
\* lost after their record was written.
Lost == {i \in doubtful : workspace[i] \notin {None, manifests[i]}}

\* Fault: the manifest directory is not synchronized.
SyncManifestNever ==
  /\ at = "sync manifest"
  /\ Goto("publish") /\ NoFault
  /\ doubtful' = Lost
  /\ UNCHANGED <<files, catalog, tries, readied, unsettled, deleted>>

\* The manifest directory is synchronized.
SyncManifest ==
  /\ at = "sync manifest"
  /\ \/ /\ Goto("publish") /\ NoFault
        /\ mdurable' = manifests
        /\ doubtful' = Lost
     \/ Return /\ Fault /\ UNCHANGED <<mdurable, doubtful>>
  /\ UNCHANGED <<manifests, dirs, ddurable, catalog, tries, readied, unsettled, deleted>>

\* Fault: the workspace directory is not synchronized before the catalog batch.
PublishUnsynced ==
  LET t == op.tree
  IN  /\ at = "publish"
      /\ IF dirs[t.manifest.name] = None
           THEN /\ Goto("persist")
                /\ dirs' = [dirs EXCEPT ![t.manifest.name] = t]
           ELSE Return /\ UNCHANGED dirs
      /\ UNCHANGED <<manifests, mdurable, ddurable, catalog, tries, faults, ghosts>>

\* publish_workspace with ReplacePolicy::Reject.
Publish ==
  LET t == op.tree
  IN  /\ at = "publish"
      /\ IF dirs[t.manifest.name] = None
           THEN /\ Goto("sync workspaces")
                /\ dirs' = [dirs EXCEPT ![t.manifest.name] = t]
           ELSE Return /\ UNCHANGED dirs
      /\ UNCHANGED <<manifests, mdurable, ddurable, catalog, tries, faults, ghosts>>

\* A synchronization of the workspaces settles every withdrawal still in effect.
Resurrected == {n \in unsettled : dirs[n] # None}

\* A failure here returns with the directory visible.
SyncWorkspaces ==
  /\ at = "sync workspaces"
  /\ \/ Goto("persist") /\ NoFault /\ ddurable' = dirs /\ unsettled' = Resurrected
     \/ Return /\ Fault /\ UNCHANGED <<ddurable, unsettled>>
  /\ UNCHANGED <<manifests, mdurable, dirs, catalog, tries, readied, doubtful, deleted>>

\* The record, the name and the pin, in one synchronous catalog batch.
PutReady(m) ==
  /\ workspace' = [workspace EXCEPT ![m.id] = m]
  /\ workspaceName' = [workspaceName EXCEPT ![m.name] = m.id]
  /\ workspacePin' = [workspacePin EXCEPT ![m.id] = m.generation]

\* persist_ready_workspace, after the manifest file it finds equal.
PersistReady ==
  LET t == op.tree
      m == t.manifest
      published == /\ workspace[m.id] = m
                   /\ workspaceName[m.name] = m.id
                   /\ workspacePin[m.id] = m.generation
  IN  /\ at = "persist"
      /\ \/ /\ workspaceName[m.name] \in {None, m.id}
            /\ workspace[m.id] = None
            /\ PutReady(m)
            /\ Return /\ NoFault
            /\ readied' = readied \cup {t}
            /\ deleted' = deleted \ {m.id}
         \/ /\ published
            /\ Return /\ NoFault
            /\ readied' = readied \cup {t}
            /\ deleted' = deleted \ {m.id}
            /\ UNCHANGED catalog
         \/ /\ \/ workspaceName[m.name] \notin {None, m.id}
               \/ workspace[m.id] # None /\ ~published
            /\ Goto("withdraw") /\ NoFault
            /\ UNCHANGED <<catalog, readied, deleted>>
         \/ Goto("withdraw") /\ Fault /\ UNCHANGED <<catalog, readied, deleted>>
      /\ UNCHANGED <<files, tries, doubtful, unsettled>>

-----------------------------------------------------------------------------
(* Withdrawal and deletion *)

\* The public name that the operation, or startup, withdraws.
Withdrawn ==
  IF op.kind = "checkout" THEN op.tree.manifest.name ELSE op.manifest.name

\* Fault: the withdrawal is not synchronized.
WithdrawBlindly ==
  /\ at = "withdraw"
  /\ dirs' = [dirs EXCEPT ![Withdrawn] = None]
  /\ IF op.kind = "delete" THEN Goto("unpin") ELSE Return
  /\ UNCHANGED <<manifests, mdurable, ddurable, catalog, tries, faults, ghosts>>

\* A missing directory is no error.
Withdraw ==
  /\ at = "withdraw"
  /\ IF dirs[Withdrawn] = None
       THEN /\ UNCHANGED dirs
            /\ IF op.kind = "delete" THEN Goto("unpin") ELSE Return
       ELSE /\ dirs' = [dirs EXCEPT ![Withdrawn] = None]
            /\ Goto("sync withdrawal")
  /\ UNCHANGED <<manifests, mdurable, ddurable, catalog, tries, faults, ghosts>>

\* The workspace and trash directories are synchronized.
SyncWithdrawal ==
  /\ at = "sync withdrawal"
  /\ \/ /\ NoFault
        /\ ddurable' = dirs
        /\ unsettled' = Resurrected
        /\ IF op.kind = "delete" THEN Goto("unpin") ELSE Return
     \/ /\ Abort /\ Fault
        /\ ddurable' \in {ddurable, dirs}
        /\ unsettled' = unsettled \cup {Withdrawn}
  /\ UNCHANGED <<manifests, mdurable, dirs, catalog, tries, readied, doubtful, deleted>>

Delete(id) ==
  /\ phase = "serving" /\ op = Idle
  /\ LoadReady(id) = "ready"
  /\ op' = [kind |-> "delete", manifest |-> manifests[id]]
  /\ at' = "withdraw"
  /\ deleted' = deleted \cup {id}
  /\ UNCHANGED <<files, catalog, phase, todo, tries, faults, readied, doubtful, unsettled>>

\* The pin is released; record and name stay in the catalog.
Unpin ==
  /\ at = "unpin"
  /\ \/ /\ Goto("unlink") /\ NoFault
        /\ workspacePin' = [workspacePin EXCEPT ![op.manifest.id] = None]
     \/ Return /\ Fault /\ UNCHANGED workspacePin
  /\ UNCHANGED <<files, workspace, workspaceName, tries, ghosts>>

Unlink ==
  /\ at = "unlink"
  /\ \/ /\ Goto("sync removal") /\ NoFault
        /\ manifests' = [manifests EXCEPT ![op.manifest.id] = None]
     \/ Return /\ Fault /\ UNCHANGED manifests
  /\ UNCHANGED <<mdurable, dirs, ddurable, catalog, tries, ghosts>>

SyncRemoval ==
  /\ at = "sync removal"
  /\ \/ /\ NoFault /\ mdurable' = manifests
        /\ doubtful' = Lost
     \/ Fault /\ UNCHANGED <<mdurable, doubtful>>
  /\ Return
  /\ UNCHANGED <<manifests, dirs, ddurable, catalog, tries, readied, unsettled, deleted>>

-----------------------------------------------------------------------------
(* Startup and crashes *)

\* Fault: manifests without a Ready record are passed over.
ReconcileReadyOnly(id) ==
  /\ phase = "starting" /\ op = Idle
  /\ id \in todo
  /\ todo' = todo \ {id}
  /\ UNCHANGED <<op, at, phase, files, catalog, tries, faults, ghosts>>

\* reconcile_workspace_publications examines the manifest files in ID order.
Reconcile(id) ==
  /\ phase = "starting" /\ op = Idle
  /\ id \in todo /\ \A other \in todo : id <= other
  /\ CASE LoadReady(id) = "absent" ->
            /\ op' = [kind |-> "startup", manifest |-> manifests[id]]
            /\ at' = "withdraw"
            /\ todo' = todo \ {id}
            /\ UNCHANGED phase
       [] LoadReady(id) = "ready" /\ dirs[manifests[id].name] # None ->
            /\ todo' = todo \ {id}
            /\ UNCHANGED <<op, at, phase>>
       [] OTHER -> phase' = "refused" /\ UNCHANGED <<op, at, todo>>
  /\ UNCHANGED <<files, catalog, tries, faults, ghosts>>

Serve ==
  /\ phase = "starting" /\ op = Idle /\ todo = {}
  /\ phase' = "serving"
  /\ UNCHANGED <<files, catalog, todo, op, at, tries, faults, ghosts>>

Restart ==
  /\ Fault
  /\ op' = Idle /\ at' = "idle"
  /\ phase' = "starting"
  /\ todo' = {i \in Id : manifests'[i] # None}
  /\ UNCHANGED <<catalog, tries, readied, deleted>>

\* The process ends and is started again.
Kill ==
  /\ unsettled' = unsettled \cup (IF at = "sync withdrawal" THEN {Withdrawn} ELSE {})
  /\ UNCHANGED <<files, doubtful>>
  /\ Restart

\* Each directory entry is as it was seen, or as it was last synchronized.
PowerLoss ==
  /\ manifests' \in {f \in [Id -> Manifest \cup {None}] :
                       \A i \in Id : f[i] \in {manifests[i], mdurable[i]}}
  /\ dirs' \in {f \in [Name -> Tree \cup {None, Foreign}] :
                  \A n \in Name : f[n] \in {dirs[n], ddurable[n]}}
  /\ mdurable' = manifests' /\ ddurable' = dirs'
  /\ UNCHANGED <<doubtful, unsettled>>
  /\ Restart

Step ==
  \/ Materialize \/ EnsureManifest \/ SyncManifest \/ Publish \/ SyncWorkspaces
  \/ PersistReady \/ Withdraw \/ SyncWithdrawal \/ Unpin \/ Unlink \/ SyncRemoval

Next ==
  \/ \E m \in Manifest : Checkout(m)
  \/ \E i \in Id : Delete(i) \/ Reconcile(i)
  \/ Step \/ Serve \/ Kill \/ PowerLoss

Spec == Init /\ [][Next]_vars

-----------------------------------------------------------------------------
(* Properties *)

\* Every variable has its type.
TypeOK ==
  /\ manifests \in [Id -> Manifest \cup {None}]
  /\ mdurable \in [Id -> Manifest \cup {None}]
  /\ dirs \in [Name -> Tree \cup {None, Foreign}]
  /\ ddurable \in [Name -> Tree \cup {None, Foreign}]
  /\ workspace \in [Id -> Manifest \cup {None}]
  /\ workspaceName \in [Name -> Id \cup {None}]
  /\ workspacePin \in [Id -> {m.generation : m \in Manifest} \cup {None}]
  /\ phase \in {"serving", "starting", "refused"}
  /\ todo \subseteq Id
  /\ op \in Operation
  /\ at \in {"idle", "materialize", "manifest", "sync manifest", "publish", "sync workspaces",
             "persist", "withdraw", "sync withdrawal", "unpin", "unlink", "sync removal"}
  /\ tries \in 0 .. MaxTries /\ faults \in 0 .. MaxFaults
  /\ readied \subseteq Tree
  /\ doubtful \subseteq Id /\ unsettled \subseteq Name /\ deleted \subseteq Id

\* A workspace with a record and a pin has its manifest on disk, equal to the record:
\* the manifest file is synchronized before the catalog batch is written.  A manifest whose directory synchronization failed or was
\* cut off by a kill is the exception: a retry finds the file and does not
\* synchronize it again.
ManifestFirst ==
  \A i \in Id \ doubtful : workspace[i] # None /\ workspacePin[i] # None =>
    manifests[i] = workspace[i] /\ mdurable[i] = workspace[i]

\* The pin outlives the workspace: a directory that was ever published as Ready is
\* pinned for as long as its public name leads to it, on disk too, so that no
\* crash brings back a workspace whose generation is no longer retained.  A name
\* whose withdrawal failed to synchronize, or was killed before it did, is the
\* exception: deleting the workspace again finds no directory and releases the pin
\* without synchronizing.
VisiblePinned ==
  \A n \in Name \ unsettled : \A t \in {dirs[n], ddurable[n]} \cap readied :
    workspacePin[t.manifest.id] = t.manifest.generation

\* Two IDs were given the same public name.
Contested(id) ==
  \E m \in Manifest : m.id # id /\ workspace[id] # None /\ m.name = workspace[id].name

\* Unless its deletion has begun, a Ready workspace has its directory; crashes and
\* failed checkouts of the same or of other workspaces take it away only if they
\* were given its name.
ReadyVisible ==
  \A i \in Id : LoadReady(i) = "ready" /\ i \notin deleted /\ ~Contested(i) =>
    dirs[workspace[i].name] \in readied

\* A manifest whose workspace is not Ready, and that startup examines after that of
\* a Ready one with the same name.
WithdrawnAfter(i) ==
  \E j \in Id :
    /\ i < j /\ manifests[j] # None /\ LoadReady(j) # "ready"
    /\ manifests[j].name = manifests[i].name

\* Once startup accepts requests, a Ready workspace has its directory
\* (ReadyWorkspaceMissing) and the name of any other manifest is free: the leftovers
\* of interrupted publications and deletions are gone.  A Ready workspace that shares
\* its name with one examined later loses the directory to that one's withdrawal.
StartupReconciles ==
  [][phase = "starting" /\ phase' = "serving" =>
       \A i \in Id : manifests[i] # None =>
         IF LoadReady(i) = "ready" THEN dirs[manifests[i].name] # None \/ WithdrawnAfter(i)
         ELSE dirs[manifests[i].name] = None]_vars

\* A workspace ID never changes identity: its record and the mapping of its name
\* are written once, and while it is pinned neither the pin nor the manifest file
\* is replaced by another.
IdentityKept ==
  [][/\ \A i \in Id :
          /\ workspace[i] # None => workspace'[i] = workspace[i]
          /\ workspacePin[i] # None =>
               /\ workspacePin'[i] \in {workspacePin[i], None}
               /\ manifests[i] # None => manifests'[i] \in {manifests[i], None}
     /\ \A n \in Name : workspaceName[n] # None => workspaceName'[n] = workspaceName[n]]_vars

\* A startup that succeeds leaves manifests, catalog and directories agreeing; the
\* manifest of a workspace is durable before its record and pin are, and an ID keeps
\* the manifest it was given.
RestartsAgree == [](TypeOK /\ ManifestFirst) /\ StartupReconciles /\ IdentityKept

\* Withdrawing a publication that never became Ready leaves Ready workspaces alone.
OnlyUnreadyWithdrawn ==
  [][\A i \in Id : LoadReady(i) = "ready" /\ op.kind \in {"checkout", "startup"} =>
       (dirs[workspace[i].name] \in readied => dirs'[workspace[i].name] # None)]_vars
=============================================================================
