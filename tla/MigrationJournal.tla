-------------------------- MODULE MigrationJournal --------------------------
(***************************************************************************)
(* The daemon's format migration journal (MigrationStore).  A durable      *)
(* record takes a migration from Copying over Validating to Published.     *)
(* Workers call execute_once, which runs at most one callback of the       *)
(* injected handler under the execution lock and then moves the record.    *)
(* The record in memory moves before the file is written, and stays moved  *)
(* when the write fails.  The handler (external) copies the data, and      *)
(* switches the catalog to the new format.                                 *)
(***************************************************************************)
EXTENDS Integers

CONSTANTS MigrationWorker,     \* threads that call execute_once
          MaxVersion, \* the newest format version
          NoMigration,       \* no record, no turn
          MaxJournalErrors,  \* bound on I/O errors
          MaxJournalCrashes  \* bound on kills and power losses

VARIABLES
  record,   \* the record in memory
  journalFile,     \* the record on disk
  daemonUp,       \* is the daemon running?
  binary,   \* the format version the daemon was configured with
  turn,     \* the record each worker is executing, and how far it is
  active,   \* the format version the catalog was switched to
  copied,   \* the format versions whose data is complete
  lagging,  \* history: a transition was not written, in this or an earlier process
  journalErrors, journalCrashes

migrationVars == <<record, journalFile, daemonUp, binary, turn, active, copied, lagging, journalErrors, journalCrashes>>

-----------------------------------------------------------------------------
(* The record file, replaced by write, fsync, rename and directory fsync:  *)
(* "now" is the visible version, "past" the earlier ones that a power loss *)
(* may bring back, because the directory was not synchronized after the    *)
(* rename that replaced them.                                              *)

JournalSynced(r) == [now |-> r, past |-> {}]
JournalUnsynced(f, r) == [now |-> r, past |-> f.past \cup {f.now}]

JournalVersions(f) == f.past \cup {f.now}

\* An error before the rename changes nothing that is visible (the temporary
\* file is removed); an error of the directory fsync comes after the rename.
JournalAfterError(f, r) == {f, JournalUnsynced(f, r)}

JournalAfterPowerLoss(f) == {JournalSynced(v) : v \in JournalVersions(f)}

-----------------------------------------------------------------------------
Version == 1 .. MaxVersion
Record ==
  {r \in [from : Version, to : Version, state : {"Copying", "Validating", "Published"}] :
     r.from < r.to}
Turn == [record : Record, step : {"calling", "called"}]

IsPartial(r) == r # NoMigration /\ r.state \in {"Copying", "Validating"}

\* MigrationRecord::active_format_version, and status without a record.
ActiveFormat(r, configured) ==
  IF r = NoMigration THEN configured ELSE IF r.state = "Published" THEN r.to ELSE r.from

\* NoMigration is no record and no turn.
MigrationConstants ==
  /\ MaxVersion \in Nat \ {0} /\ MaxJournalErrors \in Nat /\ MaxJournalCrashes \in Nat
  /\ NoMigration \notin Record /\ NoMigration \notin Turn
ASSUME MigrationAssumption == MigrationConstants

\* Every variable has its type.
MigrationTypeOK ==
  /\ record \in Record \cup {NoMigration}
  /\ JournalVersions(journalFile) \subseteq Record \cup {NoMigration}
  /\ daemonUp \in BOOLEAN /\ binary \in Version
  /\ turn \in [MigrationWorker -> Turn \cup {NoMigration}]
  /\ active \in Version /\ copied \subseteq Version /\ lagging \in BOOLEAN
  /\ journalErrors \in 0 .. MaxJournalErrors /\ journalCrashes \in 0 .. MaxJournalCrashes

MigrationInit ==
  /\ record = NoMigration /\ journalFile = JournalSynced(NoMigration)
  /\ daemonUp = FALSE /\ binary = 1
  /\ turn = [w \in MigrationWorker |-> NoMigration]
  /\ active = 1 /\ copied = {1} /\ lagging = FALSE
  /\ journalErrors = 0 /\ journalCrashes = 0

-----------------------------------------------------------------------------
JournalWriteOk(r) == journalFile' = JournalSynced(r) /\ UNCHANGED journalErrors
JournalWriteFails(r) ==
  /\ journalErrors < MaxJournalErrors /\ journalErrors' = journalErrors + 1
  /\ journalFile' \in JournalAfterError(journalFile, r)

\* Fault: a migration that is validating may be replaced.
BeginOverValidating(to) ==
  LET from == ActiveFormat(record, binary)
      new == [from |-> from, to |-> to, state |-> "Copying"] IN
  /\ daemonUp /\ ~(record # NoMigration /\ record.state = "Copying") /\ to > from
  /\ \/ JournalWriteOk(new) /\ record' = new
     \/ JournalWriteFails(new) /\ UNCHANGED record
  /\ UNCHANGED <<daemonUp, binary, turn, active, copied, lagging, journalCrashes>>

\* begin and begin_with_id; memory follows the file.
BeginMigration(to) ==
  LET from == ActiveFormat(record, binary)
      new == [from |-> from, to |-> to, state |-> "Copying"] IN
  /\ daemonUp /\ ~IsPartial(record) /\ to > from
  /\ \/ JournalWriteOk(new) /\ record' = new
     \/ JournalWriteFails(new) /\ UNCHANGED record
  /\ UNCHANGED <<daemonUp, binary, turn, active, copied, lagging, journalCrashes>>

-----------------------------------------------------------------------------
(* execute_once: read the record under the execution lock, call the        *)
(* handler, move the record.                                               *)

\* Fault: the execution lock is not taken.
EnterUnlocked(w) ==
  /\ daemonUp /\ turn[w] = NoMigration
  /\ IsPartial(record)
  /\ turn' = [turn EXCEPT ![w] = [record |-> record, step |-> "calling"]]
  /\ UNCHANGED <<record, journalFile, daemonUp, binary, active, copied, lagging, journalErrors, journalCrashes>>

Enter(w) ==
  /\ daemonUp /\ \A v \in MigrationWorker : turn[v] = NoMigration
  /\ IsPartial(record)
  /\ turn' = [turn EXCEPT ![w] = [record |-> record, step |-> "calling"]]
  /\ UNCHANGED <<record, journalFile, daemonUp, binary, active, copied, lagging, journalErrors, journalCrashes>>

\* The handler's copy and verify_and_publish; verification insists on the copy.
Copy(r) == copied' = copied \cup {r.to} /\ UNCHANGED active
VerifyAndPublish(r) == r.to \in copied /\ active' = r.to /\ UNCHANGED copied

\* Fault: one callback does both.
CallAll(w) ==
  /\ daemonUp /\ turn[w] # NoMigration /\ turn[w].step = "calling"
  /\ copied' = copied \cup {turn[w].record.to} /\ active' = turn[w].record.to
  /\ turn' = [turn EXCEPT ![w].step = "called"]
  /\ UNCHANGED <<record, journalFile, daemonUp, binary, lagging, journalErrors, journalCrashes>>

Call(w) ==
  /\ daemonUp /\ turn[w] # NoMigration /\ turn[w].step = "calling"
  /\ IF turn[w].record.state = "Copying"
       THEN Copy(turn[w].record) ELSE VerifyAndPublish(turn[w].record)
  /\ turn' = [turn EXCEPT ![w].step = "called"]
  /\ UNCHANGED <<record, journalFile, daemonUp, binary, lagging, journalErrors, journalCrashes>>

\* An error or a panic, before the callback's effect or after it.
CallFails(w) ==
  /\ daemonUp /\ turn[w] # NoMigration
  /\ turn' = [turn EXCEPT ![w] = NoMigration]
  /\ UNCHANGED <<record, journalFile, daemonUp, binary, active, copied, lagging, journalErrors, journalCrashes>>

Advanced(r) == [r EXCEPT !.state = IF r.state = "Copying" THEN "Validating" ELSE "Published"]

\* Fault: the marker is written before verify_and_publish is called.
TransitionEarly(w) ==
  /\ daemonUp /\ turn[w] # NoMigration
  /\ record # NoMigration /\ record.state = turn[w].record.state
  /\ record' = Advanced(record)
  /\ JournalWriteOk(Advanced(record)) /\ UNCHANGED lagging
  /\ turn' = [turn EXCEPT ![w] = NoMigration]
  /\ UNCHANGED <<daemonUp, binary, active, copied, journalCrashes>>

\* transition: the record changes in memory even if it cannot be written.
Transition(w) ==
  /\ daemonUp /\ turn[w] # NoMigration /\ turn[w].step = "called"
  /\ record # NoMigration /\ record.state = turn[w].record.state
  /\ record' = Advanced(record)
  /\ \/ JournalWriteOk(Advanced(record)) /\ UNCHANGED lagging
     \/ JournalWriteFails(Advanced(record)) /\ lagging' = TRUE
  /\ turn' = [turn EXCEPT ![w] = NoMigration]
  /\ UNCHANGED <<daemonUp, binary, active, copied, journalCrashes>>

-----------------------------------------------------------------------------
(* Crashes and open.                                                       *)

DaemonDown ==
  /\ daemonUp /\ daemonUp' = FALSE
  /\ journalCrashes < MaxJournalCrashes /\ journalCrashes' = journalCrashes + 1
  /\ record' = NoMigration /\ turn' = [w \in MigrationWorker |-> NoMigration]
  /\ UNCHANGED <<binary, active, copied, lagging, journalErrors>>

KillDaemon == DaemonDown /\ UNCHANGED journalFile
JournalPowerLoss == DaemonDown /\ journalFile' \in JournalAfterPowerLoss(journalFile)

\* Fault: the record's active version is not compared with the binary's.
OpenUnchecked(b) ==
  /\ ~daemonUp /\ (journalFile.now = NoMigration => b = active)
  /\ record' = journalFile.now
  /\ binary' = b /\ daemonUp' = TRUE
  /\ UNCHANGED <<journalFile, turn, active, copied, lagging, journalErrors, journalCrashes>>

\* A daemon of another format refuses to start.  Without a record the operator
\* runs the binary of the catalog's format.
OpenDaemon(b) ==
  /\ ~daemonUp /\ (journalFile.now = NoMigration => b = active)
  /\ ActiveFormat(journalFile.now, b) = b
  /\ record' = journalFile.now
  /\ binary' = b /\ daemonUp' = TRUE
  /\ UNCHANGED <<journalFile, turn, active, copied, lagging, journalErrors, journalCrashes>>

-----------------------------------------------------------------------------
MigrationNext ==
  \/ \E v \in Version : BeginMigration(v) \/ OpenDaemon(v)
  \/ \E w \in MigrationWorker : Enter(w) \/ Call(w) \/ CallFails(w) \/ Transition(w)
  \/ KillDaemon \/ JournalPowerLoss

MigrationSpec == MigrationInit /\ [][MigrationNext]_migrationVars

-----------------------------------------------------------------------------
(* Properties.                                                             *)

\* A published marker, in memory or in any version of the file, names a format
\* the catalog has been switched to: no crash makes an unpublished format the
\* active one.
MarkerAfterSwitch ==
  \A r \in JournalVersions(journalFile) \cup {record} :
    r # NoMigration /\ r.state = "Published" => active >= r.to

\* A callback runs for the migration the journal holds, in the state it holds
\* it: no other worker and no begin moves the record under it.
CallbackCurrent == \A w \in MigrationWorker : turn[w] # NoMigration => record = turn[w].record

\* The catalog is never switched to a format whose data is not complete, nor
\* back to an older one.  (After a transition that was not written, a power loss
\* may bring an older record back and have its callback called again; what the
\* older format's callback then does is the handler's business.)
SwitchForward ==
  [][active' # active => active' \in copied /\ (~lagging => active' > active)]_migrationVars

\* The catalog is ahead of the journal only by the migration that the journal
\* still holds, which runs again: the two never part for good.  (A transition
\* that was not written may let a power loss bring an older record back.)
SwitchRecoverable ==
  ~lagging => \A r \in JournalVersions(journalFile) :
                active # ActiveFormat(r, active) => IsPartial(r) /\ r.to = active

\* A daemon never serves a format that is not the one its record names, except
\* that its own migration may publish a newer one.
ServesItsFormat == daemonUp => binary <= ActiveFormat(record, binary) /\ ActiveFormat(record, binary) <= active

\* A migration that is durable in the journal of a running daemon completes, as
\* long as its handler does and the daemon is started again.
MigrationCompletes ==
  \A v \in Version :
    (daemonUp /\ IsPartial(record) /\ record.to = v /\ journalFile = JournalSynced(record)) ~> (active >= v)

-----------------------------------------------------------------------------
(* What a step preserves.  The record in memory runs ahead of the file and *)
(* the file ahead of its past versions, in the format they make active;    *)
(* while every transition was written, a record that is validating is the  *)
(* only version of the file.                                               *)

\* The format a version makes active; a journal without a record, the oldest.
Reached(r) == ActiveFormat(r, 1)

\* A worker's turn is for the record of the running daemon, and no other worker
\* has one; a callback that has published has switched the catalog.
TurnInv ==
  \A w \in MigrationWorker : turn[w] # NoMigration =>
    /\ daemonUp /\ record = turn[w].record /\ IsPartial(record)
    /\ turn[w].step = "called" /\ record.state = "Validating" => active = record.to
    /\ \A v \in MigrationWorker : turn[v] # NoMigration => v = w

\* No version makes a format active that is newer than the catalog's, than the
\* visible version's, or than that of the record in memory.
ReachInv ==
  /\ ~daemonUp => record = NoMigration
  /\ daemonUp => binary <= ActiveFormat(record, binary) /\ ActiveFormat(record, binary) <= active
  /\ \A r \in JournalVersions(journalFile) :
       /\ Reached(r) <= active
       /\ Reached(r) <= ActiveFormat(journalFile.now, active)
       /\ daemonUp => Reached(r) <= ActiveFormat(record, binary)

\* The catalog has the format a version makes active or the one it migrates to.
Follows(r) == active # ActiveFormat(r, active) => IsPartial(r) /\ r.to = active

IsValidating(r) == r # NoMigration /\ r.state = "Validating"

SyncInv ==
  ~lagging =>
    /\ \A r \in JournalVersions(journalFile) : Follows(r)
    /\ daemonUp => Follows(record) /\ (record = NoMigration => binary = active)
    /\ IsValidating(journalFile.now) => JournalVersions(journalFile) = {journalFile.now}
    /\ IsValidating(record) => JournalVersions(journalFile) = {record}

MigrationIInv == MigrationTypeOK /\ TurnInv /\ ReachInv /\ SyncInv

\* The catalog is switched forward only, to complete data, and is ahead only by the
\* migration the journal holds; the marker follows the switch, a callback runs for
\* the state the journal holds, and a daemon serves the format its record names.
MigrationSafe ==
  /\ [](MigrationTypeOK /\ MarkerAfterSwitch /\ CallbackCurrent /\ SwitchRecoverable /\ ServesItsFormat)
  /\ SwitchForward
=============================================================================
