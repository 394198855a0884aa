------------------------------ MODULE JobStore ------------------------------
(***************************************************************************)
(* The daemon's durable job queue (JobStore of reflink-forest-daemon).     *)
(* Every job is one file.  A mutation writes a temporary file, fsyncs it,  *)
(* renames it over the old version and fsyncs the directory, all under one *)
(* mutex, so that it is one step here.  A worker claims a job, runs its    *)
(* handler outside the mutex and commits the outcome; meanwhile clients    *)
(* of the control socket may move the same job.  I/O errors leave          *)
(* temporary files or renames that no fsync has made durable, and the      *)
(* daemon may be killed or lose power at any time.                         *)
(***************************************************************************)
EXTENDS Integers

CONSTANTS JobId,        \* random identifiers; their order is the order of claims
          Kind,         \* job kinds
          Worker,       \* worker threads
          Serves,       \* the kinds a worker's matching predicate accepts
          None,         \* no file, no job
          MaxAttempts,  \* the largest attempt count (u32::MAX)
          MaxErrors,    \* bound on I/O errors
          MaxCrashes    \* bound on kills and power losses

ASSUME IdAssumption == JobId \subseteq Nat
ASSUME ServesAssumption == Serves \in [Worker -> SUBSET Kind]
ASSUME LimitAssumption == MaxAttempts \in Nat /\ MaxErrors \in Nat /\ MaxCrashes \in Nat

VARIABLES
  disk,      \* the visible version of each job's file
  past,      \* older versions of it that a power loss may bring back
  leftover,  \* is there a temporary file that could not be removed?
  phase,     \* is the daemon "up", or is it "down" and recovering?
  work,      \* the job and attempt each worker runs the handler of
  ran,       \* history: the attempts that were handed to a handler
  acked,     \* history: the jobs whose enqueue returned Ok
  reported,  \* history: the jobs whose success was reported to a caller
  errors, crashes

fileVars == <<disk, past, leftover>>
history == <<ran, acked, reported>>
vars == <<fileVars, phase, work, history, errors, crashes>>

States == {"Queued", "Running", "Succeeded", "Failed"}
Record == [kind : Kind, state : States, attempts : 0 .. MaxAttempts, error : {"none", "some"}]
Version == Record \cup {None}

ASSUME NoneAssumption == None \notin Record \cup (JobId \X (0 .. MaxAttempts))

\* Every variable has its type.
TypeOK ==
  /\ disk \in [JobId -> Version]
  /\ past \in [JobId -> SUBSET Version]
  /\ leftover \in BOOLEAN
  /\ phase \in {"up", "down"}
  /\ work \in [Worker -> (JobId \X (0 .. MaxAttempts)) \cup {None}]
  /\ ran \subseteq JobId \X (0 .. MaxAttempts)
  /\ acked \subseteq JobId
  /\ reported \subseteq JobId
  /\ errors \in 0 .. MaxErrors
  /\ crashes \in 0 .. MaxCrashes

Init ==
  /\ disk = [i \in JobId |-> None]
  /\ past = [i \in JobId |-> {}]
  /\ leftover = FALSE
  /\ phase = "down"
  /\ work = [w \in Worker |-> None]
  /\ ran = {} /\ acked = {} /\ reported = {}
  /\ errors = 0 /\ crashes = 0

InState(i, s) == disk[i] # None /\ disk[i].state = s

\* What the file of a job may hold after a power loss.
Versions(i) == past[i] \cup {disk[i]}

-----------------------------------------------------------------------------
(* The versions of a record.                                               *)

NewRecord(k) == [kind |-> k, state |-> "Queued", attempts |-> 0, error |-> "none"]

\* claim_next_matching and start.
Claimed(r) == [r EXCEPT !.state = "Running", !.attempts = @ + 1]

Succeeded(r) == [r EXCEPT !.state = "Succeeded", !.error = "none"]
Failed(r) == [r EXCEPT !.state = "Failed", !.error = "some"]

\* Fault: interrupted work starts over.
RequeuedAfresh(r) == [r EXCEPT !.state = "Queued", !.attempts = 0]

\* retry and recover_startup: the attempts and the diagnostic stay.
Requeued(r) == [r EXCEPT !.state = "Queued"]

\* JobRecord::validate, which encoding and decoding insist on.
Valid(r) ==
  /\ r.state # "Queued" => r.attempts > 0
  /\ r.state = "Succeeded" => r.error = "none"
  /\ r.state = "Failed" => r.error = "some"

-----------------------------------------------------------------------------
(* write_record_locked.                                                    *)

\* Fault: the rename is not followed by an fsync of the directory.
PublishUnsynced(i, r) ==
  /\ disk' = [disk EXCEPT ![i] = r]
  /\ past' = [past EXCEPT ![i] = @ \cup {disk[i]}]
  /\ UNCHANGED <<leftover, errors>>

\* The directory fsync makes this rename durable, and every earlier one.
Publish(i, r) ==
  /\ disk' = [disk EXCEPT ![i] = r]
  /\ past' = [j \in JobId |-> {}]
  /\ UNCHANGED <<leftover, errors>>

\* An error before the rename, whose temporary file may resist removal, or an
\* error of the directory fsync: the new version is visible, but not durable.
WriteFails(i, r) ==
  /\ errors < MaxErrors
  /\ errors' = errors + 1
  /\ \/ leftover' \in {leftover, TRUE} /\ UNCHANGED <<disk, past>>
     \/ /\ disk' = [disk EXCEPT ![i] = r]
        /\ past' = [past EXCEPT ![i] = @ \cup {disk[i]}]
        /\ UNCHANGED leftover

-----------------------------------------------------------------------------
(* Clients: enqueue and the commands of the control socket.  A command on  *)
(* a job in another state is refused by require_transition.                *)

Enqueue(i, k) ==
  /\ phase = "up" /\ disk[i] = None
  /\ \/ Publish(i, NewRecord(k)) /\ acked' = acked \cup {i}
     \/ WriteFails(i, NewRecord(k)) /\ UNCHANGED acked
  /\ UNCHANGED <<phase, work, ran, reported, crashes>>

Start(i) ==
  /\ phase = "up" /\ InState(i, "Queued")
  /\ disk[i].attempts < MaxAttempts
  /\ Publish(i, Claimed(disk[i])) \/ WriteFails(i, Claimed(disk[i]))
  /\ UNCHANGED <<phase, work, history, crashes>>

Retry(i) ==
  /\ phase = "up" /\ InState(i, "Failed")
  /\ Publish(i, Requeued(disk[i])) \/ WriteFails(i, Requeued(disk[i]))
  /\ UNCHANGED <<phase, work, history, crashes>>

\* succeed and fail, of a client or of a worker that has run its handler.
Succeed(i) ==
  /\ InState(i, "Running")
  /\ \/ Publish(i, Succeeded(disk[i])) /\ reported' = reported \cup {i}
     \/ WriteFails(i, Succeeded(disk[i])) /\ UNCHANGED reported

Fail(i) ==
  /\ InState(i, "Running")
  /\ Publish(i, Failed(disk[i])) \/ WriteFails(i, Failed(disk[i]))
  /\ UNCHANGED reported

ClientSettle(i) ==
  /\ phase = "up"
  /\ Succeed(i) \/ Fail(i)
  /\ UNCHANGED <<phase, work, ran, acked, crashes>>

-----------------------------------------------------------------------------
(* Workers: execute_next_matching.                                         *)

\* Fault: the oldest queued job is looked at, whatever its kind.
NextOfAnyKind(w, i) ==
  /\ InState(i, "Queued") /\ disk[i].kind \in Serves[w]
  /\ \A j \in JobId : InState(j, "Queued") => i <= j

\* The oldest queued job the worker's predicate accepts; a temporary file in the
\* directory makes list_records_locked fail.
NextMatching(w, i) ==
  /\ InState(i, "Queued") /\ disk[i].kind \in Serves[w]
  /\ \A j \in JobId : InState(j, "Queued") /\ disk[j].kind \in Serves[w] => i <= j

Claim(w) ==
  /\ phase = "up" /\ work[w] = None /\ ~leftover
  /\ \E i \in JobId :
       /\ NextMatching(w, i)
       /\ disk[i].attempts < MaxAttempts
       /\ \/ /\ Publish(i, Claimed(disk[i]))
             /\ work' = [work EXCEPT ![w] = <<i, disk[i].attempts + 1>>]
             /\ ran' = ran \cup {<<i, disk[i].attempts + 1>>}
          \/ WriteFails(i, Claimed(disk[i])) /\ UNCHANGED <<work, ran>>
  /\ UNCHANGED <<phase, acked, reported, crashes>>

\* The handler returned, failed or panicked.  The commit goes by the job's
\* identifier; a client may have settled the job meanwhile, which refuses it.
Settle(w) ==
  /\ phase = "up" /\ work[w] # None
  /\ \/ Succeed(work[w][1]) \/ Fail(work[w][1])
     \/ ~InState(work[w][1], "Running") /\ UNCHANGED <<fileVars, reported, errors>>
  /\ work' = [work EXCEPT ![w] = None]
  /\ UNCHANGED <<phase, ran, acked, crashes>>

-----------------------------------------------------------------------------
(* Crashes and open_with_recovery.                                         *)

\* A kill in the middle of a write may leave its temporary file.
Kill ==
  /\ crashes < MaxCrashes /\ crashes' = crashes + 1
  /\ phase' = "down"
  /\ work' = [w \in Worker |-> None]
  /\ leftover' \in {leftover, TRUE}
  /\ UNCHANGED <<disk, past, history, errors>>

\* A power loss takes any rename back that no directory fsync has covered.
PowerLoss ==
  /\ crashes < MaxCrashes /\ crashes' = crashes + 1
  /\ phase' = "down"
  /\ work' = [w \in Worker |-> None]
  /\ leftover' \in BOOLEAN
  /\ disk' \in [JobId -> UNION {Versions(i) : i \in JobId}]
  /\ \A i \in JobId : disk'[i] \in Versions(i)
  /\ past' = [i \in JobId |-> {}]
  /\ UNCHANGED <<history, errors>>

\* remove_stale_temporaries_locked, with the directory fsync that follows.
RemoveTemporaries ==
  /\ phase = "down" /\ leftover
  /\ leftover' = FALSE
  /\ \/ past' = [i \in JobId |-> {}] /\ UNCHANGED errors
     \/ errors < MaxErrors /\ errors' = errors + 1 /\ UNCHANGED past
  /\ UNCHANGED <<disk, phase, work, history, crashes>>

\* recover_startup, in the order of identifiers; an error fails the opening, and
\* the next opening starts over.
RecoverRunning(i) ==
  /\ phase = "down" /\ ~leftover
  /\ InState(i, "Running")
  /\ \A j \in JobId : InState(j, "Running") => i <= j
  /\ Publish(i, Requeued(disk[i])) \/ WriteFails(i, Requeued(disk[i]))
  /\ UNCHANGED <<phase, work, history, crashes>>

Open ==
  /\ phase = "down" /\ ~leftover
  /\ \A i \in JobId : ~InState(i, "Running")
  /\ phase' = "up"
  /\ UNCHANGED <<fileVars, work, history, errors, crashes>>

Recover == RemoveTemporaries \/ (\E i \in JobId : RecoverRunning(i)) \/ Open

-----------------------------------------------------------------------------
Next ==
  \/ \E i \in JobId, k \in Kind : Enqueue(i, k)
  \/ \E i \in JobId : Start(i) \/ Retry(i) \/ ClientSettle(i)
  \/ \E w \in Worker : Claim(w) \/ Settle(w)
  \/ Recover
  \/ Kill
  \/ PowerLoss

Spec == Init /\ [][Next]_vars

\* Workers poll, handlers end, and a daemon that is down is started again.
Fairness ==
  /\ \A w \in Worker : WF_vars(Claim(w)) /\ WF_vars(Settle(w))
  /\ WF_vars(Recover)

FairSpec == Spec /\ Fairness

-----------------------------------------------------------------------------
(* Properties.                                                             *)

\* Every version of a record that the queue has written, or that a power loss
\* may bring back, passes JobRecord::validate: one that did not would make
\* every later listing fail, and with it the whole queue.
RecordsValid == \A i \in JobId : \A r \in Versions(i) : r # None => Valid(r)

\* What a caller was told holds after any crash: an acknowledged job still has
\* its record, and a job reported as succeeded is never run again.
AcknowledgedKept ==
  /\ \A i \in acked : disk[i] # None
  /\ \A i \in reported : InState(i, "Succeeded")

\* No two handler runs are the same attempt of a job, whether in one process,
\* where clients may fail and retry a job that still runs, or before and after
\* a crash: the claim is durable before the handler starts, and recovery
\* retains the attempt count.
OneRunPerAttempt ==
  [][\A w \in Worker : work'[w] \notin {work[w], None} => work'[w] \notin ran]_vars

Queued(i) == InState(i, "Queued") /\ \E w \in Worker : disk[i].kind \in Serves[w]

\* Two things stop the workers until someone acts: a temporary file (until the
\* next start) and a queued job that has used up its attempts, since
\* claim_next_matching returns AttemptOverflow for it and looks no further.
Blocked ==
  \/ leftover
  \/ \E i \in JobId : InState(i, "Queued") /\ disk[i].attempts = MaxAttempts

\* A queued job of a kind that has a worker does not wait for ever, whatever
\* kinds of jobs are queued before it.
QueuedRuns == \A i \in JobId : Queued(i) ~> (~Queued(i) \/ Blocked)

-----------------------------------------------------------------------------
(* The inductive invariant.                                                *)

Keeps(i, r) ==
  /\ i \in acked => r # None
  /\ i \in reported => r # None /\ r.state = "Succeeded"
  /\ \A n \in 0 .. MaxAttempts : <<i, n>> \in ran => r # None /\ n <= r.attempts

\* What callers were told, and every attempt a handler was given, is recorded in
\* every version of the job that a power loss may bring back, not only in the
\* visible one, and all these versions are valid.
IInv ==
  /\ RecordsValid
  /\ \A i \in JobId : \A r \in Versions(i) : Keeps(i, r)
=============================================================================
