---------------------------- MODULE ScrubSchedule ----------------------------
(***************************************************************************)
(* The daemon's scrub scheduler (ScrubScheduleStore).  One durable record  *)
(* holds the cadence and whether a scrub runs.  Workers poll: one claims a *)
(* due scrub, runs its handler outside the mutex, and records the outcome  *)
(* at the time it was claimed with.  Every method holds the mutex over its *)
(* file write, so that it is one step.  The methods that change a running  *)
(* schedule change the record in memory first, and leave it changed when   *)
(* the write fails.                                                        *)
(***************************************************************************)
EXTENDS Integers

CONSTANTS Worker,       \* threads that call execute_due_scrub
          Interval,     \* the cadences that validate_scrub_interval accepts
          MaxTime,      \* the largest timestamp (u64::MAX)
          MaxFailures,  \* MAX_CONSECUTIVE_SCRUB_FAILURES
          None,         \* no schedule, no claim
          MaxErrors,    \* bound on I/O errors
          MaxCrashes    \* bound on kills and power losses

ASSUME ScrubAssumption ==
  /\ Interval \subseteq Nat \ {0} /\ MaxTime \in Nat /\ MaxFailures \in Nat
  /\ MaxErrors \in Nat /\ MaxCrashes \in Nat
  /\ None \notin 0 .. MaxTime
  /\ None \notin [at : 0 .. MaxTime, interval : Interval]
  /\ None \notin [interval : Interval, due : 0 .. MaxTime, state : {"Idle", "Running"},
                  started : 0 .. MaxTime \cup {None}, failures : 0 .. MaxFailures]

VARIABLES
  schedule,      \* the record in memory
  file,          \* the record on disk
  up,            \* is the daemon running?
  now,           \* the clock
  claim,         \* the time each worker claimed the scrub it runs with
  wedged,        \* history: a claim of this process could not be written
  reconfigured,  \* history: a running scrub's schedule was replaced
  lastClaim,     \* history: time and interval of this process's last claim
  owed,          \* history: a crash interrupted a scrub that has not run again
  errors, crashes

vars == <<schedule, file, up, now, claim, wedged, reconfigured, lastClaim, owed,
          errors, crashes>>

-----------------------------------------------------------------------------
(* The record file, replaced by write, fsync, rename and directory fsync:  *)
(* "now" is the visible version, "past" the earlier ones that a power loss *)
(* may bring back, because the directory was not synchronized after the    *)
(* rename that replaced them.                                              *)

Synced(r) == [now |-> r, past |-> {}]
Unsynced(f, r) == [now |-> r, past |-> f.past \cup {f.now}]

Versions(f) == f.past \cup {f.now}

\* An error before the rename changes nothing that is visible (the temporary
\* file is removed); an error of the directory fsync comes after the rename.
AfterError(f, r) == {f, Unsynced(f, r)}

AfterPowerLoss(f) == {Synced(v) : v \in Versions(f)}

-----------------------------------------------------------------------------
Time == 0 .. MaxTime
Schedule == [interval : Interval, due : Time, state : {"Idle", "Running"},
             started : Time \cup {None}, failures : 0 .. MaxFailures]

Claimed == {w \in Worker : claim[w] # None}
Running == up /\ schedule # None /\ schedule.state = "Running"

\* status_at: is an idle scrub due?
Due == up /\ schedule # None /\ schedule.state = "Idle" /\ schedule.due <= now

\* Every variable has its type.
TypeOK ==
  /\ schedule \in Schedule \cup {None}
  /\ Versions(file) \subseteq Schedule \cup {None}
  /\ up \in BOOLEAN /\ now \in Time
  /\ claim \in [Worker -> Time \cup {None}]
  /\ wedged \in BOOLEAN /\ reconfigured \in BOOLEAN /\ owed \in BOOLEAN
  /\ lastClaim \in [at : Time, interval : Interval] \cup {None}
  /\ errors \in 0 .. MaxErrors /\ crashes \in 0 .. MaxCrashes

Init ==
  /\ schedule = None /\ file = Synced(None) /\ up = FALSE /\ now = 0
  /\ claim = [w \in Worker |-> None]
  /\ wedged = FALSE /\ reconfigured = FALSE /\ lastClaim = None /\ owed = FALSE
  /\ errors = 0 /\ crashes = 0

-----------------------------------------------------------------------------
(* write_locked, and the clock.                                            *)

WriteOk(s) == file' = Synced(s) /\ UNCHANGED errors
WriteFails(s) ==
  /\ errors < MaxErrors /\ errors' = errors + 1
  /\ file' \in AfterError(file, s)

\* The clock is read before the mutex is taken.
ReadTime == {t \in Time : t = now \/ t = now - 1}

Tick ==
  /\ now < MaxTime /\ now' = now + 1
  /\ UNCHANGED <<schedule, file, up, claim, wedged, reconfigured, lastClaim, owed, errors, crashes>>

-----------------------------------------------------------------------------
(* configure_at replaces the record, a running one as well; memory follows *)
(* the file.                                                               *)

Configured(i, t) ==
  [interval |-> i, due |-> t + i, state |-> "Idle", started |-> None, failures |-> 0]

Configure(i) ==
  /\ up
  /\ \E t \in ReadTime :
       /\ t + i <= MaxTime
       /\ \/ /\ WriteOk(Configured(i, t))
             /\ schedule' = Configured(i, t)
             /\ reconfigured' = (reconfigured \/ Claimed # {})
             /\ wedged' = FALSE /\ lastClaim' = None
          \/ /\ WriteFails(Configured(i, t))
             /\ UNCHANGED <<schedule, reconfigured, wedged, lastClaim>>
  /\ owed' = FALSE
  /\ UNCHANGED <<up, now, claim, crashes>>

-----------------------------------------------------------------------------
(* execute_if_due_at: begin_if_due_at, the handler, finish_at.             *)

Started(s, t) == [s EXCEPT !.state = "Running", !.started = t]

\* Fault: a scrub that is already running is claimed again.
BeginUnchecked(w) ==
  /\ up /\ claim[w] = None /\ schedule # None
  /\ \E t \in ReadTime :
       /\ schedule.due <= t
       /\ schedule' = Started(schedule, t)
       /\ lastClaim' = [at |-> t, interval |-> schedule.interval]
       /\ WriteOk(Started(schedule, t))
       /\ claim' = [claim EXCEPT ![w] = t] /\ owed' = FALSE
  /\ UNCHANGED <<up, now, wedged, reconfigured, crashes>>

\* Fault: a claim is due only after its time.
BeginLate(w) ==
  /\ up /\ claim[w] = None
  /\ schedule # None /\ schedule.state = "Idle"
  /\ \E t \in ReadTime :
       /\ schedule.due < t
       /\ schedule' = Started(schedule, t)
       /\ lastClaim' = [at |-> t, interval |-> schedule.interval]
       /\ \/ /\ WriteOk(Started(schedule, t))
             /\ claim' = [claim EXCEPT ![w] = t]
             /\ owed' = FALSE /\ UNCHANGED wedged
          \/ /\ WriteFails(Started(schedule, t))
             /\ wedged' = TRUE /\ UNCHANGED <<claim, owed>>
  /\ UNCHANGED <<up, now, reconfigured, crashes>>

\* A failed write leaves the record in memory running, with no one to finish it.
Begin(w) ==
  /\ up /\ claim[w] = None
  /\ schedule # None /\ schedule.state = "Idle"
  /\ \E t \in ReadTime :
       /\ schedule.due <= t
       /\ schedule' = Started(schedule, t)
       /\ lastClaim' = [at |-> t, interval |-> schedule.interval]
       /\ \/ /\ WriteOk(Started(schedule, t))
             /\ claim' = [claim EXCEPT ![w] = t]
             /\ owed' = FALSE /\ UNCHANGED wedged
          \/ /\ WriteFails(Started(schedule, t))
             /\ wedged' = TRUE /\ UNCHANGED <<claim, owed>>
  /\ UNCHANGED <<up, now, reconfigured, crashes>>

\* Fault: a failed scrub keeps its due time.
FinishedStillDue(s, t, ok) ==
  [s EXCEPT !.state = "Idle", !.due = IF ok THEN t + s.interval ELSE @,
            !.failures = IF ok THEN 0 ELSE @ + 1]

Finished(s, t, ok) ==
  [s EXCEPT !.state = "Idle", !.due = t + s.interval,
            !.failures = IF ok THEN 0 ELSE @ + 1]

\* Fault: a handler that fails leaves without the outcome being recorded.
FinishUnlessFailed(w) ==
  /\ up /\ claim[w] # None
  /\ \/ /\ Running /\ claim[w] + schedule.interval <= MaxTime
        /\ schedule' = Finished(schedule, claim[w], TRUE)
        /\ WriteOk(Finished(schedule, claim[w], TRUE))
     \/ UNCHANGED <<schedule, file, errors>>
  /\ claim' = [claim EXCEPT ![w] = None]
  /\ UNCHANGED <<up, now, wedged, reconfigured, lastClaim, owed, crashes>>

\* The claim's time is the completion time too.  A record that is not running
\* any more refuses the outcome; an overflow leaves what was already changed
\* in memory and writes nothing.
Finish(w) ==
  /\ up /\ claim[w] # None
  /\ \E ok \in BOOLEAN :
       LET t == claim[w] IN
       \/ /\ ~Running
          /\ UNCHANGED <<schedule, file, errors>>
       \/ /\ Running /\ t + schedule.interval > MaxTime
          /\ schedule' = [schedule EXCEPT !.state = "Idle"]
          /\ UNCHANGED <<file, errors>>
       \/ /\ Running /\ t + schedule.interval <= MaxTime
          /\ ~ok /\ schedule.failures = MaxFailures
          /\ schedule' = [schedule EXCEPT !.state = "Idle", !.due = t + schedule.interval]
          /\ UNCHANGED <<file, errors>>
       \/ /\ Running /\ t + schedule.interval <= MaxTime
          /\ ok \/ schedule.failures < MaxFailures
          /\ schedule' = Finished(schedule, t, ok)
          /\ WriteOk(Finished(schedule, t, ok)) \/ WriteFails(Finished(schedule, t, ok))
  /\ claim' = [claim EXCEPT ![w] = None]
  /\ reconfigured' = (reconfigured /\ Claimed \ {w} # {})
  /\ lastClaim' = IF reconfigured THEN None ELSE lastClaim
  /\ UNCHANGED <<up, now, wedged, owed, crashes>>

-----------------------------------------------------------------------------
(* Crashes and open.                                                       *)

Down ==
  /\ up /\ up' = FALSE
  /\ crashes < MaxCrashes /\ crashes' = crashes + 1
  /\ schedule' = None
  /\ owed' = (owed \/ (Claimed # {} /\ Running /\ file.past = {}))
  /\ claim' = [w \in Worker |-> None]
  /\ wedged' = FALSE /\ reconfigured' = FALSE /\ lastClaim' = None
  /\ UNCHANGED <<now, errors>>

Kill == Down /\ UNCHANGED file
PowerLoss == Down /\ file' \in AfterPowerLoss(file)

\* Fault: an interrupted scrub waits for its next due time.
RecoveredLater(s, t) == [s EXCEPT !.state = "Idle", !.due = t + s.interval]

\* recover_startup_at.
Recovered(s, t) == [s EXCEPT !.state = "Idle", !.due = IF t < @ THEN t ELSE @]

Open ==
  /\ ~up
  /\ \E t \in ReadTime :
       IF file.now # None /\ file.now.state = "Running"
         THEN \/ /\ WriteOk(Recovered(file.now, t))
                 /\ schedule' = Recovered(file.now, t) /\ up' = TRUE
              \/ WriteFails(Recovered(file.now, t)) /\ UNCHANGED <<schedule, up>>
         ELSE schedule' = file.now /\ up' = TRUE /\ UNCHANGED <<file, errors>>
  /\ UNCHANGED <<now, claim, wedged, reconfigured, lastClaim, owed, crashes>>

-----------------------------------------------------------------------------
Next ==
  \/ Tick
  \/ \E i \in Interval : Configure(i)
  \/ \E w \in Worker : Begin(w) \/ Finish(w)
  \/ Open \/ Kill \/ PowerLoss

Spec == Init /\ [][Next]_vars

-----------------------------------------------------------------------------
(* Properties.                                                             *)

\* Only one worker runs a scrub, unless the schedule was replaced under it:
\* the record is running from the claim to the outcome, and refuses others.
OneScrub == ~reconfigured => \A w, v \in Claimed : w = v

\* A record that is running has a worker that will end it, unless the claim
\* could not be written: then the scrubs stop until the daemon is restarted or
\* the schedule is configured again.
RunningOwned == Running => Claimed # {} \/ wedged

\* A scrub that a crash interrupted is due as soon as the daemon is up again,
\* and stays due until it is claimed or the schedule is replaced.  A failed
\* configure_at during the scrub may have replaced it on disk already.
InterruptedDue == up /\ owed => Due \/ wedged

\* A process claims no scrub earlier than one interval after its last claim,
\* whether that scrub succeeded, failed, or could not be recorded: a broken
\* store does not busy-loop.  (An outcome that arrives after the schedule was
\* replaced is taken for that of the new schedule's scrub.)
RateLimited ==
  [][\A w \in Worker :
       claim[w] = None /\ claim'[w] # None /\ lastClaim # None
         /\ lastClaim.at + lastClaim.interval <= MaxTime
         => claim'[w] >= lastClaim.at + lastClaim.interval]_vars

\* At most one scrub runs, owned by the worker that claimed it, an interrupted one
\* is due at once, and starts keep the configured distance.
ScrubsSafe == [](TypeOK /\ OneScrub /\ RunningOwned /\ InterruptedDue) /\ RateLimited

\* A due scrub is claimed.
DueClaimed == Due ~> ~Due

\* A scrub that runs ends, whatever its outcome.
ScrubEnds == (Running /\ ~wedged) ~> (~Running \/ wedged)

-----------------------------------------------------------------------------
(* What the safety properties rest on.                                     *)

\* A process that is down has no claims, and one that is up has a record while
\* it remembers a claim.
DownInv ==
  /\ ~up => schedule = None /\ Claimed = {} /\ ~wedged /\ ~reconfigured /\ lastClaim = None
  /\ lastClaim # None => schedule # None

\* Unless the schedule was replaced under it, a claim is that of the scrub the record
\* says runs, and of the last one.
ClaimInv ==
  ~reconfigured => \A w \in Claimed : /\ Running
                                      /\ lastClaim = [at |-> claim[w], interval |-> schedule.interval]

\* A record that is idle again is due one interval after the last claim.
DueInv ==
  lastClaim # None /\ schedule # None /\ schedule.state = "Idle" /\ lastClaim.at + lastClaim.interval <= MaxTime
    => schedule.due >= lastClaim.at + lastClaim.interval

\* A scrub runs only when it was due, and what the file says of a schedule in memory is
\* that it runs, that it was due already, or that it is due no later.
FileInv ==
  /\ Running => schedule.due <= now
  /\ up /\ schedule # None /\ file.past = {} =>
       /\ file.now # None
       /\ file.now.state = "Running" \/ file.now.due <= now \/ file.now.due <= schedule.due

\* A scrub that is owed has no claim, and is due by every version of the file.
OwedInv ==
  owed => /\ Claimed = {}
          /\ \A v \in Versions(file) : v # None /\ (v.state = "Running" \/ v.due <= now)

\* Every step preserves this.
IInv ==
  /\ TypeOK /\ DownInv /\ ClaimInv /\ DueInv /\ FileInv /\ OwedInv
  /\ OneScrub /\ RunningOwned /\ InterruptedDue
=============================================================================
